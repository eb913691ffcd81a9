---------------------------- MODULE GroupService ----------------------------
(***************************************************************************)
(* One group of the server: its row in "groups", its rows in               *)
(* "group_members", and the handlers of GroupService and AdminService that *)
(* read and write them (internal/service/group_service.go,                 *)
(* internal/service/admin_service.go, internal/repo/group_repo.go).        *)
(*                                                                         *)
(* A handler runs in one of the goroutines Workers, one database round     *)
(* trip at a time.  Its plain SELECTs are steps of their own, so whatever  *)
(* it remembers may be stale when it writes.  A transaction that starts    *)
(* with SELECT ... FOR UPDATE on the group row holds that lock until it    *)
(* commits and writes only rows it has locked: it is one step.  An UPDATE  *)
(* outside a transaction is one step as well.                              *)
(*                                                                         *)
(* A handler that returns an error at any point, loses its database        *)
(* connection, has its context cancelled or dies with the process is       *)
(* Fail: every check of the code is therefore a guard of the step that     *)
(* makes it.                                                               *)
(***************************************************************************)
EXTENDS Permissions

CONSTANTS
    Users,          \* every user that may ever become a member
    ServerAdmins,   \* users whose peer_id is configured as a server admin
    Creators,       \* users requireCreateGroupPermission lets create a group
    CreateModes,    \* join_mode of the creation request
    Workers,        \* goroutines serving requests
    Ops,            \* operations clients call in this instance
    Policies,       \* values of the ttl / retract / cooldown settings
    DefaultPermissions, \* default_permissions of the creation request
    PermissionSets, \* bitsets a manager may write to permissions_allow / _deny
    OwnerWriteBack, \* TRUE iff Updates(map) of a group loaded with its
                    \* OwnerUser also writes owner_user_id (GORM belongs-to)
    NoUser,         \* "no user" in a request
    MaxVersion      \* bound on settings_version

ASSUME ConstantsAssumption ==
    /\ ServerAdmins \subseteq Users
    /\ Creators \subseteq Users
    /\ CreateModes \subseteq {"invite_only", "open"}
    /\ NoUser \notin Users
    /\ DefaultPermissions \in SUBSET AllPermissions \ {{}}
    /\ PermissionSets \subseteq SUBSET AllPermissions
    /\ OwnerWriteBack \in BOOLEAN
    /\ MaxVersion \in Nat \ {0}

VARIABLES
    group,          \* the row of "groups"
    members,        \* the rows of "group_members", by user
    req             \* what each worker's handler is doing and remembers

vars == <<group, members, req>>
-----------------------------------------------------------------------------
(***************************************************************************)
(* Rows                                                                    *)
(***************************************************************************)
JoinModes == {"invite_only", "open"}
GroupStatuses == {"active", "closed"}
MemberStatuses == {"active", "left", "kicked", "banned"}

Group == [owner : Users, joinMode : JoinModes, policy : Policies,
          version : Nat, status : GroupStatuses]

\* A user without a row has status "none".
Member == [role : Roles, status : MemberStatuses \cup {"none"},
           muted : BOOLEAN, allow : SUBSET AllPermissions,
           deny : SUBSET AllPermissions]

FreshMember(role) ==
    [role |-> role, status |-> "active", muted |-> FALSE,
     allow |-> {}, deny |-> {}]

NoMember == [FreshMember("member") EXCEPT !.status = "none"]

\* GetMember / GetMemberForUpdate find a row.
HasRow(u) == members[u].status # "none"

IsServerAdmin(u) == u \in ServerAdmins

\* default_permissions is fixed when the group is created; a request that does
\* not set it gets DefaultMemberPermissions.
Permitted(m) ==
    EffectivePermissions(m.role, DefaultPermissions, m.allow, m.deny)
-----------------------------------------------------------------------------
(***************************************************************************)
(* Requests.  pc is the next database call: "operator" and "target" are    *)
(* the SELECTs of those member rows, "commit" is the transaction or the    *)
(* UPDATE that ends the handler.  grp, role and row are what the handler   *)
(* remembers: the group, the operator's role and the target row as read.   *)
(***************************************************************************)
MembershipOps == {"JoinGroup", "InviteMembers", "LeaveGroup"}
LifecycleOps == {"DissolveGroup", "AdminDissolveGroup", "TransferOwnership",
                 "AdminTransferGroupOwnership", "UpdateMessagePolicy"}
SettingsOps == {"UpdateGroup", "AdminUpdateGroup"}
TargetOps == {"UpdateMemberPermissions", "MuteMember", "BanMember",
              "SetGroupAdmin", "AdminSetGroupAdmin"}
AllOps == MembershipOps \cup LifecycleOps \cup SettingsOps \cup TargetOps

ASSUME OpsAssumption == Ops \subseteq AllOps

\* Operations whose write happens in a transaction that locks the group row.
LockedOps == MembershipOps \cup LifecycleOps

NoGroup == [owner |-> NoUser, version |-> 0]

Request == [pc : {"idle", "operator", "target", "commit"},
            op : AllOps \cup {"none"},
            user : Users \cup {NoUser}, target : Users \cup {NoUser},
            role : Roles, grp : Group \cup {NoGroup}, row : Member]

Idle == [pc |-> "idle", op |-> "none", user |-> NoUser, target |-> NoUser,
         role |-> "member", grp |-> NoGroup, row |-> NoMember]

At(w, pc, op) == req[w].pc = pc /\ req[w].op = op

\* Worker w takes a request: the handler has read the group row and goes on to
\* the step pc, remembering the group as grp.
Accept(w, op, u, t, pc, grp) ==
    /\ req[w].pc = "idle"
    /\ op \in Ops
    /\ req' = [req EXCEPT ![w] = [Idle EXCEPT !.pc = pc, !.op = op, !.user = u,
                                              !.target = t, !.grp = grp]]
    /\ UNCHANGED <<group, members>>

Finish(w) == req' = [req EXCEPT ![w] = Idle]
-----------------------------------------------------------------------------
(***************************************************************************)
(* CreateGroup: the initial state.  The message policy may have been set    *)
(* before the first request of a behavior.                                 *)
(***************************************************************************)
Init ==
    /\ \E u \in Creators, mode \in CreateModes, p \in Policies :
         /\ group = [owner |-> u, joinMode |-> mode, policy |-> p,
                     version |-> 1, status |-> "active"]
         /\ members = [v \in Users |-> IF v = u THEN FreshMember("owner")
                                                ELSE NoMember]
    /\ req = [w \in Workers |-> Idle]
-----------------------------------------------------------------------------
(***************************************************************************)
(* First SELECT of each handler, with the checks made on it                *)
(***************************************************************************)
JoinGroup(w, u) ==
    /\ group.status = "active"
    /\ group.joinMode = "open"
    /\ Accept(w, "JoinGroup", u, NoUser, "commit", NoGroup)

\* A server admin need not be a member: the inviter's row is not looked at.
InviteMembersByPeerIDs(w, u) ==
    /\ group.status = "active"
    /\ Accept(w, "InviteMembers", u, NoUser,
              IF IsServerAdmin(u) THEN "commit" ELSE "operator", NoGroup)

\* The one member operation a closed group still serves.
LeaveGroup(w, u) == Accept(w, "LeaveGroup", u, NoUser, "operator", group)

DissolveGroup(w, u) ==
    /\ IsServerAdmin(u)
    /\ Accept(w, "DissolveGroup", NoUser, NoUser, "commit", NoGroup)

AdminDissolveGroup(w) ==
    Accept(w, "AdminDissolveGroup", NoUser, NoUser, "commit", NoGroup)

TransferOwnership(w, u) ==
    /\ group.status = "active"
    /\ Accept(w, "TransferOwnership", u, NoUser, "operator", group)

\* A transfer to the owner of the moment returns without writing.
AdminTransferGroupOwnership(w, t) ==
    /\ group.status = "active"
    /\ t # group.owner
    /\ Accept(w, "AdminTransferGroupOwnership", NoUser, t, "commit", NoGroup)

UpdateGroup(w, u) ==
    /\ group.status = "active"
    /\ Accept(w, "UpdateGroup", u, NoUser, "operator", group)

\* The admin console edits a closed group too: this is how one is reopened.
AdminUpdateGroup(w) ==
    Accept(w, "AdminUpdateGroup", NoUser, NoUser, "commit", group)

UpdateMessagePolicy(w, u) ==
    /\ group.status = "active"
    /\ Accept(w, "UpdateMessagePolicy", u, NoUser, "operator", NoGroup)

\* requireManageableTarget starts UpdateMemberPermissions, MuteMember and
\* BanMember.
ManageTarget(w, op, u, t) ==
    /\ op \in {"UpdateMemberPermissions", "MuteMember", "BanMember"}
    /\ group.status = "active"
    /\ Accept(w, op, u, t, "operator", NoGroup)

\* The group's owner column is looked at, not the operator's member row.
requireAdminAssignmentPermission(u) == IsServerAdmin(u) \/ group.owner = u

SetGroupAdmin(w, u, t) ==
    /\ group.status = "active"
    /\ requireAdminAssignmentPermission(u)
    /\ Accept(w, "SetGroupAdmin", NoUser, t, "target", NoGroup)

AdminSetGroupAdmin(w, t) ==
    /\ group.status = "active"
    /\ Accept(w, "AdminSetGroupAdmin", NoUser, t, "target", NoGroup)
-----------------------------------------------------------------------------
(***************************************************************************)
(* SELECT of the operator's row (requireMembership) and the permission     *)
(* check of the operation                                                  *)
(***************************************************************************)
RequiredPermission ==
    [UpdateGroup             |-> "EditGroupInfo",
     UpdateMessagePolicy     |-> "ManageMessagePolicy",
     UpdateMemberPermissions |-> "SetMemberPermissions",
     MuteMember              |-> "MuteMembers",
     BanMember               |-> "BanMembers"]

OperatorAllowed(r) ==
    LET m == members[r.user] IN
    /\ m.status = "active"
    /\ r.op = "InviteMembers" => m.role \in {"owner", "admin"}
    /\ r.op = "LeaveGroup" => r.grp.owner # r.user /\ m.role # "owner"
    /\ r.op = "TransferOwnership" => m.role = "owner" /\ r.grp.owner = r.user
    /\ r.op \in DOMAIN RequiredPermission =>
          RequiredPermission[r.op] \in Permitted(m)

\* Only UpdateGroup still needs the group it read, only the operations on a
\* target the operator's role, and only memberships and transfers the user.
ReadOperator(w) ==
    LET r == req[w] IN
    /\ r.pc = "operator"
    /\ OperatorAllowed(r)
    /\ req' = [req EXCEPT
         ![w].pc = IF r.op \in TargetOps THEN "target" ELSE "commit",
         ![w].role = IF r.op \in TargetOps THEN members[r.user].role ELSE @,
         ![w].user = IF r.op \in MembershipOps \cup {"TransferOwnership"}
                     THEN @ ELSE NoUser,
         ![w].grp = IF r.op = "UpdateGroup" THEN @ ELSE NoGroup]
    /\ UNCHANGED <<group, members>>
-----------------------------------------------------------------------------
(***************************************************************************)
(* SELECT of the target's row; the handler then changes its copy of it     *)
(***************************************************************************)
Target(w) == members[req[w].target]

LoadTarget(w, row) ==
    /\ HasRow(req[w].target)
    /\ Target(w).role # "owner"
    /\ req' = [req EXCEPT ![w].pc = "commit", ![w].role = "member",
                          ![w].row = row]
    /\ UNCHANGED <<group, members>>

\* Second half of requireManageableTarget.
MayManage(w) == Outranks(req[w].role, Target(w).role)

LoadForPermissions(w) ==
    /\ At(w, "target", "UpdateMemberPermissions")
    /\ MayManage(w)
    /\ \E allow, deny \in PermissionSets :
         LoadTarget(w, [Target(w) EXCEPT !.allow = allow, !.deny = deny])

\* duration_seconds = 0 lifts the mute.
LoadForMute(w) ==
    /\ At(w, "target", "MuteMember")
    /\ MayManage(w)
    /\ \E muted \in BOOLEAN :
         LoadTarget(w, [Target(w) EXCEPT !.muted = muted])

LoadForBan(w) ==
    /\ At(w, "target", "BanMember")
    /\ MayManage(w)
    /\ LoadTarget(w, [Target(w) EXCEPT !.status = "banned", !.muted = FALSE])

\* is_admin = FALSE demotes an admin and leaves any other role alone.
WithAdmin(m, isAdmin) ==
    [m EXCEPT !.role = IF isAdmin THEN "admin"
                       ELSE IF m.role = "admin" THEN "member" ELSE m.role]

LoadForAdmin(w) ==
    /\ At(w, "target", "SetGroupAdmin")
    /\ Target(w).status = "active"
    /\ \E isAdmin \in BOOLEAN : LoadTarget(w, WithAdmin(Target(w), isAdmin))

AdminLoadForAdmin(w) ==
    /\ At(w, "target", "AdminSetGroupAdmin")
    /\ Target(w).status = "active"
    /\ \E isAdmin \in BOOLEAN : LoadTarget(w, WithAdmin(Target(w), isAdmin))
-----------------------------------------------------------------------------
(***************************************************************************)
(* Writes                                                                  *)
(***************************************************************************)
\* GroupRepo.UpdateMember: every mutable column of the row, from the copy.
UpdateMember(w) ==
    /\ req[w].pc = "commit"
    /\ req[w].op \in TargetOps
    /\ members' = [members EXCEPT ![req[w].target] = req[w].row]
    /\ UNCHANGED group
    /\ Finish(w)

\* Fault: a status no other code knows.
Admitted_UnknownStatus(m) ==
    IF m.status = "active" THEN m
    ELSE [FreshMember("member") EXCEPT !.status = "joined"]

\* A user who is not banned is a plain active member afterwards; an active
\* one is left as it is.
Admitted(m) == IF m.status = "active" THEN m ELSE FreshMember("member")

\* Fault: the group is not looked at again under the lock.
JoinGroupTx_StaleGroup(w) ==
    LET u == req[w].user IN
    /\ At(w, "commit", "JoinGroup")
    /\ members[u].status # "banned"
    /\ members' = [members EXCEPT ![u] = Admitted(@)]
    /\ UNCHANGED group
    /\ Finish(w)

\* Fault: the ban is forgotten.
JoinGroupTx_IgnoreBan(w) ==
    LET u == req[w].user IN
    /\ At(w, "commit", "JoinGroup")
    /\ group.status = "active"
    /\ group.joinMode = "open"
    /\ members' = [members EXCEPT ![u] = Admitted(@)]
    /\ UNCHANGED group
    /\ Finish(w)

JoinGroupTx(w) ==
    LET u == req[w].user IN
    /\ At(w, "commit", "JoinGroup")
    /\ group.status = "active"
    /\ group.joinMode = "open"
    /\ members[u].status # "banned"
    /\ members' = [members EXCEPT ![u] = Admitted(@)]
    /\ UNCHANGED group
    /\ Finish(w)

\* The inviter, looked at again with its row locked.
InviterAllowed(u) ==
    \/ IsServerAdmin(u)
    \/ /\ members[u].status = "active"
       /\ members[u].role \in {"owner", "admin"}

InviteMembersTx(w) ==
    LET u == req[w].user IN
    /\ At(w, "commit", "InviteMembers")
    /\ group.status = "active"
    /\ InviterAllowed(u)
    /\ \E T \in SUBSET (Users \ {u}) :
         /\ T # {}
         /\ \A t \in T : members[t].status # "banned"
         /\ members' = [t \in Users |-> IF t \in T THEN Admitted(members[t])
                                                   ELSE members[t]]
    /\ UNCHANGED group
    /\ Finish(w)

\* Fault: ownership is checked only before the transaction.
LeaveGroupTx_StaleOwner(w) ==
    LET u == req[w].user IN
    /\ At(w, "commit", "LeaveGroup")
    /\ members[u].status = "active"
    /\ members' = [members EXCEPT ![u].status = "left", ![u].muted = FALSE]
    /\ UNCHANGED group
    /\ Finish(w)

LeaveGroupTx(w) ==
    LET u == req[w].user IN
    /\ At(w, "commit", "LeaveGroup")
    /\ members[u].status = "active"
    /\ group.owner # u
    /\ members[u].role # "owner"
    /\ members' = [members EXCEPT ![u].status = "left", ![u].muted = FALSE]
    /\ UNCHANGED group
    /\ Finish(w)

\* Closing a closed group changes nothing.
Closed(g) == IF g.status = "closed" THEN g
             ELSE [g EXCEPT !.status = "closed", !.version = @ + 1]

DissolveGroupTx(w) ==
    /\ At(w, "commit", "DissolveGroup")
    /\ group.version < MaxVersion
    /\ group' = Closed(group)
    /\ UNCHANGED members
    /\ Finish(w)

AdminDissolveGroupTx(w) ==
    /\ At(w, "commit", "AdminDissolveGroup")
    /\ group.version < MaxVersion
    /\ group' = Closed(group)
    /\ UNCHANGED members
    /\ Finish(w)

\* Fault: the old owner keeps its role.
HandOver_NoDemotion(old, new) ==
    /\ HasRow(old)
    /\ members[new].status = "active"
    /\ group.version < MaxVersion
    /\ members' = [members EXCEPT ![new].role = "owner"]
    /\ group' = [group EXCEPT !.owner = new, !.version = @ + 1]

\* The three UPDATEs of a transfer, in their order: the old owner's role, the
\* new owner's role, the group.
HandOver(old, new) ==
    /\ HasRow(old)
    /\ members[new].status = "active"
    /\ group.version < MaxVersion
    /\ members' = [members EXCEPT ![old].role = "admin", ![new].role = "owner"]
    /\ group' = [group EXCEPT !.owner = new, !.version = @ + 1]

TransferOwnershipTx(w) ==
    LET u == req[w].user IN
    /\ At(w, "commit", "TransferOwnership")
    /\ group.owner = u
    /\ \E t \in Users \ {u} : HandOver(u, t)
    /\ Finish(w)

AdminTransferGroupOwnershipTx(w) ==
    /\ At(w, "commit", "AdminTransferGroupOwnership")
    /\ HandOver(group.owner, req[w].target)
    /\ Finish(w)

UpdateMessagePolicyTx(w) ==
    /\ At(w, "commit", "UpdateMessagePolicy")
    /\ group.version < MaxVersion
    /\ \E p \in Policies :
         group' = [group EXCEPT !.policy = p, !.version = @ + 1]
    /\ UNCHANGED members
    /\ Finish(w)

\* GroupRepo.Update: every settings column and the status, from the copy the
\* handler read, with the fields of the input replaced.
UpdateGroupRow(w) ==
    LET g == req[w].grp IN
    /\ req[w].pc = "commit"
    /\ req[w].op \in SettingsOps
    /\ g.version < MaxVersion
    /\ \E mode \in JoinModes, status \in GroupStatuses :
         group' = [owner    |-> IF OwnerWriteBack THEN g.owner ELSE group.owner,
                   joinMode |-> mode, policy |-> g.policy,
                   version  |-> g.version + 1, status |-> status]
    /\ UNCHANGED members
    /\ Finish(w)

\* An error return, a cancelled context, a lost connection or a crash.
Fail(w) ==
    /\ req[w].pc # "idle"
    /\ Finish(w)
    /\ UNCHANGED <<group, members>>
-----------------------------------------------------------------------------
Receive(w) ==
    \/ AdminDissolveGroup(w)
    \/ AdminUpdateGroup(w)
    \/ \E u \in Users :
         \/ JoinGroup(w, u)
         \/ InviteMembersByPeerIDs(w, u)
         \/ LeaveGroup(w, u)
         \/ DissolveGroup(w, u)
         \/ TransferOwnership(w, u)
         \/ UpdateGroup(w, u)
         \/ UpdateMessagePolicy(w, u)
         \/ AdminTransferGroupOwnership(w, u)
         \/ AdminSetGroupAdmin(w, u)
         \/ \E t \in Users : \/ SetGroupAdmin(w, u, t)
                             \/ \E op \in TargetOps : ManageTarget(w, op, u, t)

Load(w) ==
    \/ ReadOperator(w)
    \/ LoadForPermissions(w)
    \/ LoadForMute(w)
    \/ LoadForBan(w)
    \/ LoadForAdmin(w)
    \/ AdminLoadForAdmin(w)

Commit(w) ==
    \/ JoinGroupTx(w)
    \/ InviteMembersTx(w)
    \/ LeaveGroupTx(w)
    \/ DissolveGroupTx(w)
    \/ AdminDissolveGroupTx(w)
    \/ TransferOwnershipTx(w)
    \/ AdminTransferGroupOwnershipTx(w)
    \/ UpdateMessagePolicyTx(w)
    \/ UpdateGroupRow(w)
    \/ UpdateMember(w)

Next == \E w \in Workers : Receive(w) \/ Load(w) \/ Commit(w) \/ Fail(w)

Spec == Init /\ [][Next]_vars
-----------------------------------------------------------------------------
(***************************************************************************)
(* Properties                                                              *)
(***************************************************************************)
\* Rows and requests have the shape their Go types give them.
TypeOK ==
    /\ group \in Group
    /\ members \in [Users -> Member]
    /\ req \in [Workers -> Request]

\* What a handler remembers is what its write relies on: it serves an enabled
\* operation, a membership check has somebody to check, a settings update has
\* read the group, an operation on a target names one, a copy of a member row
\* never carries the role "owner", and the copy a ban is about to write is a
\* banned one.
RequestOK(r) ==
    /\ r.op \in Ops \cup {"none"}
    /\ r.pc = "operator" => r.user \in Users /\ r.op # "AdminUpdateGroup"
    /\ r.op \in SettingsOps => r.grp \in Group
    /\ r.op \in TargetOps \cup {"AdminTransferGroupOwnership"} =>
          r.target \in Users
    /\ r.row.role # "owner"
    /\ r.op = "BanMember" /\ r.pc = "commit" => r.row.status = "banned"

RequestsOK == \A w \in Workers : RequestOK(req[w])

\* The role "owner" is held by no member but the one groups.owner_user_id
\* names, whatever member updates and transfers of ownership overlap.
OwnerRoleIsOwner ==
    \A u \in Users : members[u].role = "owner" => group.owner = u

\* The owner named by the group is an active member with role "owner": the
\* group can still be administered.
OwnerIsActive ==
    /\ members[group.owner].role = "owner"
    /\ members[group.owner].status = "active"

\* Worker w ends its request in this step.
Ends(w) == req[w].pc # "idle" /\ req'[w].pc = "idle"

\* Worker w is about to write back the row of a user who has become the owner
\* since the row was read (LoadTarget refuses the owner's), or the group with the
\* owner it had before a transfer.
OwnerStale(w) ==
    /\ req[w].pc = "commit"
    /\ \/ req[w].op \in TargetOps /\ req[w].target = group.owner
       \/ req[w].op \in SettingsOps /\ req[w].grp.owner # group.owner

\* The group is left without an active owner only by a write from a copy read
\* before a transfer of ownership: UpdateMember and Update, outside the group's
\* lock, do that.  No overlap of transfers, leaves, joins, invitations, bans and
\* other updates does it otherwise.
OwnerKept ==
    [][OwnerIsActive =>
         OwnerIsActive' \/ \E w \in Workers : Ends(w) /\ OwnerStale(w)]_vars

\* Worker w is about to write back the row of u with the status it had when the
\* row was read, and the status has changed since.
StatusStale(w, u) ==
    /\ req[w].pc = "commit"
    /\ req[w].op \in TargetOps \ {"BanMember"}
    /\ req[w].target = u
    /\ req[w].row.status # members[u].status

\* A user becomes an active member only by joining a group that is active and
\* open at that moment, or at the invitation of somebody who may invite at that
\* moment, and then comes (back) as a plain, unmuted member - or because an
\* UpdateMember writes back the row as it read it while the user was active.
AdmissionAuthorised ==
    [][\A u \in Users :
         members[u].status # "active" /\ members'[u].status = "active" =>
           \E w \in Workers :
             /\ Ends(w)
             /\ \/ StatusStale(w, u)
                \/ /\ group.status = "active"
                   /\ members'[u] = FreshMember("member")
                   /\ \/ At(w, "commit", "JoinGroup") /\ group.joinMode = "open"
                                                      /\ req[w].user = u
                      \/ At(w, "commit", "InviteMembers")
                           /\ InviterAllowed(req[w].user)]_vars

\* A ban is lifted only by an UpdateMember that read the row before the ban: no
\* join, invitation, leave or transfer lifts it, whatever it found before, and no
\* handler that finds the ban remembers anything else for its write.
BanStands ==
    [][\A u \in Users : members[u].status = "banned" =>
         /\ \/ members'[u].status = "banned"
            \/ \E w \in Workers : Ends(w) /\ StatusStale(w, u)
         /\ \A w \in Workers :
              req[w].pc = "target" /\ req[w].target = u /\ req'[w].pc = "commit"
                => req'[w].row.status = "banned"]_vars

\* Once closed, a group is active again only when the admin console says so.
ReopenedByConsole ==
    [][group.status = "closed" /\ group'.status = "active" =>
         \E w \in Workers : Ends(w) /\ At(w, "commit", "AdminUpdateGroup")]_vars
=============================================================================
