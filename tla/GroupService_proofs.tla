------------------------ MODULE GroupService_proofs ------------------------
(***************************************************************************)
(* Proofs about GroupService, for any users, workers, policies and bounds. *)
(***************************************************************************)
EXTENDS GroupService, TLAPS

\* Every operation leaves rows and requests well formed.
Inv == TypeOK /\ RequestsOK

\* A worker with nothing to do is well formed.
LEMMA IdleOK == Idle \in Request /\ RequestOK(Idle)
  BY DEF Idle, Request, RequestOK, NoMember, FreshMember, NoGroup, Member,
         Roles, MemberStatuses, SettingsOps, TargetOps

\* Ending a request (every handler's return) leaves the workers well formed.
LEMMA FinishOK ==
    ASSUME Inv, NEW w \in Workers, Finish(w)
    PROVE  req' \in [Workers -> Request] /\ RequestsOK'
  BY IdleOK DEF Inv, TypeOK, RequestsOK, Finish, RequestOK

\* So does taking a request, whatever the operation, when what it names and
\* remembers is what that operation needs.
LEMMA AcceptOK ==
    ASSUME Inv, NEW w \in Workers, NEW op \in AllOps,
           NEW u \in Users \cup {NoUser}, NEW t \in Users \cup {NoUser},
           NEW pc \in {"operator", "target", "commit"},
           NEW grp \in Group \cup {NoGroup},
           pc = "operator" => u \in Users /\ op # "AdminUpdateGroup",
           op \in SettingsOps => grp \in Group,
           op \in TargetOps \cup {"AdminTransferGroupOwnership"} => t \in Users,
           op = "BanMember" => pc # "commit",
           Accept(w, op, u, t, pc, grp)
    PROVE  Inv'
<1> DEFINE r == [Idle EXCEPT !.pc = pc, !.op = op, !.user = u,
                             !.target = t, !.grp = grp]
<1>1. r \in Request
  BY IdleOK DEF Request
<1>2. RequestOK(r)
  BY IdleOK DEF RequestOK, Accept, Idle, NoMember, FreshMember
<1>3. req' = [req EXCEPT ![w] = r] /\ UNCHANGED <<group, members>>
  BY DEF Accept
<1> HIDE DEF r
<1>4. QED
  BY <1>1, <1>2, <1>3 DEF Inv, TypeOK, RequestsOK, RequestOK

\* The rows CreateWithOwner, joins and invitations write have the row type.
LEMMA RowTypes ==
    /\ \A role \in Roles : FreshMember(role) \in Member
    /\ NoMember \in Member
    /\ \A m \in Member : Admitted(m) \in Member
  BY DEF FreshMember, NoMember, Admitted, Member, Roles, MemberStatuses

\* CreateGroup starts in a well-formed state.
LEMMA InitInv == Init => Inv
<1> SUFFICES ASSUME Init PROVE Inv
  OBVIOUS
<1>1. PICK u \in Creators, mode \in CreateModes, p \in Policies :
        /\ group = [owner |-> u, joinMode |-> mode, policy |-> p,
                    version |-> 1, status |-> "active"]
        /\ members = [v \in Users |-> IF v = u THEN FreshMember("owner")
                                               ELSE NoMember]
  BY DEF Init
<1>2. group \in Group
  BY <1>1, ConstantsAssumption DEF Group, JoinModes, GroupStatuses
<1>3. members \in [Users -> Member]
  BY <1>1, RowTypes DEF Roles
<1>4. req \in [Workers -> Request] /\ RequestsOK
  BY IdleOK DEF Init, RequestsOK
<1>5. QED
  BY <1>2, <1>3, <1>4 DEF Inv, TypeOK

\* The first SELECT of every handler keeps Inv.
LEMMA ReceiveInv ==
    ASSUME Inv, NEW w \in Workers, Receive(w)
    PROVE  Inv'
<1> USE DEF AllOps, MembershipOps, LifecycleOps, SettingsOps, TargetOps
<1>0. group \in Group
  BY DEF Inv, TypeOK
<1>1. CASE AdminDissolveGroup(w)
  BY <1>1, AcceptOK DEF AdminDissolveGroup
<1>2. CASE AdminUpdateGroup(w)
  BY <1>0, <1>2, AcceptOK DEF AdminUpdateGroup
<1>3. ASSUME NEW u \in Users, JoinGroup(w, u) PROVE Inv'
  BY <1>3, AcceptOK DEF JoinGroup
<1>4. ASSUME NEW u \in Users, InviteMembersByPeerIDs(w, u) PROVE Inv'
  BY <1>4, AcceptOK DEF InviteMembersByPeerIDs
<1>5. ASSUME NEW u \in Users, LeaveGroup(w, u) PROVE Inv'
  BY <1>0, <1>5, AcceptOK DEF LeaveGroup
<1>6. ASSUME NEW u \in Users, DissolveGroup(w, u) PROVE Inv'
  BY <1>6, AcceptOK DEF DissolveGroup
<1>7. ASSUME NEW u \in Users, TransferOwnership(w, u) PROVE Inv'
  BY <1>0, <1>7, AcceptOK DEF TransferOwnership
<1>8. ASSUME NEW u \in Users, UpdateGroup(w, u) PROVE Inv'
  BY <1>0, <1>8, AcceptOK DEF UpdateGroup
<1>9. ASSUME NEW u \in Users, UpdateMessagePolicy(w, u) PROVE Inv'
  BY <1>9, AcceptOK DEF UpdateMessagePolicy
<1>10. ASSUME NEW u \in Users, AdminTransferGroupOwnership(w, u) PROVE Inv'
  BY <1>10, AcceptOK DEF AdminTransferGroupOwnership
<1>11. ASSUME NEW u \in Users, AdminSetGroupAdmin(w, u) PROVE Inv'
  BY <1>11, AcceptOK DEF AdminSetGroupAdmin
<1>12. ASSUME NEW u \in Users, NEW t \in Users, SetGroupAdmin(w, u, t) PROVE Inv'
  BY <1>12, AcceptOK DEF SetGroupAdmin
<1>13. ASSUME NEW u \in Users, NEW t \in Users, NEW op \in TargetOps,
              ManageTarget(w, op, u, t)
       PROVE  Inv'
  BY <1>13, AcceptOK DEF ManageTarget
<1>14. QED
  BY <1>1, <1>2, <1>3, <1>4, <1>5, <1>6, <1>7, <1>8, <1>9, <1>10, <1>11,
     <1>12, <1>13 DEF Receive

\* A copy of a member row made for a target operation keeps Inv.
LEMMA LoadTargetInv ==
    ASSUME Inv, NEW w \in Workers, req[w].op \in TargetOps,
           NEW row \in Member, row.role # "owner",
           req[w].op = "BanMember" => row.status = "banned",
           LoadTarget(w, row)
    PROVE  Inv'
<1> DEFINE r == [req[w] EXCEPT !.pc = "commit", !.role = "member", !.row = row]
<1>1. req[w] \in Request /\ RequestOK(req[w])
  BY DEF Inv, TypeOK, RequestsOK
<1>2. r \in Request
  BY <1>1 DEF Request, Roles
<1>3. RequestOK(r)
  BY <1>1 DEF RequestOK, Request
<1>4. req' = [req EXCEPT ![w] = r] /\ UNCHANGED <<group, members>>
  BY <1>1 DEF LoadTarget, Inv, TypeOK, Request
<1> HIDE DEF r
<1>5. QED
  BY <1>2, <1>3, <1>4 DEF Inv, TypeOK, RequestsOK, RequestOK

\* The SELECTs of the operator's and the target's row keep Inv.
LEMMA LoadInv ==
    ASSUME Inv, NEW w \in Workers, Load(w)
    PROVE  Inv'
<1>0. req[w] \in Request /\ RequestOK(req[w]) /\ members \in [Users -> Member]
  BY DEF Inv, TypeOK, RequestsOK
<1>1. CASE ReadOperator(w)
  <2> DEFINE r == [req[w] EXCEPT
         !.pc = IF req[w].op \in TargetOps THEN "target" ELSE "commit",
         !.role = IF req[w].op \in TargetOps THEN members[req[w].user].role
                                              ELSE @,
         !.user = IF req[w].op \in MembershipOps \cup {"TransferOwnership"}
                  THEN @ ELSE NoUser,
         !.grp = IF req[w].op = "UpdateGroup" THEN @ ELSE NoGroup]
  <2>1. req' = [req EXCEPT ![w] = r] /\ UNCHANGED <<group, members>>
    BY <1>0, <1>1 DEF ReadOperator, Inv, TypeOK, Request
  <2>2. r \in Request
    BY <1>0, <1>1 DEF ReadOperator, Request, RequestOK, Member
  <2>3. RequestOK(r)
    BY <1>0, <1>1 DEF ReadOperator, Request, RequestOK, SettingsOps, TargetOps
  <2> HIDE DEF r
  <2>4. QED
    BY <2>1, <2>2, <2>3 DEF Inv, TypeOK, RequestsOK, RequestOK
<1>2. ASSUME At(w, "target", "UpdateMemberPermissions") \/ At(w, "target", "MuteMember")
             \/ At(w, "target", "BanMember") \/ At(w, "target", "SetGroupAdmin")
             \/ At(w, "target", "AdminSetGroupAdmin")
      PROVE  req[w].op \in TargetOps /\ Target(w) \in Member
  BY <1>0, <1>2 DEF At, Target, TargetOps, RequestOK
<1>3. CASE LoadForPermissions(w)
  <2>1. PICK allow \in PermissionSets, deny \in PermissionSets :
          LoadTarget(w, [Target(w) EXCEPT !.allow = allow, !.deny = deny])
    BY <1>3 DEF LoadForPermissions
  <2> DEFINE row == [Target(w) EXCEPT !.allow = allow, !.deny = deny]
  <2>2. row \in Member /\ row.role # "owner"
    BY <1>2, <1>3, <2>1, ConstantsAssumption
       DEF LoadForPermissions, LoadTarget, Member
  <2>3. QED
    BY <1>2, <1>3, <2>1, <2>2, LoadTargetInv DEF LoadForPermissions, At
<1>4. CASE LoadForMute(w)
  <2>1. PICK muted \in BOOLEAN :
          LoadTarget(w, [Target(w) EXCEPT !.muted = muted])
    BY <1>4 DEF LoadForMute
  <2>2. [Target(w) EXCEPT !.muted = muted] \in Member
        /\ [Target(w) EXCEPT !.muted = muted].role # "owner"
    BY <1>2, <1>4, <2>1 DEF LoadForMute, LoadTarget, Member
  <2>3. QED
    BY <1>2, <1>4, <2>1, <2>2, LoadTargetInv DEF LoadForMute, At
<1>5. CASE LoadForBan(w)
  <2> DEFINE row == [Target(w) EXCEPT !.status = "banned", !.muted = FALSE]
  <2>1. LoadTarget(w, row)
    BY <1>5 DEF LoadForBan
  <2>2. row \in Member /\ row.role # "owner" /\ row.status = "banned"
    BY <1>2, <1>5, <2>1 DEF LoadForBan, LoadTarget, Member, MemberStatuses
  <2>3. QED
    BY <1>2, <1>5, <2>1, <2>2, LoadTargetInv DEF LoadForBan, At
<1>6. CASE LoadForAdmin(w) \/ AdminLoadForAdmin(w)
  <2>1. PICK isAdmin \in BOOLEAN : LoadTarget(w, WithAdmin(Target(w), isAdmin))
    BY <1>6 DEF LoadForAdmin, AdminLoadForAdmin
  <2>2. req[w].op \in TargetOps /\ req[w].op # "BanMember" /\ Target(w) \in Member
    BY <1>2, <1>6 DEF LoadForAdmin, AdminLoadForAdmin, At
  <2>3. WithAdmin(Target(w), isAdmin) \in Member
        /\ WithAdmin(Target(w), isAdmin).role # "owner"
    BY <2>1, <2>2 DEF LoadTarget, WithAdmin, Member, Roles
  <2>4. QED
    BY <2>1, <2>2, <2>3, LoadTargetInv
<1>7. QED
  BY <1>1, <1>3, <1>4, <1>5, <1>6 DEF Load

\* Each write leaves the two tables well typed.
LEMMA CommitInv ==
    ASSUME Inv, NEW w \in Workers, Commit(w)
    PROVE  Inv'
<1>0. /\ req[w] \in Request /\ RequestOK(req[w])
      /\ group \in Group /\ members \in [Users -> Member]
  BY DEF Inv, TypeOK, RequestsOK
<1>b. group.version \in Nat /\ group.version + 1 \in Nat
  BY <1>0 DEF Group
<1>a. ASSUME Finish(w), group' \in Group, members' \in [Users -> Member]
      PROVE  Inv'
  BY <1>a, FinishOK DEF Inv, TypeOK
<1>1. CASE JoinGroupTx(w)
  BY <1>0, <1>1, <1>a, RowTypes DEF JoinGroupTx
<1>2. CASE InviteMembersTx(w)
  BY <1>0, <1>2, <1>a, RowTypes DEF InviteMembersTx
<1>3. CASE LeaveGroupTx(w)
  <2>1. ASSUME NEW m \in Member
        PROVE  [m EXCEPT !.status = "left", !.muted = FALSE] \in Member
    BY DEF Member, MemberStatuses
  <2>2. members' = [members EXCEPT ![req[w].user] =
                      [@ EXCEPT !.status = "left", !.muted = FALSE]]
    BY <1>0, <1>3 DEF LeaveGroupTx
  <2>3. members' \in [Users -> Member]
    BY <1>0, <2>1, <2>2
  <2>4. QED
    BY <1>0, <1>3, <1>a, <2>3 DEF LeaveGroupTx
<1>4. CASE DissolveGroupTx(w) \/ AdminDissolveGroupTx(w)
  <2>1. Closed(group) \in Group
    BY <1>0, <1>b DEF Closed, Group, GroupStatuses
  <2>2. QED
    BY <1>0, <1>4, <1>a, <2>1 DEF DissolveGroupTx, AdminDissolveGroupTx
<1>5. ASSUME NEW old, NEW new \in Users, HandOver(old, new)
      PROVE  group' \in Group /\ members' \in [Users -> Member]
  <2>1. ASSUME NEW m \in Member, NEW role \in Roles
        PROVE  [m EXCEPT !.role = role] \in Member
    BY DEF Member
  <2>2. members' = [[members EXCEPT ![old] = [@ EXCEPT !.role = "admin"]]
                       EXCEPT ![new] = [@ EXCEPT !.role = "owner"]]
    BY <1>5 DEF HandOver
  <2>3. [members EXCEPT ![old] = [@ EXCEPT !.role = "admin"]] \in [Users -> Member]
    BY <1>0, <2>1 DEF Roles
  <2>4. members' \in [Users -> Member]
    BY <2>1, <2>2, <2>3 DEF Roles
  <2>5. [group EXCEPT !.owner = new, !.version = @ + 1] \in Group
    BY <1>0, <1>b DEF Group
  <2>6. QED
    BY <1>5, <2>4, <2>5 DEF HandOver
<1>6. CASE TransferOwnershipTx(w)
  BY <1>5, <1>6, <1>a DEF TransferOwnershipTx
<1>7. CASE AdminTransferGroupOwnershipTx(w)
  BY <1>0, <1>5, <1>7, <1>a DEF AdminTransferGroupOwnershipTx, RequestOK, At
<1>8. CASE UpdateMessagePolicyTx(w)
  <2>1. \A p \in Policies :
          [group EXCEPT !.policy = p, !.version = @ + 1] \in Group
    BY <1>0, <1>b DEF Group
  <2>2. QED
    BY <1>0, <1>8, <1>a, <2>1 DEF UpdateMessagePolicyTx
<1>9. CASE UpdateGroupRow(w)
  <2>1. req[w].grp \in Group
    BY <1>0, <1>9 DEF UpdateGroupRow, RequestOK
  <2>2. group' \in Group
    BY <1>0, <1>9, <2>1 DEF UpdateGroupRow, Group
  <2>3. QED
    BY <1>0, <1>9, <1>a, <2>2 DEF UpdateGroupRow
<1>10. CASE UpdateMember(w)
  BY <1>0, <1>10, <1>a DEF UpdateMember, Request
<1>11. QED
  BY <1>1, <1>2, <1>3, <1>4, <1>6, <1>7, <1>8, <1>9, <1>10 DEF Commit

\* Inv is inductive.
LEMMA NextInv == Inv /\ [Next]_vars => Inv'
<1> SUFFICES ASSUME Inv, [Next]_vars PROVE Inv'
  OBVIOUS
<1>1. CASE UNCHANGED vars
  BY <1>1 DEF vars, Inv, TypeOK, RequestsOK, RequestOK
<1>2. ASSUME NEW w \in Workers, Fail(w) PROVE Inv'
  BY <1>2, FinishOK DEF Fail, Inv, TypeOK
<1>3. QED
  BY <1>1, <1>2, ReceiveInv, LoadInv, CommitInv DEF Next

\* Rows and requests are always well formed, for any constants.
THEOREM TypeCorrect == Spec => [](TypeOK /\ RequestsOK)
<1>1. Spec => []Inv
  BY InitInv, NextInv, PTL DEF Spec
<1>2. QED
  BY <1>1, PTL DEF Inv
-----------------------------------------------------------------------------
\* Steps before the write do not touch the tables.
LEMMA ReadOnly ==
    ASSUME NEW w \in Workers, Receive(w) \/ Load(w) \/ Fail(w)
    PROVE  UNCHANGED <<group, members>>
<1>1. CASE Receive(w)
  BY <1>1 DEF Receive, AdminDissolveGroup, AdminUpdateGroup, JoinGroup,
     InviteMembersByPeerIDs, LeaveGroup, DissolveGroup, TransferOwnership,
     UpdateGroup, UpdateMessagePolicy, AdminTransferGroupOwnership,
     AdminSetGroupAdmin, SetGroupAdmin, ManageTarget, Accept
<1>2. CASE Load(w)
  BY <1>2 DEF Load, ReadOperator, LoadForPermissions, LoadForMute, LoadForBan,
     LoadForAdmin, AdminLoadForAdmin, LoadTarget
<1>3. CASE Fail(w)
  BY <1>3 DEF Fail
<1>4. QED
  BY <1>1, <1>2, <1>3

\* Every step leaves the tables alone or is one of the writes.
LEMMA StepCases ==
    ASSUME [Next]_vars
    PROVE  \/ UNCHANGED <<group, members>>
           \/ \E w \in Workers : Commit(w)
  BY ReadOnly DEF Next, vars
-----------------------------------------------------------------------------
(***************************************************************************)
(* What one write does.  Each lemma names, as an assumption, what an UPDATE *)
(* outside the group lock has to respect; the theorems below say when it   *)
(* does.                                                                   *)
(***************************************************************************)
\* A write keeps the role "owner" with the user the group names, if a settings
\* update does not touch owner_user_id.
LEMMA OwnerRoleStep ==
    ASSUME Inv, OwnerRoleIsOwner, NEW w \in Workers, Commit(w),
           UpdateGroupRow(w) => group'.owner = group.owner
    PROVE  OwnerRoleIsOwner'
<1>0. /\ req[w] \in Request /\ RequestOK(req[w])
      /\ group \in Group /\ members \in [Users -> Member]
  BY DEF Inv, TypeOK, RequestsOK
<1> USE DEF OwnerRoleIsOwner
<1>1. CASE JoinGroupTx(w)
  BY <1>0, <1>1 DEF JoinGroupTx, Admitted, FreshMember
<1>2. CASE InviteMembersTx(w)
  BY <1>0, <1>2 DEF InviteMembersTx, Admitted, FreshMember
<1>3. CASE LeaveGroupTx(w)
  BY <1>0, <1>3 DEF LeaveGroupTx, Member
<1>4. CASE DissolveGroupTx(w) \/ AdminDissolveGroupTx(w)
  BY <1>0, <1>4 DEF DissolveGroupTx, AdminDissolveGroupTx, Closed, Group
<1>5. ASSUME NEW old \in Users, NEW new \in Users, HandOver(old, new),
             old = group.owner
      PROVE  OwnerRoleIsOwner'
  BY <1>0, <1>5 DEF HandOver, Member, Group
<1>6. CASE TransferOwnershipTx(w)
  BY <1>0, <1>5, <1>6 DEF TransferOwnershipTx, Group
<1>7. CASE AdminTransferGroupOwnershipTx(w)
  BY <1>0, <1>5, <1>7
     DEF AdminTransferGroupOwnershipTx, RequestOK, At, Group
<1>8. CASE UpdateMessagePolicyTx(w)
  BY <1>0, <1>8 DEF UpdateMessagePolicyTx, Group
<1>9. CASE UpdateGroupRow(w)
  BY <1>9 DEF UpdateGroupRow
<1>10. CASE UpdateMember(w)
  BY <1>0, <1>10 DEF UpdateMember, RequestOK, Request, Member
<1>11. QED
  BY <1>1, <1>2, <1>3, <1>4, <1>6, <1>7, <1>8, <1>9, <1>10 DEF Commit
-----------------------------------------------------------------------------
\* A write leaves the owner an active member with role "owner", if a settings
\* update does not touch owner_user_id and a member update not the owner's row.
LEMMA OwnerActiveStep ==
    ASSUME Inv, OwnerIsActive, NEW w \in Workers, Commit(w),
           UpdateGroupRow(w) => group'.owner = group.owner,
           UpdateMember(w) => req[w].target # group.owner
    PROVE  OwnerIsActive'
<1>0. /\ req[w] \in Request /\ RequestOK(req[w])
      /\ group \in Group /\ members \in [Users -> Member]
      /\ group.owner \in Users
  BY DEF Inv, TypeOK, RequestsOK, Group
<1> USE DEF OwnerIsActive
<1>1. CASE JoinGroupTx(w)
  BY <1>0, <1>1 DEF JoinGroupTx, Admitted
<1>2. CASE InviteMembersTx(w)
  BY <1>0, <1>2 DEF InviteMembersTx, Admitted
<1>3. CASE LeaveGroupTx(w)
  BY <1>0, <1>3 DEF LeaveGroupTx
<1>4. CASE DissolveGroupTx(w) \/ AdminDissolveGroupTx(w)
  BY <1>0, <1>4 DEF DissolveGroupTx, AdminDissolveGroupTx, Closed, Group
<1>5. ASSUME NEW old \in Users, NEW new \in Users, HandOver(old, new)
      PROVE  OwnerIsActive'
  <2>1. group'.owner = new
    BY <1>0, <1>5 DEF HandOver, Group
  <2>2. members'[new].role = "owner" /\ members'[new].status = "active"
    BY <1>0, <1>5 DEF HandOver, Member
  <2>3. QED
    BY <2>1, <2>2
<1>6. CASE TransferOwnershipTx(w)
  BY <1>0, <1>5, <1>6 DEF TransferOwnershipTx
<1>7. CASE AdminTransferGroupOwnershipTx(w)
  BY <1>0, <1>5, <1>7 DEF AdminTransferGroupOwnershipTx, RequestOK, At
<1>8. CASE UpdateMessagePolicyTx(w)
  BY <1>0, <1>8 DEF UpdateMessagePolicyTx, Group
<1>9. CASE UpdateGroupRow(w)
  BY <1>9 DEF UpdateGroupRow
<1>10. CASE UpdateMember(w)
  BY <1>0, <1>10 DEF UpdateMember
<1>11. QED
  BY <1>1, <1>2, <1>3, <1>4, <1>6, <1>7, <1>8, <1>9, <1>10 DEF Commit
-----------------------------------------------------------------------------
\* A write lifts no ban, if a member update does not.
LEMMA BanStep ==
    ASSUME Inv, NEW w \in Workers, Commit(w),
           UpdateMember(w) => \/ members[req[w].target].status # "banned"
                              \/ req[w].row.status = "banned"
    PROVE  \A u \in Users :
             members[u].status = "banned" => members'[u].status = "banned"
<1> DEFINE Kept == \A u \in Users : members[u].status = "banned" =>
                                      members'[u].status = "banned"
<1> SUFFICES Kept
  OBVIOUS
<1>0. /\ req[w] \in Request /\ RequestOK(req[w])
      /\ group \in Group /\ members \in [Users -> Member]
  BY DEF Inv, TypeOK, RequestsOK
<1>1. CASE JoinGroupTx(w)
  BY <1>0, <1>1 DEF JoinGroupTx
<1>2. CASE InviteMembersTx(w)
  BY <1>0, <1>2 DEF InviteMembersTx
<1>3. CASE LeaveGroupTx(w)
  BY <1>0, <1>3 DEF LeaveGroupTx, Member
<1>4. ASSUME NEW old \in Users, NEW new \in Users, HandOver(old, new) PROVE  Kept
  BY <1>0, <1>4 DEF HandOver, Member
<1>5. CASE TransferOwnershipTx(w) \/ AdminTransferGroupOwnershipTx(w)
  BY <1>0, <1>4, <1>5 DEF TransferOwnershipTx, AdminTransferGroupOwnershipTx,
     RequestOK, At, Group
<1>6. CASE DissolveGroupTx(w) \/ AdminDissolveGroupTx(w)
           \/ UpdateMessagePolicyTx(w) \/ UpdateGroupRow(w)
  BY <1>6 DEF DissolveGroupTx, AdminDissolveGroupTx, UpdateMessagePolicyTx,
     UpdateGroupRow
<1>7. CASE UpdateMember(w)
  BY <1>0, <1>7 DEF UpdateMember
<1>8. QED
  BY <1>1, <1>2, <1>3, <1>5, <1>6, <1>7 DEF Commit
-----------------------------------------------------------------------------
\* A write opens a closed group only for the console, if a settings update of a
\* member finds the group active.
LEMMA ReopenStep ==
    ASSUME Inv, NEW w \in Workers, Commit(w),
           UpdateGroupRow(w) /\ req[w].op = "UpdateGroup" =>
             group.status = "active",
           group.status = "closed", group'.status = "active"
    PROVE  Ends(w) /\ At(w, "commit", "AdminUpdateGroup")
<1>0. req \in [Workers -> Request] /\ group \in Group
  BY DEF Inv, TypeOK
<1>1. CASE UpdateGroupRow(w)
  BY <1>0, <1>1 DEF UpdateGroupRow, Finish, Ends, At, Idle, SettingsOps
<1>2. CASE DissolveGroupTx(w) \/ AdminDissolveGroupTx(w)
  BY <1>0, <1>2 DEF DissolveGroupTx, AdminDissolveGroupTx, Closed, Group
<1>3. CASE TransferOwnershipTx(w) \/ AdminTransferGroupOwnershipTx(w)
           \/ UpdateMessagePolicyTx(w)
  BY <1>0, <1>3 DEF TransferOwnershipTx, AdminTransferGroupOwnershipTx,
     HandOver, UpdateMessagePolicyTx, Group
<1>4. QED
  BY <1>1, <1>2, <1>3 DEF Commit, JoinGroupTx, InviteMembersTx, LeaveGroupTx,
     UpdateMember
-----------------------------------------------------------------------------
\* Worker w ends a join or an invitation that is legal in this state and
\* admits u.
Admits(w, u) ==
    /\ Ends(w)
    /\ \/ At(w, "commit", "JoinGroup") /\ group.joinMode = "open"
                                      /\ req[w].user = u
       \/ At(w, "commit", "InviteMembers") /\ InviterAllowed(req[w].user)

\* A write makes nobody active but by a join or an invitation that is legal
\* then, if a member update makes nobody active.
LEMMA AdmissionStep ==
    ASSUME Inv, NEW w \in Workers, Commit(w),
           UpdateMember(w) => \/ members[req[w].target].status = "active"
                              \/ req[w].row.status # "active",
           NEW u \in Users,
           members[u].status # "active", members'[u].status = "active"
    PROVE  /\ group.status = "active"
           /\ members'[u] = FreshMember("member")
           /\ \E v \in Workers : Admits(v, u)
<1>0. /\ req \in [Workers -> Request] /\ RequestOK(req[w])
      /\ group \in Group /\ members \in [Users -> Member]
  BY DEF Inv, TypeOK, RequestsOK
<1>1. CASE JoinGroupTx(w)
  <2>1. Ends(w)
    BY <1>0, <1>1 DEF JoinGroupTx, Finish, Ends, At, Idle
  <2>2. req[w].user = u /\ members'[u] = Admitted(members[u])
    BY <1>0, <1>1 DEF JoinGroupTx
  <2>3. QED
    BY <1>0, <1>1, <2>1, <2>2 DEF JoinGroupTx, Admitted, Admits
<1>2. CASE InviteMembersTx(w)
  <2>1. Ends(w)
    BY <1>0, <1>2 DEF InviteMembersTx, Finish, Ends, At, Idle
  <2>2. members'[u] = Admitted(members[u])
    BY <1>0, <1>2 DEF InviteMembersTx
  <2>3. QED
    BY <1>0, <1>2, <2>1, <2>2 DEF InviteMembersTx, Admitted, Admits
<1>3. CASE LeaveGroupTx(w)
  BY <1>0, <1>3 DEF LeaveGroupTx, Member
<1>4. ASSUME NEW old \in Users, NEW new \in Users, HandOver(old, new)
      PROVE  members'[u].status = members[u].status
  BY <1>0, <1>4 DEF HandOver, Member
<1>5. CASE TransferOwnershipTx(w) \/ AdminTransferGroupOwnershipTx(w)
  BY <1>0, <1>4, <1>5 DEF TransferOwnershipTx, AdminTransferGroupOwnershipTx,
     RequestOK, At, Group
<1>6. CASE DissolveGroupTx(w) \/ AdminDissolveGroupTx(w)
           \/ UpdateMessagePolicyTx(w) \/ UpdateGroupRow(w)
  BY <1>6 DEF DissolveGroupTx, AdminDissolveGroupTx, UpdateMessagePolicyTx,
     UpdateGroupRow
<1>7. CASE UpdateMember(w)
  BY <1>0, <1>7 DEF UpdateMember
<1>8. QED
  BY <1>1, <1>2, <1>3, <1>5, <1>6, <1>7 DEF Commit
-----------------------------------------------------------------------------
\* A handler's steps are about its own request; a write ends it.
LEMMA OnlyOwn ==
    ASSUME req \in [Workers -> Request], NEW w \in Workers,
           Receive(w) \/ Load(w) \/ Fail(w)
    PROVE  \A v \in Workers : v # w => req'[v] = req[v]
<1>1. CASE Receive(w)
  BY <1>1 DEF Receive, Accept, AdminDissolveGroup, AdminUpdateGroup, JoinGroup,
     InviteMembersByPeerIDs, LeaveGroup, DissolveGroup, TransferOwnership,
     UpdateGroup, UpdateMessagePolicy, AdminTransferGroupOwnership,
     AdminSetGroupAdmin, SetGroupAdmin, ManageTarget
<1>2. CASE Load(w)
  BY <1>2 DEF Load, ReadOperator, LoadTarget, LoadForPermissions, LoadForMute,
     LoadForBan, LoadForAdmin, AdminLoadForAdmin
<1>3. CASE Fail(w)
  BY <1>3 DEF Fail, Finish
<1>4. QED
  BY <1>1, <1>2, <1>3

\* A write ends its handler.
LEMMA CommitEnds ==
    ASSUME NEW w \in Workers, Commit(w)
    PROVE  req' = [req EXCEPT ![w] = Idle] /\ req[w].pc # "idle"
  BY DEF Commit, JoinGroupTx, InviteMembersTx, LeaveGroupTx, DissolveGroupTx,
     AdminDissolveGroupTx, TransferOwnershipTx, AdminTransferGroupOwnershipTx,
     UpdateMessagePolicyTx, UpdateGroupRow, UpdateMember, Finish, At

\* So a write is the end of the worker's request.
LEMMA CommitEnded ==
    ASSUME Inv, NEW w \in Workers, Commit(w)
    PROVE  Ends(w)
  BY CommitEnds DEF Inv, TypeOK, Ends, Idle

\* An operation on a target names one.
LEMMA RequestTarget ==
    ASSUME Inv, NEW w \in Workers, req[w].op \in TargetOps
    PROVE  req[w].target \in Users
  BY DEF Inv, RequestsOK, RequestOK

\* A handler reaches its write from the SELECT of its target only by that SELECT.
LEMMA ReadsOn ==
    ASSUME Inv, [Next]_vars, NEW w \in Workers,
           req[w].pc = "target", req'[w].pc = "commit"
    PROVE  Load(w)
<1>0. req \in [Workers -> Request]
  BY DEF Inv, TypeOK
<1>1. req' # req
  OBVIOUS
<1>2. PICK v \in Workers : Receive(v) \/ Load(v) \/ Commit(v) \/ Fail(v)
  BY <1>1 DEF Next, vars
<1>3. v = w
  BY <1>0, <1>2, OnlyOwn, CommitEnds DEF Idle
<1>4. ~Receive(w)
  BY DEF Receive, Accept, AdminDissolveGroup, AdminUpdateGroup, JoinGroup,
     InviteMembersByPeerIDs, LeaveGroup, DissolveGroup, TransferOwnership,
     UpdateGroup, UpdateMessagePolicy, AdminTransferGroupOwnership,
     AdminSetGroupAdmin, SetGroupAdmin, ManageTarget
<1>5. ~Commit(w) /\ ~Fail(w)
  BY <1>0, CommitEnds DEF Fail, Finish, Idle
<1>6. QED
  BY <1>2, <1>3, <1>4, <1>5
-----------------------------------------------------------------------------
(***************************************************************************)
(* Theorems.  Those with a hypothesis say which operations may be in use;  *)
(* the others hold under any overlap of all operations.                    *)
(***************************************************************************)
\* No overlap of member updates with transfers of ownership gives the role
\* "owner" to anybody but the user groups.owner_user_id names: a handler never
\* holds a copy of a row with that role, and a transfer moves role and column
\* in one transaction.  The hypothesis excludes only the settings updates whose
\* UPDATE the ORM extends with a stale owner_user_id.
THEOREM OwnerRole ==
    ASSUME OwnerWriteBack => Ops \cap SettingsOps = {}
    PROVE  Spec => []OwnerRoleIsOwner
<1>1. Init => OwnerRoleIsOwner
  BY ConstantsAssumption DEF Init, OwnerRoleIsOwner, FreshMember, NoMember
<1>2. Inv /\ OwnerRoleIsOwner /\ [Next]_vars => OwnerRoleIsOwner'
  <2> SUFFICES ASSUME Inv, OwnerRoleIsOwner, NEW w \in Workers, Commit(w)
               PROVE  OwnerRoleIsOwner'
    BY StepCases DEF OwnerRoleIsOwner
  <2>1. RequestOK(req[w])
    BY DEF Inv, RequestsOK
  <2>2. UpdateGroupRow(w) => group'.owner = group.owner
    BY <2>1 DEF UpdateGroupRow, RequestOK, SettingsOps
  <2>3. QED
    BY <2>2, OwnerRoleStep
<1>3. QED
  BY <1>1, <1>2, InitInv, NextInv, PTL DEF Spec
-----------------------------------------------------------------------------
\* When every operation in use writes under the lock on the group row, the
\* owner is an active member with role "owner" at all times: each such
\* transaction looks at the owner and at the member again before it writes.
THEOREM LockedOwner ==
    ASSUME Ops \subseteq LockedOps
    PROVE  Spec => []OwnerIsActive
<1>1. Init => OwnerIsActive
  BY ConstantsAssumption DEF Init, OwnerIsActive, FreshMember
<1>2. Inv /\ OwnerIsActive /\ [Next]_vars => OwnerIsActive'
  <2> SUFFICES ASSUME Inv, OwnerIsActive, NEW w \in Workers, Commit(w)
               PROVE  OwnerIsActive'
    BY StepCases DEF OwnerIsActive
  <2>1. RequestOK(req[w])
    BY DEF Inv, RequestsOK
  <2>2. ~UpdateGroupRow(w) /\ ~UpdateMember(w)
    BY <2>1 DEF UpdateGroupRow, UpdateMember, RequestOK, LockedOps,
       MembershipOps, LifecycleOps, SettingsOps, TargetOps
  <2>3. QED
    BY <2>2, OwnerActiveStep
<1>3. QED
  BY <1>1, <1>2, InitInv, NextInv, PTL DEF Spec
-----------------------------------------------------------------------------
\* Of all operations in any overlap, only a write from a copy made before a
\* transfer of ownership takes the group's active owner away.
THEOREM OwnerStays == Spec => OwnerKept
<1> DEFINE A == OwnerIsActive =>
                  OwnerIsActive' \/ \E w \in Workers : Ends(w) /\ OwnerStale(w)
<1>1. Inv /\ [Next]_vars => [A]_vars
  <2> SUFFICES ASSUME Inv, OwnerIsActive, NEW w \in Workers, Commit(w),
                      ~OwnerStale(w)
               PROVE  OwnerIsActive'
    BY StepCases, CommitEnded DEF vars, OwnerIsActive
  <2>1. UpdateGroupRow(w) => group'.owner = group.owner
    BY DEF UpdateGroupRow, OwnerStale
  <2>2. UpdateMember(w) => req[w].target # group.owner
    BY DEF UpdateMember, OwnerStale
  <2>3. QED
    BY <2>1, <2>2, OwnerActiveStep
<1>2. QED
  BY <1>1, InitInv, NextInv, PTL DEF Spec, OwnerKept
-----------------------------------------------------------------------------
\* The copy an update makes of a banned row is banned.
LEMMA BanRead ==
    ASSUME Inv, NEW w \in Workers, Load(w), req[w].pc = "target",
           members[req[w].target].status = "banned"
    PROVE  req'[w].row.status = "banned"
<1>0. req \in [Workers -> Request] /\ members \in [Users -> Member]
  BY DEF Inv, TypeOK
<1>1. ASSUME NEW row, LoadTarget(w, row), row.status = "banned"
      PROVE  req'[w].row.status = "banned"
  BY <1>0, <1>1 DEF LoadTarget, Request
<1>2. ASSUME req[w].op \in TargetOps PROVE Target(w) \in Member
  BY <1>0, <1>2, RequestTarget DEF Target
<1> USE DEF At, TargetOps, Target
<1>3. CASE LoadForPermissions(w)
  BY <1>1, <1>2, <1>3 DEF LoadForPermissions, Member
<1>4. CASE LoadForMute(w)
  BY <1>1, <1>2, <1>4 DEF LoadForMute, Member
<1>5. CASE LoadForBan(w)
  BY <1>1, <1>2, <1>5 DEF LoadForBan, Member
<1>6. QED
  BY <1>3, <1>4, <1>5
     DEF Load, ReadOperator, LoadForAdmin, AdminLoadForAdmin

\* A ban stands, under any overlap of any operations: whatever finds it, under the
\* group's lock or in an unlocked SELECT, leaves it, so that only a copy of the
\* row made before the ban can overwrite it.
THEOREM BanHolds == Spec => BanStands
<1> DEFINE Lifted(u) == members[u].status = "banned" =>
                          \/ members'[u].status = "banned"
                          \/ \E w \in Workers : Ends(w) /\ StatusStale(w, u)
           Found(u) == members[u].status = "banned" =>
                         \A w \in Workers :
                           req[w].pc = "target" /\ req[w].target = u
                             /\ req'[w].pc = "commit"
                             => req'[w].row.status = "banned"
<1>1. ASSUME Inv, [Next]_vars, NEW u \in Users PROVE Lifted(u)
  <2> SUFFICES ASSUME NEW w \in Workers, Commit(w), ~StatusStale(w, u),
                      members[u].status = "banned"
               PROVE  members'[u].status = "banned"
    BY <1>1, StepCases, CommitEnded
  <2>1. RequestOK(req[w]) /\ members \in [Users -> Member]
    BY <1>1 DEF Inv, TypeOK, RequestsOK
  <2>2. CASE UpdateMember(w) /\ req[w].target = u
    <3>1. req[w].row.status = "banned"
      BY <2>1, <2>2 DEF UpdateMember, StatusStale, RequestOK
    <3>2. QED
      BY <2>1, <2>2, <3>1 DEF UpdateMember
  <2>3. CASE UpdateMember(w) /\ req[w].target # u
    BY <2>1, <2>3 DEF UpdateMember
  <2>4. CASE ~UpdateMember(w)
    BY <1>1, <2>4, BanStep
  <2>5. QED
    BY <2>2, <2>3, <2>4
<1>2. ASSUME Inv, [Next]_vars, NEW u \in Users PROVE Found(u)
  <2> SUFFICES ASSUME members[u].status = "banned", NEW w \in Workers,
                      req[w].pc = "target", req[w].target = u,
                      req'[w].pc = "commit"
               PROVE  req'[w].row.status = "banned"
    OBVIOUS
  <2>1. Load(w)
    BY <1>2, ReadsOn
  <2>2. QED
    BY <1>2, <2>1, BanRead
<1>3. Inv /\ [Next]_vars => [\A u \in Users : Lifted(u) /\ Found(u)]_vars
  BY <1>1, <1>2
<1>4. ASSUME [\A u \in Users : Lifted(u) /\ Found(u)]_vars
      PROVE  [\A u \in Users : members[u].status = "banned" =>
                /\ \/ members'[u].status = "banned"
                   \/ \E w \in Workers : Ends(w) /\ StatusStale(w, u)
                /\ \A w \in Workers :
                     req[w].pc = "target" /\ req[w].target = u
                       /\ req'[w].pc = "commit"
                       => req'[w].row.status = "banned"]_vars
  BY <1>4
<1>5. QED
  BY <1>3, <1>4, InitInv, NextInv, PTL DEF Spec, BanStands
-----------------------------------------------------------------------------
\* A closed group stays closed until the console reopens it, when members do
\* not use UpdateGroup: its UPDATE writes the status the client asked for and
\* looks only at a copy of the group.  Everything else, in any overlap and with
\* the console's own settings updates, leaves the group closed.
THEOREM Reopening ==
    ASSUME "UpdateGroup" \notin Ops
    PROVE  Spec => ReopenedByConsole
<1> DEFINE A == group.status = "closed" /\ group'.status = "active" =>
                  \E w \in Workers : Ends(w) /\ At(w, "commit", "AdminUpdateGroup")
<1>1. Inv /\ [Next]_vars => [A]_vars
  <2> SUFFICES ASSUME Inv, NEW w \in Workers, Commit(w) PROVE A
    BY StepCases DEF vars
  <2>1. RequestOK(req[w])
    BY DEF Inv, RequestsOK
  <2>2. ~(UpdateGroupRow(w) /\ req[w].op = "UpdateGroup")
    BY <2>1 DEF RequestOK
  <2>3. QED
    BY <2>2, ReopenStep
<1>2. QED
  BY <1>1, InitInv, NextInv, PTL DEF Spec, ReopenedByConsole
-----------------------------------------------------------------------------
\* Under any overlap of any operations, a user becomes an active member by a join
\* or an invitation that is legal in the very state it is applied to, however
\* long ago its first checks were made, or by an update from a copy of the row
\* made while the user was active; by nothing else.
THEOREM Admission == Spec => AdmissionAuthorised
<1> DEFINE A ==
      \A u \in Users :
         members[u].status # "active" /\ members'[u].status = "active" =>
           \E w \in Workers :
             /\ Ends(w)
             /\ \/ StatusStale(w, u)
                \/ /\ group.status = "active"
                   /\ members'[u] = FreshMember("member")
                   /\ \/ At(w, "commit", "JoinGroup") /\ group.joinMode = "open"
                                                      /\ req[w].user = u
                      \/ At(w, "commit", "InviteMembers")
                           /\ InviterAllowed(req[w].user)
<1>1. Inv /\ [Next]_vars => [A]_vars
  <2> SUFFICES ASSUME Inv, NEW w \in Workers, Commit(w), NEW u \in Users,
                      members[u].status # "active", members'[u].status = "active",
                      ~StatusStale(w, u)
               PROVE  /\ group.status = "active"
                      /\ members'[u] = FreshMember("member")
                      /\ \E v \in Workers : Admits(v, u)
    BY StepCases, CommitEnded DEF vars, Admits
  <2>1. RequestOK(req[w]) /\ members \in [Users -> Member]
    BY DEF Inv, TypeOK, RequestsOK
  <2>2. CASE UpdateMember(w)
    <3>1. req[w].target = u
      BY <2>1, <2>2 DEF UpdateMember
    <3>2. req[w].row.status # "active"
      BY <2>1, <2>2, <3>1 DEF UpdateMember, StatusStale, RequestOK
    <3>3. QED
      BY <2>1, <2>2, <3>1, <3>2 DEF UpdateMember
  <2>3. CASE ~UpdateMember(w)
    BY <2>3, AdmissionStep
  <2>4. QED
    BY <2>2, <2>3
<1>2. QED
  BY <1>1, InitInv, NextInv, PTL DEF Spec, AdmissionAuthorised
=============================================================================
