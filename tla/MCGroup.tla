------------------------------ MODULE MCGroup ------------------------------
(***************************************************************************)
(* Instances of GroupService for TLC.                                      *)
(***************************************************************************)
EXTENDS GroupService, FiniteSets, TLC

Busy == {w \in Workers : req[w].pc # "idle"}

\* Operations that read and write rows of members, and those that act on the
\* settings and the status of the group or go by them.
ActOnMembers == MembershipOps \cup TargetOps
                  \cup {"TransferOwnership", "AdminTransferGroupOwnership"}
ActOnGroup == LifecycleOps \cup SettingsOps \cup {"JoinGroup", "InviteMembers"}

\* Handlers that may get in each other's way.
Meet(v, w) ==
    LET ops == {req[v].op, req[w].op} IN
    /\ \/ ops \subseteq LockedOps
       \/ ops \subseteq ActOnGroup
       \/ ops \subseteq ActOnMembers /\ group.joinMode = "open"
    /\ ops \subseteq TargetOps => req[v].target = req[w].target

\* Bounds of the run: only handlers that meet overlap, and not in the last
\* version; ownership is not transferred while a settings update is under way;
\* and until the first change of the group one member at a time is muted or
\* restricted, while no other handler is busy.
Overlaps ==
    /\ \A v, w \in Busy : v # w => Meet(v, w) /\ group.version < MaxVersion
    /\ \A w \in Busy : req[w].op \in SettingsOps => req[w].grp.owner = group.owner
    /\ Cardinality({u \in Users : members[u].muted \/ members[u].deny # {}})
         <= IF group.version > 1 \/ Cardinality(Busy) > 1 THEN 0 ELSE 1

\* A settings update that overlaps the dissolution of the group.
OpsDissolution == {"UpdateGroup", "DissolveGroup"}

\* Nothing in the specification tells one worker from another, nor users who
\* are neither server admins nor the creator.
Symmetry == Permutations(Workers)
              \cup Permutations(Users \ (ServerAdmins \cup Creators))
=============================================================================
