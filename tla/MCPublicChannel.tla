-------------------------- MODULE MCPublicChannel --------------------------
(***************************************************************************)
(* Instances of PublicChannel for TLC.                                     *)
(***************************************************************************)
EXTENDS PublicChannel

CONSTANTS u1, u2

\* Every subscriber is a device of the same user, who is not the only one.
SameUser == [r \in Subscribers |-> u2]

\* A value out of range, which becomes 0, and one change.
Seen == {-1, 1}

\* A limit out of range, which becomes SyncLimit, and one within.
PageLimits == {0, 2}
=============================================================================
