------------------------------- MODULE MCUser -------------------------------
(***************************************************************************)
(* Instances of UserService for TLC: two peers and the console's user.     *)
(***************************************************************************)
EXTENDS UserService, TLC

CONSTANTS p1, p2, g1, g2

\* The console is configured with the name that p2 gets, too.
SharedName == [p \in Peers |-> IF p = AdminPeer THEN p2 ELSE p]

\* Two groups, and both orders of two peers.
Lists == {[group |-> g1, peers |-> <<p1, p2>>],
          [group |-> g2, peers |-> <<p2, p1>>]}
=============================================================================
