----------------------------- MODULE MCMailbox -----------------------------
(***************************************************************************)
(* Instance of FriendMailbox for TLC.                                      *)
(***************************************************************************)
EXTENDS FriendMailbox, TLC

\* Handlers, peers and generated ids are interchangeable.
MailSymmetry ==
    Permutations(Handlers) \cup Permutations(RequestIDs) \cup Permutations(Peers)
=============================================================================
