----------------------------- MODULE MCRealtime -----------------------------
(***************************************************************************)
(* Instances of Realtime for TLC: connections of one user, so that what is *)
(* rendered for one of them is sent to the others from the cache.          *)
(***************************************************************************)
EXTENDS Realtime, TLC

CONSTANT u1

SameUser == [c \in Clients |-> u1]

\* Connections of one user are interchangeable.
ClientSymmetry == Permutations(Clients)
=============================================================================
