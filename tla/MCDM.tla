------------------------------- MODULE MCDM -------------------------------
(***************************************************************************)
(* Instances of DMService for TLC.                                         *)
(***************************************************************************)
EXTENDS DMService

\* Every request there is.
AllDMOps == {"CreateConversation", "SendMessage", "AckMessage"}

\* No limit given, and the smallest page.
PageLimits == {0, 1}
=============================================================================
