------------------------------- MODULE DMLog -------------------------------
(***************************************************************************)
(* What the direct-message store promises its clients: each conversation   *)
(* is a log in which every key (sender, client_msg_id) appears at most     *)
(* once, at the next position, and whose entries are acknowledged once.    *)
(***************************************************************************)
EXTENDS Naturals

CONSTANTS Convs, Keys

VARIABLES
    length,     \* number of entries of each conversation
    entries     \* the entries of all conversations

logVars == <<length, entries>>

LogInit == length = [c \in Convs |-> 0] /\ entries = {}

Append(c, k) ==
    /\ \A e \in entries : e.conv = c => e.key # k
    /\ length' = [length EXCEPT ![c] = @ + 1]
    /\ entries' = entries \cup
         {[conv |-> c, seq |-> length[c] + 1, key |-> k, acked |-> FALSE]}

Acknowledge(e) ==
    /\ ~e.acked
    /\ entries' = (entries \ {e}) \cup {[e EXCEPT !.acked = TRUE]}
    /\ UNCHANGED length

LogNext == \/ \E c \in Convs, k \in Keys : Append(c, k)
           \/ \E e \in entries : Acknowledge(e)

LogSpec == LogInit /\ [][LogNext]_logVars
=============================================================================
