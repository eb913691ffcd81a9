----------------------------- MODULE MCMessage -----------------------------
(***************************************************************************)
(* Instances of MessageService for TLC.                                    *)
(***************************************************************************)
EXTENDS MessageService, TLC

\* Messages are visible and retractable for a tick, and slow mode is on.
PolicyTimed == {[ttl |-> 1, retract |-> 1, cooldown |-> 1]}

Refers(m) == m.reply # NoMessage \/ m.forward # NoMessage

\* The rows in store, and those that the sends are about to store.
Rows == {messages[id] : id \in {i \in MessageIDs : Stored(i)}}
           \cup {hreq[h].copy : h \in {i \in Handlers :
                   hreq[i].op = "SendMessage" /\ hreq[i].copy # NoRow}}

\* Handlers that meet: two sends, two changes of one message, or a send and the
\* deletion of the message it refers to.
Meet(h, k) ==
    \/ hreq[h].op = "SendMessage" /\ hreq[k].op = "SendMessage"
    \/ hreq[h].id # NoMessage /\ hreq[h].id = hreq[k].id
    \/ hreq[h].id \in Referred(hreq[k].copy) /\ hreq[h].op = "RetractMessage"

AllStored == \A id \in MessageIDs : Stored(id)

\* Bounds of the run: only handlers that meet overlap, and no member joins
\* meanwhile; all messages have one payload; a message is edited only while it
\* is alone and refers to none; once there is no id left no send goes on and
\* nobody joins.
Related ==
    /\ \A h, k \in {i \in Handlers : hreq[i].pc # "idle"} : h # k =>
         /\ Meet(h, k) \/ Meet(k, h)
         /\ \A w \in Workers : req[w].pc = "idle"
    /\ \A m, n \in Rows : m.payload = n.payload
    /\ AllStored \/ (\E m \in Rows : Refers(m)) =>
         \A id \in MessageIDs : edits[id] = <<>>
    /\ AllStored => \A w \in Workers : req[w].pc = "idle"
    /\ AllStored => \A h \in Handlers : hreq[h].op = "SendMessage" =>
                                          hreq[h].pc = "cool"

\* Nothing in the specification tells message ids or handlers apart,
\* nor one payload from another.
MessageSymmetry ==
    Permutations(MessageIDs) \cup Permutations(Handlers)
      \cup Permutations(Payloads)
=============================================================================
