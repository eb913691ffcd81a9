----------------------- MODULE MessageService_proofs -----------------------
(***************************************************************************)
(* Proofs about MessageService, for any users, handlers, messages and      *)
(* policies, and any operations of GroupService running beside it.         *)
(***************************************************************************)
EXTENDS MessageService, GroupService_proofs

\* A message_id that is not in use has the empty row.
UnusedRows == \A id \in MessageIDs : ~Stored(id) => messages[id] = NoRow

\* The inductive invariant.
MsgInv == Inv /\ MsgTypeOK /\ CopiesCurrent /\ UnusedRows

\* The empty row and a handler with nothing to do are well formed.
LEMMA QuietOK == NoRow \in Message /\ Quiet \in Handler
  BY DEF NoRow, Message, Quiet, Handler, Roles

\* The service starts with no message and every handler at rest.
LEMMA MsgInitInv == MsgInit => MsgInv
<1> SUFFICES ASSUME MsgInit PROVE MsgInv
  OBVIOUS
<1>1. Inv
  BY InitInv DEF MsgInit
<1>2. MsgTypeOK
  BY QuietOK DEF MsgInit, MsgTypeOK
<1>3. CopiesCurrent
  BY DEF MsgInit, CopiesCurrent, HandlerOK, Quiet
<1>4. UnusedRows
  BY DEF MsgInit, UnusedRows, Stored
<1>5. QED
  BY <1>1, <1>2, <1>3, <1>4 DEF MsgInv

\* A handler that only reads, or takes a lock, leaves every table alone: the
\* invariant then only asks that its own record, and the lock of every other
\* handler, are in order.
LEMMA Reading ==
    ASSUME MsgInv, NEW h \in Handlers, NEW r \in Handler,
           hreq' = [hreq EXCEPT ![h] = r],
           UNCHANGED <<group, members, req, lastSeq, messages, edits, now>>,
           cooldown' \in [Users -> Nat],
           lock' \in [MessageIDs \cup {"group"} -> Handlers \cup {Nobody}],
           \A x \in DOMAIN lock, g \in Handlers :
                g # h /\ lock[x] = g => lock'[x] = g,
           HandlerOK(h)'
    PROVE  MsgInv'
<1>1. Inv'
  BY DEF MsgInv, Inv, TypeOK, RequestsOK
<1>2. MsgTypeOK'
  BY DEF MsgInv, MsgTypeOK
<1>3. UnusedRows'
  BY DEF MsgInv, UnusedRows, Stored
<1>4. ASSUME NEW g \in Handlers, g # h PROVE HandlerOK(g)'
  <2>1. HandlerOK(g) /\ hreq'[g] = hreq[g]
    BY <1>4 DEF MsgInv, CopiesCurrent, MsgTypeOK
  <2>2. DOMAIN lock = MessageIDs \cup {"group"}
    BY DEF MsgInv, MsgTypeOK
  <2>3. QED
    BY <1>4, <2>1, <2>2 DEF HandlerOK, Stored
<1>5. QED
  BY <1>1, <1>2, <1>3, <1>4 DEF MsgInv, CopiesCurrent

\* Effective permissions of a member row are permissions.
LEMMA PermittedType ==
    ASSUME NEW m \in Member PROVE Permitted(m) \subseteq AllPermissions
<1>1. m.role \in Roles /\ m.allow \subseteq AllPermissions
  BY DEF Member
<1>2. BasePermissions(m.role, DefaultPermissions) \subseteq AllPermissions
  BY <1>1, ConstantsAssumption DEF BasePermissions, AllPermissions, Roles
<1>3. QED
  BY <1>1, <1>2 DEF Permitted, EffectivePermissions

\* Taking a request and every check made before the transaction keep MsgInv.
LEMMA CheckInv ==
    ASSUME MsgInv, UNCHANGED vars, NEW h \in Handlers,
           ReceiveMessage(h) \/ Check(h)
    PROVE  MsgInv'
<1> USE QuietOK
<1>0. /\ hreq[h] \in Handler /\ HandlerOK(h)
      /\ group \in Group /\ members \in [Users -> Member]
      /\ messages \in [MessageIDs -> Message] /\ now \in Nat
      /\ hreq \in [Handlers -> Handler]
      /\ UNCHANGED <<group, members, req>>
  BY DEF MsgInv, MsgTypeOK, CopiesCurrent, Inv, TypeOK, vars
<1>1. ASSUME NEW op \in AllMsgOps, NEW u \in Users,
             NEW id \in MessageIDs \cup {NoMessage},
             op # "SendMessage" => id \in MessageIDs, Call(h, op, u, id)
      PROVE  MsgInv'
  <2> DEFINE r == [Quiet EXCEPT !.pc = "member", !.op = op, !.user = u,
                                !.id = id, !.policy = group.policy]
  <2>1. r \in Handler
    BY <1>0 DEF Handler, Group
  <2>2. /\ r.pc = "member" /\ r.op = op /\ r.id = id /\ r.user = u
        /\ r.policy \in Policies
    BY <1>0 DEF Quiet, Group
  <2>3. hreq' = [hreq EXCEPT ![h] = r]
    BY <1>1 DEF Call
  <2> HIDE DEF r
  <2>4. HandlerOK(h)'
    BY <1>0, <1>1, <2>2, <2>3 DEF HandlerOK
  <2>5. QED
    BY <1>0, <1>1, <2>1, <2>3, <2>4, Reading DEF Call, MsgInv, MsgTypeOK
<1>2. CASE requireActiveMembership(h)
  <2> DEFINE r == [hreq[h] EXCEPT
         !.pc = IF hreq[h].op = "SendMessage" THEN "cooldown" ELSE "lock",
         !.role = IF hreq[h].op = "DeleteMessage"
                  THEN members[hreq[h].user].role ELSE @,
         !.perms = IF hreq[h].op \in {"SendMessage", "DeleteMessage"}
                   THEN Permitted(members[hreq[h].user]) ELSE @]
  <2>1. hreq' = [hreq EXCEPT ![h] = r]
    BY <1>0, <1>2 DEF requireActiveMembership, Handler
  <2>2. members[hreq[h].user] \in Member
    BY <1>0, <1>2 DEF requireActiveMembership, HandlerOK
  <2>3. Permitted(members[hreq[h].user]) \subseteq AllPermissions
    BY <2>2, PermittedType
  <2>4. r \in Handler
    <3> DEFINE pc == IF hreq[h].op = "SendMessage" THEN "cooldown" ELSE "lock"
               role == IF hreq[h].op = "DeleteMessage"
                       THEN members[hreq[h].user].role ELSE hreq[h].role
               perms == IF hreq[h].op \in {"SendMessage", "DeleteMessage"}
                        THEN Permitted(members[hreq[h].user])
                        ELSE hreq[h].perms
    <3>1. /\ pc \in {"cooldown", "lock"}
          /\ role \in Roles /\ perms \in SUBSET AllPermissions
      BY <1>0, <2>2, <2>3 DEF Handler, Member
    <3>2. r = [hreq[h] EXCEPT !.pc = pc, !.role = role, !.perms = perms]
      BY <1>0 DEF Handler
    <3> HIDE DEF pc, role, perms, r
    <3>3. QED
      BY <1>0, <3>1, <3>2 DEF Handler
  <2>5. HandlerOK(h)'
    BY <1>0, <1>2, <2>1 DEF HandlerOK, requireActiveMembership, Handler
  <2> HIDE DEF r
  <2>6. QED
    BY <1>0, <1>2, <2>1, <2>4, <2>5, Reading
       DEF requireActiveMembership, MsgInv, MsgTypeOK
<1>3. CASE enforceSlowMode(h)
  <2> DEFINE r == [hreq[h] EXCEPT !.pc = "reference"]
  <2>1. hreq' = [hreq EXCEPT ![h] = r]
    BY <1>0, <1>3 DEF enforceSlowMode, Handler
  <2>2. r \in Handler
    BY <1>0 DEF Handler
  <2>3. HandlerOK(h)'
    BY <1>0, <1>3, <2>1 DEF HandlerOK, enforceSlowMode, Doing, Handler
  <2> HIDE DEF r
  <2>4. QED
    BY <1>0, <1>3, <2>1, <2>2, <2>3, Reading
       DEF enforceSlowMode, MsgInv, MsgTypeOK
<1>4. CASE validateReferences(h)
  <2>1. PICK reply \in MessageIDs \cup {NoMessage},
             source \in MessageIDs \cup {NoMessage, Elsewhere}, p \in Payloads :
          /\ NoMessage \in {reply, source}
          /\ reply # NoMessage => ReplyAllowed(hreq[h], reply)
          /\ source # NoMessage => ForwardAllowed(hreq[h], source)
          /\ hreq' = [hreq EXCEPT ![h].pc = "lock",
                        ![h].copy = [NoRow EXCEPT !.status = "normal",
                                       !.sender = hreq[h].user, !.payload = p,
                                       !.reply = reply, !.forward = source,
                                       !.at = now]]
    BY <1>4 DEF validateReferences
  <2>10. \A x \in {reply, source} \cap MessageIDs : Stored(x)
    BY <2>1, MessageAssumption DEF ReplyAllowed, ForwardAllowed, Visible, Stored
  <2> DEFINE row == [NoRow EXCEPT !.status = "normal",
                       !.sender = hreq[h].user, !.payload = p,
                       !.reply = reply, !.forward = source, !.at = now]
             r == [hreq[h] EXCEPT !.pc = "lock", !.copy = row]
  <2>2. row \in Message
    BY <1>0 DEF Message, Handler
  <2>3. /\ row.status = "normal" /\ row.editCount = 0 /\ OneReference(row)
        /\ \A x \in Referred(row) : Stored(x)
    BY <2>1, <2>10 DEF NoRow, OneReference, Referred
  <2> HIDE DEF row
  <2>4. hreq' = [hreq EXCEPT ![h] = r]
    BY <1>0, <2>1 DEF Handler, row
  <2>5. r \in Handler
    BY <1>0, <2>2 DEF Handler
  <2>6. HandlerOK(h)'
    <3>1. /\ r.pc = "lock" /\ r.op = "SendMessage" /\ r.copy = row
          /\ r.policy \in Policies
      BY <1>0, <1>4 DEF HandlerOK, validateReferences, Doing, Handler
    <3>2. hreq'[h] = r /\ messages' = messages
      BY <1>0, <1>4, <2>4 DEF validateReferences
    <3> HIDE DEF r
    <3>3. QED
      BY <2>1, <2>3, <3>1, <3>2 DEF HandlerOK, Stored
  <2> HIDE DEF r
  <2>7. QED
    BY <1>0, <1>4, <2>4, <2>5, <2>6, Reading
       DEF validateReferences, MsgInv, MsgTypeOK
<1>5. QED
  BY <1>1, <1>2, <1>3, <1>4
     DEF ReceiveMessage, Check, SendMessage, EditMessage, RetractMessage,
         DeleteMessage, AllMsgOps

\* Returning, with or without an error, keeps MsgInv: the handler forgets its
\* copy and gives up at most its own locks.
LEMMA ReturnInv ==
    ASSUME MsgInv, UNCHANGED vars, NEW h \in Handlers,
           SetCooldown(h) \/ FailMessage(h)
    PROVE  MsgInv'
<1> USE QuietOK
<1>0. /\ UNCHANGED <<group, members, req>>
      /\ hreq[h] \in Handler /\ HandlerOK(h) /\ now \in Nat
      /\ cooldown \in [Users -> Nat]
      /\ hreq \in [Handlers -> Handler]
      /\ lock \in [MessageIDs \cup {"group"} -> Handlers \cup {Nobody}]
  BY DEF MsgInv, MsgTypeOK, CopiesCurrent, vars
<1>1. Rest(h) => HandlerOK(h)'
  BY <1>0 DEF Rest, HandlerOK, Quiet
<1>2. CASE SetCooldown(h)
  <2>1. hreq[h].policy.cooldown \in Nat
    BY <1>0, <1>2, MessageAssumption DEF SetCooldown, Doing, HandlerOK
  <2>2. cooldown' \in [Users -> Nat]
    <3>1. now + hreq[h].policy.cooldown \in Nat
      BY <1>0, <2>1
    <3>2. QED
      BY <1>0, <1>2, <3>1 DEF SetCooldown
  <2>3. QED
    BY <1>0, <1>1, <1>2, <2>2, Reading DEF SetCooldown, Rest
<1>3. CASE FailMessage(h)
  <2>1. lock' \in [MessageIDs \cup {"group"} -> Handlers \cup {Nobody}]
    BY <1>0, <1>3 DEF FailMessage
  <2>2. QED
    BY <1>0, <1>1, <1>3, <2>1, Reading DEF FailMessage, Rest
<1>4. QED
  BY <1>2, <1>3

\* So does the SELECT ... FOR UPDATE that opens a transaction.
LEMMA LockInv ==
    ASSUME MsgInv, UNCHANGED vars, NEW h \in Handlers,
           \/ IncrementLastSeq(h)
           \/ LockForEdit(h) \/ LockForRetract(h) \/ LockForDelete(h)
    PROVE  MsgInv'
<1> USE QuietOK
<1>0. /\ UNCHANGED <<group, members, req>>
      /\ hreq[h] \in Handler /\ HandlerOK(h) /\ lastSeq \in Nat
      /\ cooldown \in [Users -> Nat]
      /\ messages \in [MessageIDs -> Message]
      /\ hreq \in [Handlers -> Handler]
      /\ lock \in [MessageIDs \cup {"group"} -> Handlers \cup {Nobody}]
  BY DEF MsgInv, MsgTypeOK, CopiesCurrent, vars
<1>1. CASE IncrementLastSeq(h)
  <2> DEFINE row == [hreq[h].copy EXCEPT !.seq = lastSeq + 1]
             r == [hreq[h] EXCEPT !.pc = "write", !.copy = row]
  <2>1. /\ hreq[h].copy \in Message /\ hreq[h].copy.status = "normal"
        /\ hreq[h].copy.editCount = 0
        /\ OneReference(hreq[h].copy)
        /\ \A x \in Referred(hreq[h].copy) : Stored(x)
    BY <1>0, <1>1 DEF IncrementLastSeq, Doing, HandlerOK, Handler
  <2>2. lastSeq + 1 \in Nat
    BY <1>0
  <2>3. /\ row \in Message /\ row.seq = lastSeq + 1 /\ row.status = "normal"
        /\ row.editCount = 0
        /\ OneReference(row) /\ \A x \in Referred(row) : Stored(x)
    BY <2>1, <2>2 DEF Message, OneReference, Referred
  <2>4. hreq' = [hreq EXCEPT ![h] = r]
    BY <1>0, <1>1 DEF IncrementLastSeq, Handler
  <2> HIDE DEF row
  <2>5. /\ r \in Handler /\ r.pc = "write" /\ r.op = "SendMessage"
        /\ r.copy = row /\ r.policy \in Policies
    BY <1>0, <1>1, <2>3 DEF IncrementLastSeq, Doing, HandlerOK, Handler
  <2> HIDE DEF r
  <2>6. hreq'[h] = r /\ lock'["group"] = h /\ UNCHANGED <<messages, lastSeq>>
    BY <1>0, <1>1, <2>4 DEF IncrementLastSeq
  <2>7. HandlerOK(h)'
    BY <2>3, <2>5, <2>6 DEF HandlerOK, Stored
  <2>8. /\ lock' \in [MessageIDs \cup {"group"} -> Handlers \cup {Nobody}]
        /\ \A x \in DOMAIN lock, g \in Handlers :
              g # h /\ lock[x] = g => lock'[x] = g
    BY <1>0, <1>1, MessageAssumption DEF IncrementLastSeq, Free
  <2>9. QED
    BY <1>0, <1>1, <2>4, <2>5, <2>7, <2>8, Reading DEF IncrementLastSeq
<1>2. ASSUME NEW row \in Message, LockMessage(h, row), hreq[h].id \in MessageIDs,
             Free(hreq[h].id),
             hreq[h].op \in AllMsgOps \ {"SendMessage"},
             messages[hreq[h].id].status = "normal", row.status # "none",
             row.seq = messages[hreq[h].id].seq,
             row.reply = messages[hreq[h].id].reply,
             row.forward = messages[hreq[h].id].forward,
             row.editCount = IF hreq[h].op = "EditMessage"
                             THEN messages[hreq[h].id].editCount + 1
                             ELSE messages[hreq[h].id].editCount,
             hreq[h].op # "EditMessage" =>
                row.payload = messages[hreq[h].id].payload
      PROVE  MsgInv'
  <2> DEFINE r == [Quiet EXCEPT !.pc = "write", !.op = hreq[h].op,
                                !.id = hreq[h].id, !.copy = row]
  <2>1. r \in Handler
    BY <1>0, <1>2 DEF Handler
  <2>2. /\ r.pc = "write" /\ r.op = hreq[h].op /\ r.id = hreq[h].id
        /\ r.copy = row
    BY DEF Quiet
  <2>3. hreq' = [hreq EXCEPT ![h] = r]
    BY <1>2 DEF LockMessage
  <2> HIDE DEF r
  <2>4. /\ hreq'[h] = r /\ lock'[r.id] = h /\ UNCHANGED <<messages, lastSeq>>
    BY <1>0, <1>2, <2>2, <2>3 DEF LockMessage
  <2>5. HandlerOK(h)'
    BY <1>2, <2>2, <2>4 DEF HandlerOK
  <2>6. /\ lock' \in [MessageIDs \cup {"group"} -> Handlers \cup {Nobody}]
        /\ \A x \in DOMAIN lock, g \in Handlers :
              g # h /\ lock[x] = g => lock'[x] = g
    BY <1>0, <1>2, MessageAssumption DEF LockMessage, Free
  <2>7. QED
    BY <1>0, <1>2, <2>1, <2>3, <2>5, <2>6, Reading DEF LockMessage
<1>3. ASSUME hreq[h].op \in AllMsgOps \ {"SendMessage"}, hreq[h].pc = "lock"
      PROVE  /\ hreq[h].id \in MessageIDs
             /\ messages[hreq[h].id] \in Message
  BY <1>0, <1>3 DEF HandlerOK
<1>4. CASE LockForEdit(h)
  <2>1. hreq[h].op = "EditMessage" /\ hreq[h].pc = "lock" /\ Free(hreq[h].id)
        /\ messages[hreq[h].id].status = "normal"
    BY <1>4 DEF LockForEdit, Doing
  <2>2. hreq[h].id \in MessageIDs /\ messages[hreq[h].id] \in Message
    BY <1>3, <2>1 DEF AllMsgOps
  <2> DEFINE m == messages[hreq[h].id]
  <2>3. PICK p \in Payloads :
          LockMessage(h, [m EXCEPT !.payload = p, !.editCount = @ + 1])
    BY <1>4 DEF LockForEdit
  <2>4. m.editCount \in Nat /\ m.editCount + 1 \in Nat
    BY <2>2 DEF Message
  <2> DEFINE row == [m EXCEPT !.payload = p, !.editCount = m.editCount + 1]
  <2>5. /\ row \in Message /\ row.status = "normal" /\ row.seq = m.seq
        /\ row.reply = m.reply /\ row.forward = m.forward
        /\ row.editCount = m.editCount + 1
    BY <2>1, <2>2, <2>4 DEF Message
  <2>6. LockMessage(h, row)
    BY <2>2, <2>3 DEF Message
  <2> HIDE DEF row
  <2>7. QED
    BY <1>2, <2>1, <2>2, <2>5, <2>6 DEF AllMsgOps
<1>5. ASSUME NEW reason \in {"self_retracted", "admin_removed"},
             hreq[h].op \in {"RetractMessage", "DeleteMessage"},
             hreq[h].pc = "lock", Free(hreq[h].id),
             messages[hreq[h].id].status = "normal",
             LockMessage(h, [messages[hreq[h].id] EXCEPT !.status = "deleted",
                               !.deletedBy = hreq[h].user, !.reason = reason])
      PROVE  MsgInv'
  <2> DEFINE m == messages[hreq[h].id]
             row == [m EXCEPT !.status = "deleted",
                              !.deletedBy = hreq[h].user, !.reason = reason]
  <2>1. hreq[h].id \in MessageIDs /\ m \in Message
    BY <1>3, <1>5 DEF AllMsgOps
  <2>2. hreq[h].user \in Users \cup {NoUser}
    BY <1>0 DEF Handler
  <2>3. /\ row \in Message /\ row.status = "deleted" /\ row.seq = m.seq
        /\ row.reply = m.reply /\ row.forward = m.forward
        /\ row.editCount = m.editCount
        /\ row.payload = m.payload
    BY <1>5, <2>1, <2>2 DEF Message
  <2> HIDE DEF row
  <2>4. LockMessage(h, row)
    BY <1>5 DEF row
  <2>5. QED
    BY <1>2, <1>5, <2>1, <2>3, <2>4 DEF AllMsgOps
<1>6. QED
  BY <1>1, <1>4, <1>5 DEF LockForRetract, LockForDelete, Doing
-----------------------------------------------------------------------------
\* A committed send adds one row with the next sequence number.
Adds(id, row) ==
    /\ id \in MessageIDs /\ ~Stored(id)
    /\ row \in Message /\ row.status = "normal" /\ row.seq = lastSeq + 1
    /\ row.editCount = 0
    /\ OneReference(row) /\ \A x \in Referred(row) : Stored(x)
    /\ messages' = [messages EXCEPT ![id] = row]
    /\ lastSeq' = lastSeq + 1
    /\ edits' = edits

\* A committed edit, retraction or deletion replaces a row that is not deleted
\* by one with the same place in the log.
Replaces(id, row) ==
    LET m == messages[id] IN
    /\ id \in MessageIDs /\ m.status = "normal"
    /\ row \in Message /\ row.status # "none"
    /\ row.seq = m.seq /\ row.reply = m.reply /\ row.forward = m.forward
    /\ \/ edits' = edits /\ row.editCount = m.editCount /\ row.payload = m.payload
       \/ /\ edits' = [edits EXCEPT ![id] =
                         Append(@, [old |-> m.payload, new |-> row.payload])]
          /\ row.editCount = m.editCount + 1
    /\ messages' = [messages EXCEPT ![id] = row]
    /\ lastSeq' = lastSeq

\* What the two writes do to the tables.
LEMMA WriteEffect ==
    ASSUME MsgInv, NEW h \in Handlers, CreateMessage(h) \/ SaveMessage(h)
    PROVE  \E id \in MessageIDs, row \in Message :
              \/ CreateMessage(h) /\ Adds(id, row)
              \/ SaveMessage(h) /\ id = hreq[h].id /\ Replaces(id, row)
<1>0. hreq[h] \in Handler /\ HandlerOK(h)
  BY DEF MsgInv, MsgTypeOK, CopiesCurrent
<1>1. hreq[h].copy \in Message
  BY <1>0 DEF Handler
<1>2. CASE CreateMessage(h)
  <2>1. PICK id \in MessageIDs :
          ~Stored(id) /\ messages' = [messages EXCEPT ![id] = hreq[h].copy]
    BY <1>2 DEF CreateMessage
  <2>2. Adds(id, hreq[h].copy)
    BY <1>0, <1>1, <1>2, <2>1 DEF Adds, CreateMessage, Doing, HandlerOK
  <2>3. QED
    BY <1>1, <1>2, <2>2
<1>3. CASE SaveMessage(h)
  <2>1. hreq[h].id \in MessageIDs
    BY <1>0, <1>3 DEF SaveMessage, HandlerOK
  <2>2. Replaces(hreq[h].id, hreq[h].copy)
    BY <1>0, <1>1, <1>3, <2>1 DEF Replaces, SaveMessage, HandlerOK
  <2>3. QED
    BY <1>1, <1>3, <2>1, <2>2
<1>4. QED
  BY <1>2, <1>3

\* The two writes keep MsgInv: no other handler holds a copy of the row, or the
\* sequence number, that was just used.
LEMMA WriteInv ==
    ASSUME MsgInv, UNCHANGED vars, NEW h \in Handlers,
           CreateMessage(h) \/ SaveMessage(h)
    PROVE  MsgInv'
<1> USE QuietOK
<1>0. /\ hreq[h] \in Handler /\ HandlerOK(h) /\ lastSeq \in Nat
      /\ messages \in [MessageIDs -> Message]
      /\ edits \in [MessageIDs -> Seq(Edit)]
      /\ hreq \in [Handlers -> Handler]
      /\ lock \in [MessageIDs \cup {"group"} -> Handlers \cup {Nobody}]
  BY DEF MsgInv, MsgTypeOK, CopiesCurrent
<1>1. PICK id \in MessageIDs, row \in Message :
        \/ CreateMessage(h) /\ Adds(id, row)
        \/ SaveMessage(h) /\ id = hreq[h].id /\ Replaces(id, row)
  BY WriteEffect
<1>2. Inv'
  BY DEF MsgInv, Inv, TypeOK, RequestsOK, vars
<1>3. PICK r \in Handler : /\ hreq' = [hreq EXCEPT ![h] = r]
                           /\ r = Quiet \/ /\ r.pc = "cool"
                                           /\ r.op = "SendMessage"
                                           /\ r.policy \in Policies
  <2>1. CASE CreateMessage(h)
    <3> DEFINE q == [hreq[h] EXCEPT !.pc = "cool", !.copy = NoRow]
    <3>1. q \in Handler /\ q.pc = "cool" /\ q.op = "SendMessage"
          /\ q.policy \in Policies
      BY <1>0, <2>1 DEF CreateMessage, Doing, HandlerOK, Handler
    <3>2. hreq' = [hreq EXCEPT ![h] = q]
      BY <1>0, <2>1 DEF CreateMessage, Handler
    <3> HIDE DEF q
    <3>3. QED
      BY <3>1, <3>2
  <2>2. CASE SaveMessage(h)
    BY <2>2 DEF SaveMessage, Rest
  <2>3. QED
    BY <2>1, <2>2
<1>4. /\ messages' = [messages EXCEPT ![id] = row] /\ row.status # "none"
      /\ messages' \in [MessageIDs -> Message] /\ lastSeq' \in Nat
  <2>1. CASE Adds(id, row)
    BY <1>0, <2>1 DEF Adds
  <2>2. CASE Replaces(id, row)
    BY <1>0, <2>2 DEF Replaces
  <2>3. QED
    BY <1>1, <2>1, <2>2
<1>5. edits' \in [MessageIDs -> Seq(Edit)]
  <2>1. CASE Replaces(id, row)
    <3>1. [old |-> messages[id].payload, new |-> row.payload] \in Edit
      BY <1>0, <2>1 DEF Replaces, Message, Edit
    <3>2. Append(edits[id], [old |-> messages[id].payload,
                             new |-> row.payload]) \in Seq(Edit)
      BY <1>0, <3>1
    <3>3. QED
      BY <1>0, <2>1, <3>2 DEF Replaces
  <2>2. QED
    BY <1>0, <1>1, <2>1 DEF Adds
<1>6. /\ lock' \in [MessageIDs \cup {"group"} -> Handlers \cup {Nobody}]
      /\ \A x \in DOMAIN lock, g \in Handlers :
            g # h /\ lock[x] = g => lock'[x] = g
      /\ UNCHANGED <<cooldown, now>>
  <2>1. CASE CreateMessage(h)
    BY <1>0, <2>1 DEF CreateMessage, Doing, HandlerOK
  <2>2. CASE SaveMessage(h)
    BY <1>0, <2>2 DEF SaveMessage, HandlerOK
  <2>3. QED
    BY <2>1, <2>2
<1>7. MsgTypeOK'
  BY <1>0, <1>3, <1>4, <1>5, <1>6 DEF MsgInv, MsgTypeOK
<1>8. UnusedRows'
  BY <1>0, <1>4 DEF MsgInv, UnusedRows, Stored
<1>9. \A x \in MessageIDs : Stored(x) => Stored(x)'
  BY <1>0, <1>4 DEF Stored
<1>10. HandlerOK(h)'
  <2>1. hreq'[h] = r
    BY <1>0, <1>3
  <2>2. \/ r.pc = "idle" /\ r.op = "none"
        \/ r.pc = "cool" /\ r.op = "SendMessage" /\ r.policy \in Policies
    BY <1>3 DEF Quiet
  <2>3. QED
    BY <2>1, <2>2 DEF HandlerOK
<1>11. ASSUME NEW g \in Handlers, g # h PROVE HandlerOK(g)'
  <2>1. hreq'[g] = hreq[g] /\ HandlerOK(g) /\ hreq[g] \in Handler
    BY <1>0, <1>3, <1>11 DEF MsgInv, CopiesCurrent
  <2>2. Referred(hreq[g].copy) \subseteq MessageIDs
    BY DEF Referred
  <2>3. CASE hreq[g].op = "SendMessage"
    <3>1. hreq[g].pc = "write" =>
            lock'["group"] = g /\ lastSeq' = lastSeq
      <4>1. hreq[g].pc = "write" => lock["group"] = g
        BY <2>1, <2>3 DEF HandlerOK
      <4>2. hreq[g].pc = "write" => ~CreateMessage(h)
        BY <1>0, <1>11, <4>1 DEF CreateMessage, Doing, HandlerOK
      <4>3. QED
        BY <1>0, <1>1, <1>6, <1>11, <4>1, <4>2 DEF Replaces
    <3>2. \A x \in Referred(hreq[g].copy) : Stored(x) => Stored(x)'
      BY <1>9, <2>2
    <3>3. QED
      BY <2>1, <2>3, <3>1, <3>2 DEF HandlerOK, Stored
  <2>4. CASE hreq[g].op # "SendMessage" /\ hreq[g].pc = "write"
    <3>1. /\ hreq[g].id \in MessageIDs /\ lock[hreq[g].id] = g
          /\ messages[hreq[g].id].status = "normal"
      BY <2>1, <2>4 DEF HandlerOK
    <3>2. hreq[g].id # id
      <4>1. CASE Adds(id, row)
        BY <3>1, <4>1 DEF Adds, Stored
      <4>2. CASE SaveMessage(h) /\ id = hreq[h].id
        BY <1>0, <1>11, <3>1, <4>2 DEF SaveMessage, HandlerOK
      <4>3. QED
        BY <1>1, <4>1, <4>2
    <3>3. /\ messages'[hreq[g].id] = messages[hreq[g].id]
          /\ lock'[hreq[g].id] = g
      BY <1>0, <1>4, <1>6, <1>11, <3>1, <3>2
    <3>4. QED
      BY <2>1, <2>4, <3>3 DEF HandlerOK
  <2>5. CASE hreq[g].op # "SendMessage" /\ hreq[g].pc # "write"
    BY <2>1, <2>5 DEF HandlerOK
  <2>6. QED
    BY <2>3, <2>4, <2>5
<1>12. QED
  BY <1>2, <1>7, <1>8, <1>10, <1>11 DEF MsgInv, CopiesCurrent

\* MsgInv is inductive.
LEMMA MsgNextInv == MsgInv /\ [MsgNext]_allVars => MsgInv'
<1> SUFFICES ASSUME MsgInv, [MsgNext]_allVars PROVE MsgInv'
  OBVIOUS
<1>1. CASE UNCHANGED allVars
  BY <1>1 DEF MsgInv, Inv, TypeOK, RequestsOK, MsgTypeOK, CopiesCurrent,
              HandlerOK, UnusedRows, Stored, allVars
<1>2. ASSUME NEW w \in Workers, GroupStep(w) PROVE MsgInv'
  <2>1. Next
    BY <1>2 DEF GroupStep, Next
  <2>2. Inv'
    BY <2>1, NextInv DEF MsgInv
  <2>3. UNCHANGED msgVars
    BY <1>2 DEF GroupStep
  <2>4. QED
    BY <2>2, <2>3 DEF MsgInv, MsgTypeOK, CopiesCurrent, HandlerOK, UnusedRows,
                      Stored, msgVars
<1>3. CASE Tick /\ UNCHANGED vars
  <2>1. now' \in Nat
    BY <1>3 DEF MsgInv, MsgTypeOK, Tick
  <2>2. QED
    BY <1>3, <2>1 DEF MsgInv, Inv, TypeOK, RequestsOK, MsgTypeOK, CopiesCurrent,
                      HandlerOK, UnusedRows, Stored, Tick, vars
<1>4. QED
  BY <1>1, <1>2, <1>3, CheckInv, ReturnInv, LockInv, WriteInv
     DEF MsgNext, MessageStep, Transact

\* Every step leaves the message tables alone or is one of the two writes.
LEMMA MsgStepCases ==
    ASSUME MsgInv, [MsgNext]_allVars
    PROVE  \/ UNCHANGED <<lastSeq, messages, edits>>
           \/ \E id \in MessageIDs, row \in Message :
                 Adds(id, row) \/ Replaces(id, row)
<1>1. ASSUME NEW h \in Handlers, MessageStep,
             CreateMessage(h) \/ SaveMessage(h)
      PROVE  \E id \in MessageIDs, row \in Message :
                 Adds(id, row) \/ Replaces(id, row)
  BY <1>1, WriteEffect
<1>2. ASSUME NEW h \in Handlers,
             ReceiveMessage(h) \/ Check(h) \/ FailMessage(h) \/ SetCooldown(h)
      PROVE  UNCHANGED <<lastSeq, messages, edits>>
  BY <1>2 DEF ReceiveMessage, Check, FailMessage, SetCooldown, SendMessage,
              EditMessage, RetractMessage, DeleteMessage, Call,
              requireActiveMembership, enforceSlowMode, validateReferences
<1>3. ASSUME NEW h \in Handlers,
             \/ IncrementLastSeq(h)
             \/ LockForEdit(h) \/ LockForRetract(h) \/ LockForDelete(h)
      PROVE  UNCHANGED <<lastSeq, messages, edits>>
  BY <1>3 DEF IncrementLastSeq, LockForEdit, LockForRetract, LockForDelete,
              LockMessage
<1>4. ASSUME UNCHANGED allVars \/ Tick \/ \E w \in Workers : GroupStep(w)
      PROVE  UNCHANGED <<lastSeq, messages, edits>>
  BY <1>4 DEF allVars, Tick, GroupStep, msgVars
<1>5. QED
  BY <1>1, <1>2, <1>3, <1>4 DEF MsgNext, MessageStep, Transact
-----------------------------------------------------------------------------
\* Rows, locks and handlers are always well formed, and whatever a transaction
\* is about to write still agrees with the row it has locked.
THEOREM MsgTypeCorrect == MsgSpec => [](MsgTypeOK /\ CopiesCurrent)
<1>1. MsgSpec => []MsgInv
  BY MsgInitInv, MsgNextInv, PTL DEF MsgSpec
<1>2. QED
  BY <1>1, PTL DEF MsgInv

\* Sequence numbers are 1 .. last_message_seq, each used once, for any number of
\* handlers, any interleaving and any failures: the number taken under the lock
\* is written together with its row or not at all.
THEOREM GapFree == MsgSpec => []SeqGapFree
<1>1. MsgInit => SeqGapFree
  BY DEF MsgInit, SeqGapFree, Stored, NoRow
<1>2. ASSUME MsgInv, SeqGapFree, [MsgNext]_allVars PROVE SeqGapFree'
  <2>0. lastSeq \in Nat /\ messages \in [MessageIDs -> Message]
    BY <1>2 DEF MsgInv, MsgTypeOK
  <2>1. CASE UNCHANGED <<lastSeq, messages, edits>>
    BY <1>2, <2>1 DEF SeqGapFree, Stored
  <2>2. ASSUME NEW id \in MessageIDs, NEW row \in Message, Adds(id, row)
        PROVE  SeqGapFree'
    <3>1. /\ Stored(id)' /\ messages'[id].seq = lastSeq + 1
          /\ lastSeq' = lastSeq + 1
      BY <2>0, <2>2 DEF Adds, Stored
    <3>2. \A x \in MessageIDs \ {id} : messages'[x] = messages[x]
      BY <2>0, <2>2 DEF Adds
    <3>3. \A x \in MessageIDs : Stored(x)' => messages'[x].seq \in 1..lastSeq'
      BY <1>2, <2>0, <3>1, <3>2 DEF SeqGapFree, Stored
    <3>4. \A x, y \in MessageIDs :
             Stored(x)' /\ Stored(y)' /\ messages'[x].seq = messages'[y].seq
               => x = y
      BY <1>2, <2>0, <3>1, <3>2 DEF SeqGapFree, Stored
    <3>5. \A n \in 1..lastSeq' :
             \E x \in MessageIDs : Stored(x)' /\ messages'[x].seq = n
      <4> TAKE n \in 1..lastSeq'
      <4>1. CASE n = lastSeq + 1
        BY <3>1, <4>1
      <4>2. CASE n \in 1..lastSeq
        <5>1. PICK x \in MessageIDs : Stored(x) /\ messages[x].seq = n
          BY <1>2, <4>2 DEF SeqGapFree
        <5>2. x # id
          BY <2>2, <5>1 DEF Adds
        <5>3. QED
          BY <3>2, <5>1, <5>2 DEF Stored
      <4>3. QED
        BY <2>0, <3>1, <4>1, <4>2
    <3>6. QED
      BY <3>3, <3>4, <3>5 DEF SeqGapFree, Stored
  <2>3. ASSUME NEW id \in MessageIDs, NEW row \in Message, Replaces(id, row)
        PROVE  SeqGapFree'
    <3>1. \A x \in MessageIDs : /\ messages'[x].seq = messages[x].seq
                                /\ Stored(x)' <=> Stored(x)
      BY <2>0, <2>3 DEF Replaces, Stored
    <3>2. lastSeq' = lastSeq
      BY <2>3 DEF Replaces
    <3>3. QED
      BY <1>2, <3>1, <3>2 DEF SeqGapFree, Stored
  <2>4. QED
    BY <1>2, <2>1, <2>2, <2>3, MsgStepCases
<1>3. QED
  BY <1>1, <1>2, MsgInitInv, MsgNextInv, PTL DEF MsgSpec

\* A deleted message is final: an edit or a second deletion that was waiting
\* for the row's lock sees the deletion and writes nothing.
THEOREM DeletionFinal == MsgSpec => DeletedIsFinal
<1>1. ASSUME MsgInv, [MsgNext]_allVars, NEW id \in MessageIDs,
             messages[id].status = "deleted"
      PROVE  messages'[id] = messages[id]
  <2>1. messages \in [MessageIDs -> Message]
    BY <1>1 DEF MsgInv, MsgTypeOK
  <2>2. ASSUME NEW x \in MessageIDs, NEW row \in Message,
               Adds(x, row) \/ Replaces(x, row)
        PROVE  messages'[id] = messages[id]
    BY <1>1, <2>1, <2>2 DEF Adds, Replaces, Stored
  <2>3. QED
    BY <1>1, <2>2, MsgStepCases
<1>2. MsgInv /\ [MsgNext]_allVars =>
        [\A id \in MessageIDs : messages[id].status = "deleted" =>
                               messages'[id] = messages[id]]_allVars
  BY <1>1
<1>3. QED
  BY <1>2, MsgInitInv, MsgNextInv, PTL DEF MsgSpec, DeletedIsFinal

\* Within the group a message refers only backwards in the log, so chains of
\* replies and forwards end in it or leave the group.
THEOREM ReferencesBackwards == MsgSpec => []ReferencesPrecede
<1>1. MsgInit => ReferencesPrecede
  BY MessageAssumption
     DEF MsgInit, ReferencesPrecede, OneReference, Referred, NoRow
<1>2. ASSUME MsgInv, SeqGapFree, ReferencesPrecede, [MsgNext]_allVars
      PROVE  ReferencesPrecede'
  <2>0. lastSeq \in Nat /\ messages \in [MessageIDs -> Message]
    BY <1>2 DEF MsgInv, MsgTypeOK
  <2>1. CASE UNCHANGED <<lastSeq, messages, edits>>
    BY <1>2, <2>1 DEF ReferencesPrecede, Stored
  <2>2. ASSUME NEW id \in MessageIDs, NEW row \in Message, Adds(id, row)
        PROVE  ReferencesPrecede'
    <3>1. messages'[id] = row /\ \A x \in MessageIDs \ {id} :
                                    messages'[x] = messages[x]
      BY <2>0, <2>2 DEF Adds
    <3>2. \A x \in MessageIDs : Stored(x) =>
             /\ x # id /\ messages'[x] = messages[x] /\ Stored(x)'
             /\ messages[x].seq \in Nat /\ messages[x].seq <= lastSeq
      BY <1>2, <2>0, <2>2, <3>1 DEF Adds, SeqGapFree, Stored, Message
    <3>3. ASSUME NEW x \in MessageIDs
          PROVE  /\ OneReference(messages'[x])
                 /\ \A y \in Referred(messages'[x]) :
                       /\ messages'[y].status # "none"
                       /\ messages'[y].seq < messages'[x].seq
      <4>1. CASE x = id
        <5>1. OneReference(row) /\ \A y \in Referred(row) :
                 y \in MessageIDs /\ Stored(y) /\ row.seq = lastSeq + 1
          BY <2>2 DEF Adds, Referred
        <5>2. QED
          BY <2>0, <3>1, <3>2, <4>1, <5>1 DEF Stored
      <4>2. CASE x # id
        <5>1. messages'[x] = messages[x]
          BY <3>1, <4>2
        <5>2. /\ OneReference(messages[x])
              /\ \A y \in Referred(messages[x]) :
                    y \in MessageIDs /\ Stored(y)
                      /\ messages[y].seq < messages[x].seq
          BY <1>2 DEF ReferencesPrecede, Referred
        <5>3. QED
          BY <3>2, <5>1, <5>2 DEF Stored
      <4>3. QED
        BY <4>1, <4>2
    <3>4. QED
      BY <3>3 DEF ReferencesPrecede, Stored
  <2>3. ASSUME NEW id \in MessageIDs, NEW row \in Message, Replaces(id, row)
        PROVE  ReferencesPrecede'
    <3>1. \A x \in MessageIDs : /\ messages'[x].seq = messages[x].seq
                                /\ messages'[x].reply = messages[x].reply
                                /\ messages'[x].forward = messages[x].forward
                                /\ Stored(x) => messages'[x].status # "none"
      BY <2>0, <2>3 DEF Replaces, Stored
    <3>2. \A x \in MessageIDs :
             /\ OneReference(messages'[x]) <=> OneReference(messages[x])
             /\ Referred(messages'[x]) = Referred(messages[x])
             /\ Referred(messages[x]) \subseteq MessageIDs
      BY <3>1 DEF OneReference, Referred
    <3>3. QED
      BY <1>2, <3>1, <3>2 DEF ReferencesPrecede, Stored
  <2>4. QED
    BY <1>2, <2>1, <2>2, <2>3, MsgStepCases
<1>3. QED
  BY <1>1, <1>2, GapFree, MsgInitInv, MsgNextInv, PTL DEF MsgSpec

\* The audit trail is complete: the edit row and the message row change in one
\* transaction, from the payload the row lock protects.
THEOREM AuditComplete == MsgSpec => []AuditTrail
<1> DEFINE Trail(e, m) ==
      /\ Len(e) = m.editCount
      /\ \A i \in 1..Len(e) :
            e[i].new = IF i = Len(e) THEN m.payload ELSE e[i + 1].old
<1>1. MsgInit => AuditTrail
  BY DEF MsgInit, AuditTrail, NoRow
<1>2. ASSUME MsgInv, AuditTrail, [MsgNext]_allVars PROVE AuditTrail'
  <2>0. /\ messages \in [MessageIDs -> Message]
        /\ edits \in [MessageIDs -> Seq(Edit)]
        /\ UnusedRows
    BY <1>2 DEF MsgInv, MsgTypeOK
  <2>1. \A x \in MessageIDs : Trail(edits[x], messages[x])
    BY <1>2 DEF AuditTrail
  <2>2. CASE UNCHANGED <<lastSeq, messages, edits>>
    BY <1>2, <2>2 DEF AuditTrail
  <2>3. ASSUME NEW id \in MessageIDs, NEW row \in Message, Adds(id, row)
        PROVE  AuditTrail'
    <3>1. Len(edits[id]) = 0 /\ row.editCount = 0
      BY <2>0, <2>1, <2>3 DEF Adds, UnusedRows, NoRow
    <3>2. Trail(edits[id], row)
      BY <2>0, <3>1
    <3>3. \A x \in MessageIDs : Trail(edits'[x], messages'[x])
      BY <2>0, <2>1, <2>3, <3>2 DEF Adds
    <3>4. QED
      BY <3>3 DEF AuditTrail
  <2>4. ASSUME NEW id \in MessageIDs, NEW row \in Message, Replaces(id, row)
        PROVE  AuditTrail'
    <3>0. messages'[id] = row /\ \A x \in MessageIDs \ {id} :
                                    messages'[x] = messages[x]
      BY <2>0, <2>4 DEF Replaces
    <3>1. CASE /\ edits' = edits /\ row.editCount = messages[id].editCount
               /\ row.payload = messages[id].payload
      <4>1. \A x \in MessageIDs : Trail(edits'[x], messages'[x])
        BY <2>1, <3>0, <3>1
      <4>2. QED
        BY <4>1 DEF AuditTrail
    <3>2. CASE /\ edits' = [edits EXCEPT ![id] =
                              Append(@, [old |-> messages[id].payload,
                                         new |-> row.payload])]
               /\ row.editCount = messages[id].editCount + 1
      <4> DEFINE e == edits[id]
                 m == messages[id]
                 d == [old |-> m.payload, new |-> row.payload]
                 f == Append(e, d)
      <4>1. e \in Seq(Edit) /\ Trail(e, m) /\ Len(e) \in Nat
        BY <2>0, <2>1
      <4>2. d \in Edit
        BY <2>0 DEF Message, Edit
      <4>3. /\ Len(f) = Len(e) + 1 /\ f[Len(e) + 1] = d
            /\ \A i \in 1..Len(e) : f[i] = e[i]
        BY <4>1, <4>2
      <4>4. \A i \in 1..Len(f) :
               f[i].new = IF i = Len(f) THEN row.payload ELSE f[i + 1].old
        <5> SUFFICES ASSUME NEW i \in 1..Len(f)
                     PROVE  f[i].new = IF i = Len(f) THEN row.payload
                                                     ELSE f[i + 1].old
          OBVIOUS
        <5> HIDE DEF f
        <5>1. CASE i = Len(e) + 1
          BY <4>3, <5>1
        <5>2. CASE i = Len(e) /\ i \in 1..Len(e)
          <6>0. e[i].new = m.payload /\ f[i] = e[i] /\ f[i + 1] = d
            BY <4>1, <4>3, <5>2
          <6>1. f[i].new = m.payload /\ f[i + 1].old = m.payload
            BY <6>0
          <6>2. QED
            BY <4>1, <4>3, <5>2, <6>1
        <5>3. CASE i \in 1..(Len(e) - 1)
          <6>1. i \in 1..Len(e) /\ i + 1 \in 1..Len(e) /\ i # Len(e)
            BY <4>1, <5>3
          <6>2. f[i].new = e[i + 1].old
            BY <4>1, <4>3, <6>1
          <6>3. QED
            BY <4>1, <4>3, <6>1, <6>2
        <5>4. QED
          BY <4>1, <4>3, <5>1, <5>2, <5>3
      <4>5. Trail(f, row)
        BY <3>2, <4>1, <4>3, <4>4
      <4>6. edits'[id] = f /\ \A x \in MessageIDs \ {id} : edits'[x] = edits[x]
        BY <2>0, <3>2
      <4> HIDE DEF f
      <4>7. \A x \in MessageIDs : Trail(edits'[x], messages'[x])
        BY <2>1, <3>0, <4>5, <4>6
      <4>8. QED
        BY <4>7 DEF AuditTrail
    <3>3. QED
      BY <2>4, <3>1, <3>2 DEF Replaces
  <2>5. QED
    BY <1>2, <2>2, <2>3, <2>4, MsgStepCases
<1>3. QED
  BY <1>1, <1>2, MsgInitInv, MsgNextInv, PTL DEF MsgSpec
=============================================================================
