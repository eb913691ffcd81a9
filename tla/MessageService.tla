--------------------------- MODULE MessageService ---------------------------
(***************************************************************************)
(* The messages of the group of GroupService: sending, editing, retracting *)
(* and deleting them (internal/service/message_service.go,                 *)
(* internal/repo/message_repo.go, GroupRepo.IncrementLastSeq).             *)
(*                                                                         *)
(* The handlers run beside those of GroupService, on the same tables.  A   *)
(* transaction here is two steps, the SELECT ... FOR UPDATE and the write  *)
(* that commits, with the row lock held in between: lock[r] is the handler *)
(* that holds row r.  A handler that fails inside its transaction rolls    *)
(* back and releases the lock.                                             *)
(***************************************************************************)
EXTENDS GroupService, Sequences

CONSTANTS
    Handlers,       \* goroutines serving message requests
    MsgOps,         \* message operations clients call in this instance
    MessageIDs,     \* the uuids messages get
    Payloads,       \* payloads validatePayload accepts
    ContentTypes,   \* content types in use
    MaxTime,        \* bound on the clock
    MaxEdits,       \* bound on edit_count
    Nobody,         \* "no handler holds the lock"
    NoMessage,      \* "no message": nil reply_to / forward_from
    Elsewhere       \* a message of another group

VARIABLES
    lastSeq,        \* groups.last_message_seq
    messages,       \* rows of "group_messages", by message_id
    edits,          \* rows of "group_message_edits", by message_id, in order
    cooldown,       \* redis: when chat:cooldown:{group}:{user} expires
    lock,           \* row locks
    now,            \* the clock
    hreq            \* what each handler is doing and remembers

msgVars == <<lastSeq, messages, edits, cooldown, lock, now, hreq>>
allVars == <<group, members, req, lastSeq, messages, edits, cooldown, lock,
             now, hreq>>

AllMsgOps == {"SendMessage", "EditMessage", "RetractMessage", "DeleteMessage"}

ASSUME MessageAssumption ==
    /\ MsgOps \subseteq AllMsgOps
    /\ Nobody \notin Handlers
    /\ NoMessage \notin MessageIDs
    /\ Elsewhere \notin MessageIDs \cup {NoMessage}
    /\ "group" \notin MessageIDs
    /\ Policies \subseteq [ttl : Nat, retract : Nat, cooldown : Nat]
    /\ ContentTypes \subseteq {"Text", "Image", "Video", "Voice", "File",
                               "Forward"}
    /\ MaxTime \in Nat
    /\ MaxEdits \in Nat
-----------------------------------------------------------------------------
(***************************************************************************)
(* Rows.  A message_id that is not in use has status "none".               *)
(***************************************************************************)
Message == [status : {"none", "normal", "deleted"}, seq : Nat,
            sender : Users \cup {NoUser}, payload : Payloads \cup {NoMessage},
            reply : MessageIDs \cup {NoMessage},
            forward : MessageIDs \cup {NoMessage, Elsewhere},
            at : Nat, editCount : Nat,
            reason : {"none", "self_retracted", "admin_removed"},
            deletedBy : Users \cup {NoUser}]

\* A row of group_message_edits: old_payload_json and new_payload_json.
Edit == [old : Payloads \cup {NoMessage}, new : Payloads \cup {NoMessage}]

NoRow == [status |-> "none", seq |-> 0, sender |-> NoUser,
          payload |-> NoMessage, reply |-> NoMessage, forward |-> NoMessage,
          at |-> 0, editCount |-> 0,
          reason |-> "none", deletedBy |-> NoUser]

Stored(id) == messages[id].status # "none"

\* The messages of this group a message replies to or forwards.
Referred(m) == {m.reply, m.forward} \cap MessageIDs

OneReference(m) == m.reply = NoMessage \/ m.forward = NoMessage

\* decode and check of the content type against the sender's permissions.
SendPermission ==
    [Text |-> "SendText", Image |-> "SendImage", Video |-> "SendVideo",
     Voice |-> "SendVoice", File |-> "SendFile", Forward |-> "Forward"]

\* A message is visible while ttl seconds have not passed since created_at.
isVisibleByTTL(ttl, at) == ttl = 0 \/ at + ttl >= now

-----------------------------------------------------------------------------
(***************************************************************************)
(* Handlers.  pc is the next call; user, policy and role are the request's *)
(* user, the settings and the operator's role as read; perms the effective *)
(* permissions; copy is the message being written.                         *)
(***************************************************************************)
Handler == [pc : {"idle", "member", "cooldown", "reference", "lock", "write",
                  "cool"},
            op : AllMsgOps \cup {"none"}, user : Users \cup {NoUser},
            policy : Policies \cup {NoMessage}, role : Roles,
            perms : SUBSET AllPermissions, id : MessageIDs \cup {NoMessage},
            copy : Message]

Quiet == [pc |-> "idle", op |-> "none", user |-> NoUser, policy |-> NoMessage,
          role |-> "member", perms |-> {}, id |-> NoMessage, copy |-> NoRow]

Doing(h, pc, op) == hreq[h].pc = pc /\ hreq[h].op = op

\* The group row is read first: a closed group refuses every operation.
Call(h, op, u, id) ==
    /\ hreq[h].pc = "idle"
    /\ op \in MsgOps
    /\ group.status = "active"
    /\ hreq' = [hreq EXCEPT ![h] = [Quiet EXCEPT !.pc = "member", !.op = op,
                                      !.user = u, !.id = id,
                                      !.policy = group.policy]]
    /\ UNCHANGED <<lastSeq, messages, edits, cooldown, lock, now>>

Free(r) == lock[r] = Nobody

Rest(h) == hreq' = [hreq EXCEPT ![h] = Quiet]

MsgInit ==
    /\ Init
    /\ lastSeq = 0
    /\ messages = [id \in MessageIDs |-> NoRow]
    /\ edits = [id \in MessageIDs |-> <<>>]
    /\ cooldown = [u \in Users |-> 0]
    /\ lock = [r \in MessageIDs \cup {"group"} |-> Nobody]
    /\ now = 0
    /\ hreq = [h \in Handlers |-> Quiet]
-----------------------------------------------------------------------------
SendMessage(h, u) == Call(h, "SendMessage", u, NoMessage)
EditMessage(h, u, id) == Call(h, "EditMessage", u, id)
RetractMessage(h, u, id) == Call(h, "RetractMessage", u, id)
DeleteMessage(h, u, id) == Call(h, "DeleteMessage", u, id)

\* requireActiveMembership: the row of the caller, its role and permissions.
\* Sending also needs to be unmuted and to have the content type's permission.
requireActiveMembership(h) ==
    LET r == hreq[h]
        m == members[r.user] IN
    /\ r.pc = "member"
    /\ m.status = "active"
    /\ r.op = "SendMessage" =>
         /\ ~m.muted
         /\ \E ct \in ContentTypes : SendPermission[ct] \in Permitted(m)
    /\ hreq' = [hreq EXCEPT
                  ![h].pc = IF r.op = "SendMessage" THEN "cooldown" ELSE "lock",
                  ![h].role = IF r.op = "DeleteMessage" THEN m.role ELSE @,
                  ![h].perms = IF r.op \in {"SendMessage", "DeleteMessage"}
                               THEN Permitted(m) ELSE @]
    /\ UNCHANGED <<lastSeq, messages, edits, cooldown, lock, now>>

\* The sender does not wait out the cooldown.
Exempt(r) == r.policy.cooldown = 0 \/ "BypassSlowmode" \in r.perms

enforceSlowMode(h) ==
    /\ Doing(h, "cooldown", "SendMessage")
    /\ Exempt(hreq[h]) \/ cooldown[hreq[h].user] <= now
    /\ hreq' = [hreq EXCEPT ![h].pc = "reference"]
    /\ UNCHANGED <<lastSeq, messages, edits, cooldown, lock, now>>

\* Fault: the referenced message is not looked up.
validateReferences_Unchecked(h) ==
    /\ Doing(h, "reference", "SendMessage")
    /\ \E ref \in MessageIDs \cup {NoMessage}, p \in Payloads :
         hreq' = [hreq EXCEPT ![h].pc = "lock",
                    ![h].copy = [NoRow EXCEPT !.status = "normal",
                                   !.sender = hreq[h].user, !.payload = p,
                                   !.reply = ref, !.at = now]]
    /\ UNCHANGED <<lastSeq, messages, edits, cooldown, lock, now>>

\* The message exists, is not deleted and has not expired.
Visible(ref, ttl) ==
    messages[ref].status = "normal" /\ isVisibleByTTL(ttl, messages[ref].at)

\* A reply is checked against the settings read at the start.
ReplyAllowed(r, ref) == "Reply" \in r.perms /\ Visible(ref, r.policy.ttl)

\* A forward is checked against the group of its source as it is now, and the
\* sender must be an active member of that group now.  Another group than this
\* one may have any settings, members and messages.
ForwardAllowed(r, source) ==
    /\ "Forward" \in r.perms
    /\ source # Elsewhere => /\ Visible(source, group.policy.ttl)
                             /\ members[r.user].status = "active"
                             /\ group.status = "active"

\* A message replies to one of its group, forwards any, or does neither.  now is
\* taken here as created_at, before the transaction starts.
validateReferences(h) ==
    LET r == hreq[h] IN
    /\ Doing(h, "reference", "SendMessage")
    /\ \E reply \in MessageIDs \cup {NoMessage},
          source \in MessageIDs \cup {NoMessage, Elsewhere}, p \in Payloads :
         /\ NoMessage \in {reply, source}
         /\ reply # NoMessage => ReplyAllowed(r, reply)
         /\ source # NoMessage => ForwardAllowed(r, source)
         /\ hreq' = [hreq EXCEPT ![h].pc = "lock",
                       ![h].copy = [NoRow EXCEPT !.status = "normal",
                                      !.sender = r.user, !.payload = p,
                                      !.reply = reply, !.forward = source,
                                      !.at = now]]
    /\ UNCHANGED <<lastSeq, messages, edits, cooldown, lock, now>>

\* Fault: a plain SELECT instead of SELECT ... FOR UPDATE.
IncrementLastSeq_NoLock(h) ==
    /\ Doing(h, "lock", "SendMessage")
    /\ hreq' = [hreq EXCEPT ![h].pc = "write", ![h].copy.seq = lastSeq + 1]
    /\ UNCHANGED <<lastSeq, messages, edits, cooldown, lock, now>>

\* Start of the send transaction: the group row is locked and the next
\* sequence number taken.
IncrementLastSeq(h) ==
    /\ Doing(h, "lock", "SendMessage")
    /\ Free("group")
    /\ lock' = [lock EXCEPT !["group"] = h]
    /\ hreq' = [hreq EXCEPT ![h].pc = "write", ![h].copy.seq = lastSeq + 1]
    /\ UNCHANGED <<lastSeq, messages, edits, cooldown, now>>

\* End of the send transaction: last_message_seq and the row become visible.
CreateMessage(h) ==
    LET row == hreq[h].copy IN
    /\ Doing(h, "write", "SendMessage")
    /\ \E id \in MessageIDs :
         /\ ~Stored(id)
         /\ messages' = [messages EXCEPT ![id] = row]
    /\ lastSeq' = row.seq
    /\ lock' = [lock EXCEPT !["group"] = Nobody]
    /\ hreq' = [hreq EXCEPT ![h].pc = "cool", ![h].copy = NoRow]
    /\ UNCHANGED <<edits, cooldown, now>>

\* Fault: the wrong sign.
SetCooldown_InThePast(h) ==
    LET r == hreq[h] IN
    /\ Doing(h, "cool", "SendMessage")
    /\ cooldown' = IF Exempt(r) THEN cooldown
                   ELSE [cooldown EXCEPT ![r.user] = now - r.policy.cooldown]
    /\ Rest(h)
    /\ UNCHANGED <<lastSeq, messages, edits, lock, now>>

\* The cooldown key is set only after the message is committed.
SetCooldown(h) ==
    LET r == hreq[h] IN
    /\ Doing(h, "cool", "SendMessage")
    /\ cooldown' = IF Exempt(r) THEN cooldown
                   ELSE [cooldown EXCEPT ![r.user] = now + r.policy.cooldown]
    /\ Rest(h)
    /\ UNCHANGED <<lastSeq, messages, edits, lock, now>>
-----------------------------------------------------------------------------
(***************************************************************************)
(* Editing and deleting: the message row is locked and copied, the copy is *)
(* changed, and Save writes the whole row.                                 *)
(***************************************************************************)
LockMessage(h, row) ==
    /\ lock' = [lock EXCEPT ![hreq[h].id] = h]
    /\ hreq' = [hreq EXCEPT ![h] = [Quiet EXCEPT !.pc = "write", !.op = hreq[h].op,
                                      !.id = hreq[h].id, !.copy = row]]
    /\ UNCHANGED <<lastSeq, messages, edits, cooldown, now>>

\* Fault: a plain SELECT instead of SELECT ... FOR UPDATE.
LockForEdit_NoLock(h) ==
    LET r == hreq[h] IN
    /\ Doing(h, "lock", "EditMessage")
    /\ messages[r.id].status = "normal"
    /\ messages[r.id].sender = r.user
    /\ messages[r.id].editCount < MaxEdits
    /\ \E p \in Payloads :
         LockMessage(h, [messages[r.id] EXCEPT !.payload = p,
                                               !.editCount = @ + 1])

\* The sender may edit for ever; neither mute nor permissions are looked at.
LockForEdit(h) ==
    LET r == hreq[h] IN
    /\ Doing(h, "lock", "EditMessage")
    /\ Free(r.id)
    /\ messages[r.id].status = "normal"
    /\ messages[r.id].sender = r.user
    /\ messages[r.id].editCount < MaxEdits
    /\ \E p \in Payloads :
         LockMessage(h, [messages[r.id] EXCEPT !.payload = p,
                                               !.editCount = @ + 1])

LockForRetract(h) ==
    LET r == hreq[h]
        m == messages[r.id] IN
    /\ Doing(h, "lock", "RetractMessage")
    /\ Free(r.id)
    /\ m.status = "normal"
    /\ m.sender = r.user
    /\ r.policy.retract = 0 \/ m.at + r.policy.retract >= now
    /\ LockMessage(h, [m EXCEPT !.status = "deleted", !.deletedBy = r.user,
                                !.reason = "self_retracted"])

\* The sender's rank is read inside the transaction, but not locked.
LockForDelete(h) ==
    LET r == hreq[h]
        m == messages[r.id] IN
    /\ Doing(h, "lock", "DeleteMessage")
    /\ Free(r.id)
    /\ m.status = "normal"
    /\ "DeleteMessages" \in r.perms
    /\ Outranks(r.role, members[m.sender].role)
    /\ LockMessage(h, [m EXCEPT !.status = "deleted", !.deletedBy = r.user,
                                !.reason = "admin_removed"])

\* CreateEdit and Save, then commit.
SaveMessage(h) ==
    LET r == hreq[h] IN
    /\ r.pc = "write"
    /\ r.op # "SendMessage"
    /\ messages' = [messages EXCEPT ![r.id] = r.copy]
    /\ edits' = IF r.op = "EditMessage"
                THEN [edits EXCEPT ![r.id] =
                        Append(@, [old |-> messages[r.id].payload,
                                   new |-> r.copy.payload])]
                ELSE edits
    /\ lock' = [lock EXCEPT ![r.id] = Nobody]
    /\ Rest(h)
    /\ UNCHANGED <<lastSeq, cooldown, now>>

\* An error, a cancelled context or a crash: an open transaction rolls back.
FailMessage(h) ==
    /\ hreq[h].pc # "idle"
    /\ Rest(h)
    /\ lock' = [x \in DOMAIN lock |-> IF lock[x] = h THEN Nobody ELSE lock[x]]
    /\ UNCHANGED <<lastSeq, messages, edits, cooldown, now>>

Tick ==
    /\ now < MaxTime
    /\ now' = now + 1
    /\ UNCHANGED <<lastSeq, messages, edits, cooldown, lock, hreq>>
-----------------------------------------------------------------------------
ReceiveMessage(h) ==
    \E u \in Users :
        \/ SendMessage(h, u)
        \/ \E id \in MessageIDs : \/ EditMessage(h, u, id)
                                  \/ RetractMessage(h, u, id)
                                  \/ DeleteMessage(h, u, id)

Check(h) ==
    \/ requireActiveMembership(h)
    \/ enforceSlowMode(h)
    \/ validateReferences(h)

Transact(h) ==
    \/ IncrementLastSeq(h)
    \/ CreateMessage(h)
    \/ SetCooldown(h)
    \/ LockForEdit(h)
    \/ LockForRetract(h)
    \/ LockForDelete(h)
    \/ SaveMessage(h)

MessageStep ==
    \/ Tick
    \/ \E h \in Handlers :
          ReceiveMessage(h) \/ Check(h) \/ Transact(h) \/ FailMessage(h)

\* A step of GroupService.  Every write it makes to the group row waits for
\* the lock a send transaction holds on it.
GroupStep(w) ==
    /\ \/ Receive(w)
       \/ Load(w)
       \/ Fail(w)
       \/ Commit(w) /\ (req[w].op \in TargetOps \/ Free("group"))
    /\ UNCHANGED msgVars

MsgNext == \/ MessageStep /\ UNCHANGED vars
           \/ \E w \in Workers : GroupStep(w)

MsgSpec == MsgInit /\ [][MsgNext]_allVars
-----------------------------------------------------------------------------
(***************************************************************************)
(* Properties                                                              *)
(***************************************************************************)
\* Rows, locks and handlers have the shape their Go types give them.
MsgTypeOK ==
    /\ lastSeq \in Nat
    /\ messages \in [MessageIDs -> Message]
    /\ edits \in [MessageIDs -> Seq(Edit)]
    /\ cooldown \in [Users -> Nat]
    /\ lock \in [MessageIDs \cup {"group"} -> Handlers \cup {Nobody}]
    /\ now \in Nat
    /\ hreq \in [Handlers -> Handler]

\* What a handler is about to write is still right when it writes it: a send
\* holds the group lock and the next sequence number, and refers to a message
\* that is stored; an edit or a deletion holds the row's lock, and its copy
\* differs from the row, which is not deleted, in nothing but the change.
HandlerOK(h) ==
    LET r == hreq[h]
        m == messages[r.id] IN
    /\ r.pc # "idle" /\ r.op # "SendMessage" => r.id \in MessageIDs
    /\ r.pc = "member" => r.user \in Users
    /\ r.op = "SendMessage" =>
          /\ r.policy \in Policies
          /\ r.pc \in {"lock", "write"} =>
                /\ r.copy.status = "normal" /\ r.copy.editCount = 0
                /\ OneReference(r.copy)
                /\ \A x \in Referred(r.copy) : Stored(x)
          /\ r.pc = "write" => lock["group"] = h /\ r.copy.seq = lastSeq + 1
    /\ r.pc = "write" /\ r.op # "SendMessage" =>
          /\ lock[r.id] = h
          /\ m.status = "normal" /\ r.copy.status # "none"
          /\ r.copy.seq = m.seq
          /\ r.copy.reply = m.reply /\ r.copy.forward = m.forward
          /\ r.copy.editCount =
                IF r.op = "EditMessage" THEN m.editCount + 1 ELSE m.editCount
          /\ r.op # "EditMessage" => r.copy.payload = m.payload

CopiesCurrent == \A h \in Handlers : HandlerOK(h)

\* The sequence numbers of the stored messages are exactly 1 .. last_message_seq,
\* each used once, although a send may fail after it has taken its number.
SeqGapFree ==
    /\ \A id \in MessageIDs : Stored(id) => messages[id].seq \in 1..lastSeq
    /\ \A i, j \in MessageIDs :
          Stored(i) /\ Stored(j) /\ messages[i].seq = messages[j].seq => i = j
    /\ \A n \in 1..lastSeq :
          \E id \in MessageIDs : Stored(id) /\ messages[id].seq = n

\* A deleted message never changes again: no edit that was under way brings it
\* back, and no second deletion rewrites who deleted it and why.
DeletedIsFinal ==
    [][\A id \in MessageIDs :
         messages[id].status = "deleted" => messages'[id] = messages[id]]_allVars

\* group_message_edits is a complete audit trail: one row per edit counted in
\* edit_count, each starting where the one before ended, the last one ending
\* in the payload the message has now.
AuditTrail ==
    \A id \in MessageIDs :
        LET e == edits[id] IN
        /\ Len(e) = messages[id].editCount
        /\ \A i \in 1..Len(e) :
              e[i].new = IF i = Len(e) THEN messages[id].payload
                                       ELSE e[i + 1].old

\* A message refers to one other message at most, and of its own group only to a
\* stored one with a smaller sequence number, although it is looked up before the
\* message has its number and other sends and deletions come in between: within a
\* group references never form a cycle.  A forward may come from another group.
ReferencesPrecede ==
    \A id \in MessageIDs :
        LET m == messages[id] IN
        /\ OneReference(m)
        /\ \A x \in Referred(m) : Stored(x) /\ messages[x].seq < m.seq
=============================================================================
