------------------------- MODULE DMService_proofs -------------------------
(***************************************************************************)
(* Proofs about DMService, for any users, conversations, messages, keys,   *)
(* handlers and bounds: one conversation per pair, idempotent sending,     *)
(* acknowledgement by the recipient, numbers that become visible in order, *)
(* and the refinement of the abstract log.                                 *)
(***************************************************************************)
EXTENDS DMService, TLAPS

\* A conversation is between two different users, and empty until it exists.
ConvOK(c) ==
    /\ conversations[c].pair = {} => conversations[c].lastSeq = 0
    /\ conversations[c].pair # {} =>
         \E u, v \in Users : u # v /\ conversations[c].pair = {u, v}

\* A stored message is from one of them to the other, with a number that the
\* conversation has given out.
MessageOK(m) ==
    Stored(m) =>
      /\ dms[m].conv \in ConvIDs
      /\ dms[m].sender \in conversations[dms[m].conv].pair
      /\ dms[m].recipient \in conversations[dms[m].conv].pair
      /\ dms[m].sender # dms[m].recipient
      /\ dms[m].client \in ClientMsgIDs
      /\ 1 <= dms[m].seq /\ dms[m].seq <= conversations[dms[m].conv].lastSeq

SameKey(m, n) == /\ dms[m].conv = dms[n].conv
                 /\ dms[m].sender = dms[n].sender
                 /\ dms[m].client = dms[n].client

\* Neither an idempotency key nor a number is used twice in a conversation.
MessagesUnique ==
    \A m, n \in MessageIDs :
        /\ Stored(m) /\ Stored(n)
        /\ \/ SameKey(m, n)
           \/ dms[m].conv = dms[n].conv /\ dms[m].seq = dms[n].seq
        => m = n

\* Message m is the one that a send of u to c under key k is about.
IsAnswer(m, c, u, k) ==
    /\ m \in MessageIDs /\ Stored(m)
    /\ dms[m].conv = c /\ dms[m].sender = u /\ dms[m].client = k

\* What the handlers remember.  Between the two steps of CreateMessage a handler
\* holds the conversation, and its number is the next one.
ReqOK(h) ==
    LET r == dreq[h] IN
    /\ r.pc = "create" => r.user \in Users /\ r.peer \in Users /\ r.user # r.peer
    /\ r.pc \in {"lock", "insert", "refind", "publish"} =>
         /\ r.conv \in ConvIDs /\ IsParticipant(r.conv, r.user)
         /\ r.client \in ClientMsgIDs
    /\ r.pc = "insert" =>
         lock[r.conv] = h /\ r.seq = conversations[r.conv].lastSeq + 1
    /\ r.pc = "publish" => IsAnswer(r.msg, r.conv, r.user, r.client)
    /\ r.pc = "ack" => r.msg \in MessageIDs /\ Stored(r.msg)

RepliesOK == \A x \in replies : IsAnswer(x.msg, x.conv, x.sender, x.client)

\* Readers have only numbers that have been given out.
PulledOK ==
    /\ pulled \in [ConvIDs -> SUBSET Nat]
    /\ \A c \in ConvIDs : \A s \in pulled[c] : s <= conversations[c].lastSeq

TablesOK ==
    /\ \A c \in ConvIDs : ConvOK(c)
    /\ \A m \in MessageIDs : MessageOK(m)
    /\ MessagesUnique

DMInv ==
    /\ OneConversationPerPair
    /\ TablesOK
    /\ \A h \in Handlers : ReqOK(h)
    /\ RepliesOK
    /\ PulledOK
-----------------------------------------------------------------------------
\* No conversations, no messages, nothing to do.
LEMMA InitDM == DMInit => DMInv
<1> SUFFICES ASSUME DMInit PROVE DMInv
  OBVIOUS
<1>1. OneConversationPerPair
  BY DMAssumption
     DEF DMInit, OneConversationPerPair, DMTypeOK, Conversation, DirectMessage,
         NoDM, Request, Idle
<1>2. TablesOK
  BY DEF DMInit, TablesOK, ConvOK, MessageOK, MessagesUnique, Stored, NoDM
<1>3. \A h \in Handlers : ReqOK(h)
  BY DEF DMInit, ReqOK, Idle
<1>4. RepliesOK /\ PulledOK
  BY DEF DMInit, RepliesOK, PulledOK
<1>5. QED
  BY <1>1, <1>2, <1>3, <1>4 DEF DMInv

\* A handler with nothing to do.
LEMMA IdleOK == /\ Idle \in Request /\ Idle.pc = "idle"
  BY DEF Idle, Request

\* Conversations and what was sent in them stay; acknowledging aside, a stored
\* message never changes.
TablesGrow ==
    /\ \A c \in ConvIDs : conversations[c].pair # {} =>
          conversations'[c].pair = conversations[c].pair
    /\ \A m \in MessageIDs : Stored(m) =>
          /\ Stored(m)'
          /\ dms'[m].conv = dms[m].conv /\ dms'[m].sender = dms[m].sender
          /\ dms'[m].recipient = dms[m].recipient
          /\ dms'[m].client = dms[m].client /\ dms'[m].seq = dms[m].seq

\* Handlers other than h are not disturbed by a step that frees nobody else's
\* locks and numbers no message of a conversation that somebody else holds.
LEMMA OtherHandlers ==
    ASSUME DMInv, NEW h \in Handlers, TablesGrow,
           \A k \in Handlers \ {h} : dreq'[k] = dreq[k],
           \A c \in ConvIDs : lock[c] \in Handlers \ {h} =>
              /\ lock'[c] = lock[c]
              /\ conversations'[c].lastSeq = conversations[c].lastSeq
    PROVE  \A k \in Handlers \ {h} : ReqOK(k)'
<1> SUFFICES ASSUME NEW k \in Handlers \ {h}
             PROVE  ReqOK(k)'
  OBVIOUS
<1>1. dreq'[k] = dreq[k] /\ ReqOK(k) /\ DMTypeOK
  BY DEF DMInv, OneConversationPerPair
<1>2. CASE dreq[k].pc \in {"idle", "create"}
  BY <1>1, <1>2 DEF ReqOK
<1>3. CASE dreq[k].pc = "ack"
  BY <1>1, <1>3 DEF ReqOK, TablesGrow
<1>4. CASE dreq[k].pc \in {"lock", "insert", "refind", "publish"}
  <2>1. /\ dreq[k].conv \in ConvIDs /\ dreq[k].client \in ClientMsgIDs
        /\ IsParticipant(dreq[k].conv, dreq[k].user)'
    BY <1>1, <1>4 DEF ReqOK, TablesGrow, IsParticipant
  <2>2. dreq[k].pc = "insert" =>
          /\ lock'[dreq[k].conv] = k
          /\ dreq[k].seq = conversations'[dreq[k].conv].lastSeq + 1
    BY <1>1, <2>1 DEF ReqOK
  <2>3. dreq[k].pc = "publish" =>
          IsAnswer(dreq[k].msg, dreq[k].conv, dreq[k].user, dreq[k].client)'
    BY <1>1 DEF ReqOK, TablesGrow, IsAnswer
  <2>4. QED
    BY <1>1, <1>4, <2>1, <2>2, <2>3 DEF ReqOK, IsParticipant
<1>5. QED
  BY <1>1, <1>2, <1>3, <1>4 DEF DMTypeOK, Request

\* A step that leaves the tables alone: what is left to show is the handler's
\* request, and what it answers.
LEMMA Quiet ==
    ASSUME DMInv, NEW h \in Handlers, NEW new \in Request, Become(h, new),
           UNCHANGED <<conversations, dms, pulled>>, published' \subseteq MessageIDs,
           lock' \in [ConvIDs -> Handlers \cup {Nobody}],
           \A c \in ConvIDs : lock[c] \in Handlers \ {h} => lock'[c] = lock[c],
           ReqOK(h)', RepliesOK'
    PROVE  DMInv'
<1>1. /\ DMTypeOK' /\ \A k \in Handlers \ {h} : dreq'[k] = dreq[k]
      /\ DMTypeOK
  BY DEF DMInv, OneConversationPerPair, DMTypeOK, Become
<1>2. TablesGrow
  BY DEF TablesGrow, Stored
<1>3. \A k \in Handlers : ReqOK(k)'
  BY <1>1, <1>2, OtherHandlers
<1>4. OneConversationPerPair'
  BY <1>1 DEF DMInv, OneConversationPerPair
<1>5. TablesOK'
  BY DEF DMInv, TablesOK, ConvOK, MessageOK, MessagesUnique, SameKey, Stored
<1>6. PulledOK'
  BY DEF DMInv, PulledOK
<1>7. QED
  BY <1>3, <1>4, <1>5, <1>6 DEF DMInv

\* The same, when nobody is answered and no lock is taken.
LEMMA QuietRequest ==
    ASSUME DMInv, NEW h \in Handlers, NEW new \in Request, Become(h, new),
           UNCHANGED <<conversations, dms, pulled, published, lock, replies>>,
           ReqOK(h)'
    PROVE  DMInv'
<1>1. /\ published' \subseteq MessageIDs
      /\ lock' \in [ConvIDs -> Handlers \cup {Nobody}]
  BY DEF DMInv, OneConversationPerPair, DMTypeOK
<1>2. RepliesOK'
  BY DEF DMInv, RepliesOK, IsAnswer, Stored
<1>3. QED
  BY <1>1, <1>2, Quiet
-----------------------------------------------------------------------------
(***************************************************************************)
(* Steps that leave the tables alone                                       *)
(***************************************************************************)
\* Two different users ask for a conversation.
LEMMA Asking ==
    ASSUME DMInv, NEW h \in Handlers, NEW u \in Users, NEW v \in Users,
           CreateConversation(h, u, v)
    PROVE  DMInv'
<1> DEFINE new == [Idle EXCEPT !.pc = "create", !.user = u, !.peer = v]
<1>1. /\ new \in Request
      /\ new.pc = "create" /\ new.user = u /\ new.peer = v
  BY IdleOK DEF Request
<1>2. Become(h, new)
  BY DEF CreateConversation
<1> HIDE DEF new
<1>3. dreq'[h] = new
  BY <1>2 DEF Become, DMInv, OneConversationPerPair, DMTypeOK
<1>4. ReqOK(h)'
  BY <1>1, <1>3 DEF ReqOK, CreateConversation
<1>5. QED
  BY <1>1, <1>2, <1>4, QuietRequest DEF CreateConversation

\* A participant sends.
LEMMA Sending ==
    ASSUME DMInv, NEW h \in Handlers, NEW u \in Users, NEW c \in ConvIDs,
           NEW k \in ClientMsgIDs, SendMessage(h, u, c, k)
    PROVE  DMInv'
<1>1. PICK pc \in {"lock", "refind"} :
         Become(h, [Idle EXCEPT !.user = u, !.conv = c, !.client = k, !.pc = pc])
  BY DEF SendMessage
<1> DEFINE new == [Idle EXCEPT !.user = u, !.conv = c, !.client = k, !.pc = pc]
<1>2. new \in Request
  BY IdleOK DEF Request
<1>3. /\ new.pc = pc /\ new.user = u /\ new.conv = c /\ new.client = k
  BY IdleOK DEF Request
<1>4. Become(h, new)
  BY <1>1
<1> HIDE DEF new
<1>5. dreq'[h] = new
  BY <1>4 DEF Become, DMInv, OneConversationPerPair, DMTypeOK
<1>6. ReqOK(h)'
  BY <1>3, <1>5 DEF ReqOK, SendMessage, IsParticipant
<1>7. QED
  BY <1>2, <1>4, <1>6, QuietRequest DEF SendMessage

\* A participant acknowledges.
LEMMA Acknowledging ==
    ASSUME DMInv, NEW h \in Handlers, NEW u \in Users, NEW m \in MessageIDs,
           AckMessage(h, u, m)
    PROVE  DMInv'
<1> DEFINE new == [Idle EXCEPT !.pc = "ack", !.user = u, !.msg = m]
<1>1. new \in Request /\ new.pc = "ack" /\ new.msg = m
  BY IdleOK DEF Request
<1>2. Become(h, new)
  BY DEF AckMessage
<1> HIDE DEF new
<1>3. dreq'[h] = new
  BY <1>2 DEF Become, DMInv, OneConversationPerPair, DMTypeOK
<1>4. ReqOK(h)'
  BY <1>1, <1>3 DEF ReqOK, AckMessage, Stored
<1>5. QED
  BY <1>1, <1>2, <1>4, QuietRequest DEF AckMessage

\* The number is the next one, and stays so while the lock is held.
LEMMA Locking ==
    ASSUME DMInv, NEW h \in Handlers, LockConversation(h)
    PROVE  DMInv'
<1> DEFINE r == dreq[h]
           seq == conversations[r.conv].lastSeq + 1
           new == [r EXCEPT !.pc = "insert", !.seq = seq]
<1>1. /\ r \in Request /\ r.conv \in ConvIDs /\ IsParticipant(r.conv, r.user)
      /\ r.client \in ClientMsgIDs /\ DMTypeOK
  BY DEF DMInv, ReqOK, LockConversation, OneConversationPerPair, DMTypeOK
<1>2. seq \in Nat
  BY <1>1 DEF DMTypeOK, Conversation
<1>3. /\ new \in Request /\ new.pc = "insert" /\ new.conv = r.conv
      /\ new.user = r.user /\ new.client = r.client /\ new.seq = seq
  BY <1>1, <1>2 DEF Request
<1>4. Become(h, new)
  BY DEF LockConversation, Become
<1>5. dreq'[h] = new
  BY <1>1, <1>4 DEF Become, DMTypeOK
<1>6. /\ lock' = [lock EXCEPT ![r.conv] = h] /\ lock[r.conv] = Nobody
      /\ UNCHANGED <<conversations, dms, pulled, published, replies>>
  BY DEF LockConversation
<1>7. /\ lock' \in [ConvIDs -> Handlers \cup {Nobody}] /\ lock'[r.conv] = h
      /\ \A c \in ConvIDs : lock[c] \in Handlers \ {h} => lock'[c] = lock[c]
  BY <1>1, <1>6, DMAssumption DEF DMTypeOK
<1> HIDE DEF new
<1>8. ReqOK(h)'
  BY <1>1, <1>3, <1>5, <1>6, <1>7 DEF ReqOK, IsParticipant
<1>9. RepliesOK'
  BY <1>6 DEF DMInv, RepliesOK, IsAnswer, Stored
<1>10. QED
  BY <1>1, <1>3, <1>4, <1>6, <1>7, <1>8, <1>9, Quiet DEF DMTypeOK

\* The key is taken.
LEMMA Conflicting ==
    ASSUME DMInv, NEW h \in Handlers, InsertConflict(h)
    PROVE  DMInv'
<1> DEFINE r == dreq[h]
           new == [r EXCEPT !.pc = "refind", !.seq = 0]
<1>1. /\ r \in Request /\ r.conv \in ConvIDs /\ IsParticipant(r.conv, r.user)
      /\ r.client \in ClientMsgIDs /\ DMTypeOK /\ lock[r.conv] = h
  BY DEF DMInv, ReqOK, InsertConflict, OneConversationPerPair, DMTypeOK
<1>2. /\ new \in Request /\ new.pc = "refind" /\ new.conv = r.conv
      /\ new.user = r.user /\ new.client = r.client
  BY <1>1 DEF Request
<1>3. Become(h, new)
  BY DEF InsertConflict, Become
<1>4. dreq'[h] = new
  BY <1>1, <1>3 DEF Become, DMTypeOK
<1>5. /\ lock' = [lock EXCEPT ![r.conv] = Nobody]
      /\ UNCHANGED <<conversations, dms, pulled, published, replies>>
  BY DEF InsertConflict
<1>6. /\ lock' \in [ConvIDs -> Handlers \cup {Nobody}]
      /\ \A c \in ConvIDs : lock[c] \in Handlers \ {h} => lock'[c] = lock[c]
  BY <1>1, <1>5 DEF DMTypeOK
<1> HIDE DEF new
<1>7. ReqOK(h)'
  BY <1>1, <1>2, <1>4, <1>5 DEF ReqOK, IsParticipant
<1>8. RepliesOK'
  BY <1>5 DEF DMInv, RepliesOK, IsAnswer, Stored
<1>9. QED
  BY <1>1, <1>2, <1>3, <1>5, <1>6, <1>7, <1>8, Quiet DEF DMTypeOK

\* The handler answers with a message that its key belongs to.
LEMMA Replying ==
    ASSUME DMInv, NEW h \in Handlers, NEW m,
           IsAnswer(m, dreq[h].conv, dreq[h].user, dreq[h].client), Reply(h, m),
           UNCHANGED <<conversations, dms, pulled, lock>>,
           published' \subseteq MessageIDs
    PROVE  DMInv'
<1>1. DMTypeOK /\ Become(h, Idle)
  BY DEF DMInv, OneConversationPerPair, Reply
<1>2. dreq'[h] = Idle
  BY <1>1 DEF Become, DMTypeOK
<1>3. ReqOK(h)'
  BY <1>2, IdleOK DEF ReqOK
<1>4. RepliesOK'
  <2> DEFINE x == [conv |-> dreq[h].conv, sender |-> dreq[h].user,
                   client |-> dreq[h].client, msg |-> m]
  <2>1. replies' = replies \cup {x}
    BY DEF Reply
  <2>2. x.conv = dreq[h].conv /\ x.sender = dreq[h].user
        /\ x.client = dreq[h].client /\ x.msg = m
    OBVIOUS
  <2> HIDE DEF x
  <2>3. QED
    BY <2>1, <2>2 DEF DMInv, RepliesOK, IsAnswer, Stored
<1>5. QED
  BY <1>1, <1>3, <1>4, IdleOK, Quiet DEF DMTypeOK

\* Answering and publishing change no table: the reply names the message that
\* the handler has stored or found.
LEMMA Answering ==
    ASSUME DMInv, NEW h \in Handlers,
           ReplyExisting(h) \/ Publish(h) \/ PublishLost(h)
    PROVE  DMInv'
<1>1. published \subseteq MessageIDs
  BY DEF DMInv, OneConversationPerPair, DMTypeOK
<1>2. CASE ReplyExisting(h)
  <2>1. PICK m : /\ IsAnswer(m, dreq[h].conv, dreq[h].user, dreq[h].client)
                 /\ Reply(h, m)
    BY <1>2 DEF ReplyExisting, FindByClientMsgID, IsAnswer
  <2>2. QED
    BY <1>1, <1>2, <2>1, Replying DEF ReplyExisting
<1>3. CASE Publish(h) \/ PublishLost(h)
  <2>1. /\ IsAnswer(dreq[h].msg, dreq[h].conv, dreq[h].user, dreq[h].client)
        /\ Reply(h, dreq[h].msg)
    BY <1>3 DEF DMInv, ReqOK, Publish, PublishLost
  <2>2. published' \subseteq MessageIDs
    BY <1>1, <1>3, <2>1 DEF Publish, PublishLost, IsAnswer
  <2>3. QED
    BY <1>3, <2>1, <2>2, Replying DEF Publish, PublishLost
<1>4. QED
  BY <1>2, <1>3

\* A rollback and a refusal change nothing but the request and its own locks.
LEMMA Stopping ==
    ASSUME DMInv, NEW h \in Handlers, FailDM(h) \/ AckRefused(h)
    PROVE  DMInv'
<1>1. DMTypeOK /\ Become(h, Idle)
  BY DEF DMInv, OneConversationPerPair, FailDM, AckRefused
<1>2. dreq'[h] = Idle
  BY <1>1 DEF Become, DMTypeOK
<1>3. ReqOK(h)'
  BY <1>2, IdleOK DEF ReqOK
<1>4. UNCHANGED <<conversations, dms, pulled, published, replies>>
  BY DEF FailDM, AckRefused
<1>5. /\ lock' \in [ConvIDs -> Handlers \cup {Nobody}]
      /\ \A c \in ConvIDs : lock[c] \in Handlers \ {h} => lock'[c] = lock[c]
  BY <1>1 DEF FailDM, AckRefused, DMTypeOK
<1>6. RepliesOK'
  BY <1>4 DEF DMInv, RepliesOK, IsAnswer, Stored
<1>7. QED
  BY <1>1, <1>3, <1>4, <1>5, <1>6, IdleOK, Quiet DEF DMTypeOK
-----------------------------------------------------------------------------
(***************************************************************************)
(* Steps that write the tables                                             *)
(***************************************************************************)
\* A new conversation takes an id that nothing refers to.
LEMMA NewConversation ==
    ASSUME DMInv, NEW h \in Handlers, InsertConversation(h)
    PROVE  DMInv'
<1> DEFINE u == dreq[h].user
           v == dreq[h].peer
<1>1. /\ u \in Users /\ v \in Users /\ u # v /\ DMTypeOK
      /\ Become(h, Idle)
  BY DEF DMInv, ReqOK, InsertConversation, OneConversationPerPair
<1>2. dreq'[h] = Idle /\ \A k \in Handlers \ {h} : dreq'[k] = dreq[k]
  BY <1>1 DEF Become, DMTypeOK
<1>3. ReqOK(h)'
  BY <1>2, IdleOK DEF ReqOK
<1>4. UNCHANGED <<dms, lock, published, replies, pulled>>
  BY DEF InsertConversation
<1>5. CASE UNCHANGED conversations
  BY <1>1, <1>3, <1>4, <1>5, IdleOK, QuietRequest
<1>6. ASSUME ~PairExists(u, v), NEW c \in ConvIDs, conversations[c].pair = {},
             conversations' = [conversations EXCEPT
                                 ![c] = [pair |-> {u, v}, lastSeq |-> 0]]
      PROVE  DMInv'
  <2> DEFINE row == [pair |-> {u, v}, lastSeq |-> 0]
  <2>1. row \in Conversation /\ row.pair = {u, v} /\ row.lastSeq = 0
    BY <1>1 DEF Conversation
  <2>2. \A d \in ConvIDs : conversations[d].pair # {u, v}
    BY <1>6 DEF PairExists
  <2>3. conversations[c].lastSeq = 0
    BY <1>6 DEF DMInv, TablesOK, ConvOK
  <2> HIDE DEF row
  <2>4. /\ conversations'[c] = row
        /\ \A d \in ConvIDs \ {c} : conversations'[d] = conversations[d]
    BY <1>1, <1>6 DEF DMTypeOK, row
  <2>5. DMTypeOK'
    BY <1>1, <1>4, <1>6, <2>1, IdleOK DEF DMTypeOK, Become, row
  <2>6. OneConversationPerPair'
    BY <2>1, <2>2, <2>4, <2>5 DEF DMInv, OneConversationPerPair
  <2>7. TablesGrow
    BY <1>4, <1>6, <2>4 DEF TablesGrow, Stored
  <2>8. \A k \in Handlers : ReqOK(k)'
    BY <1>2, <1>3, <1>4, <2>1, <2>3, <2>4, <2>7, OtherHandlers
  <2>9. \A d \in ConvIDs : ConvOK(d)'
    BY <1>1, <2>1, <2>4 DEF DMInv, TablesOK, ConvOK
  <2>10. ASSUME NEW m \in MessageIDs PROVE MessageOK(m)'
    <3>1. Stored(m) => dms[m].conv # c
      BY <1>6 DEF DMInv, TablesOK, MessageOK
    <3>2. QED
      BY <1>4, <2>4, <3>1 DEF DMInv, TablesOK, MessageOK, Stored
  <2>11. MessagesUnique'
    BY <1>4 DEF DMInv, TablesOK, MessagesUnique, SameKey, Stored
  <2>12. RepliesOK' /\ PulledOK'
    BY <1>4, <2>1, <2>3, <2>4 DEF DMInv, RepliesOK, PulledOK, IsAnswer, Stored
  <2>13. QED
    BY <2>6, <2>8, <2>9, <2>10, <2>11, <2>12 DEF DMInv, TablesOK
<1>7. QED
  BY <1>5, <1>6 DEF InsertConversation

\* What StoreMessage puts in the tables, for the next steps.
LEMMA StoredRow ==
    ASSUME DMInv, NEW h \in Handlers, NEW pc \in {"publish", "refind"},
           StoreMessage(h, pc)
    PROVE  \E m \in MessageIDs :
             /\ ~Stored(m)
             /\ dms'[m] \in DirectMessage /\ dms'[m].status = "pending_ack"
             /\ dms'[m].conv = dreq[h].conv /\ dms'[m].sender = dreq[h].user
             /\ dms'[m].client = dreq[h].client
             /\ dms'[m].recipient \in conversations[dreq[h].conv].pair
             /\ dms'[m].recipient # dreq[h].user
             /\ dms'[m].seq = conversations[dreq[h].conv].lastSeq + 1
             /\ \A n \in MessageIDs \ {m} : dms'[n] = dms[n]
             /\ dms' \in [MessageIDs -> DirectMessage]
             /\ Become(h, [dreq[h] EXCEPT !.pc = pc, !.msg = m, !.seq = 0])
<1> DEFINE r == dreq[h]
           to == otherUserID(r.conv, r.user)
<1>1. /\ r \in Request /\ r.conv \in ConvIDs /\ IsParticipant(r.conv, r.user)
      /\ r.client \in ClientMsgIDs /\ DMTypeOK
      /\ r.seq = conversations[r.conv].lastSeq + 1
  BY DEF DMInv, ReqOK, StoreMessage, OneConversationPerPair, DMTypeOK
<1>2. to \in conversations[r.conv].pair /\ to # r.user
  <2>1. \E v \in conversations[r.conv].pair : v # r.user
    BY <1>1 DEF DMInv, TablesOK, ConvOK, IsParticipant
  <2>2. QED
    BY <2>1 DEF otherUserID
<1>3. conversations[r.conv].pair \subseteq Users /\ r.seq \in Nat
  BY <1>1 DEF DMTypeOK, Conversation, Request
<1> DEFINE row == [status |-> "pending_ack", conv |-> r.conv, sender |-> r.user,
                   recipient |-> to, client |-> r.client, seq |-> r.seq]
<1>4. PICK m \in MessageIDs : /\ ~Stored(m) /\ dms' = [dms EXCEPT ![m] = row]
                              /\ dreq' = [dreq EXCEPT ![h].pc = pc, ![h].msg = m,
                                                      ![h].seq = 0]
  BY DEF StoreMessage
<1> HIDE DEF to
<1>5. /\ row \in DirectMessage /\ row.status = "pending_ack"
      /\ row.conv = r.conv /\ row.sender = r.user /\ row.client = r.client
      /\ row.recipient = to /\ row.seq = r.seq
  BY <1>1, <1>2, <1>3 DEF DirectMessage, IsParticipant
<1> HIDE DEF row
<1>6. /\ dms'[m] = row /\ \A n \in MessageIDs \ {m} : dms'[n] = dms[n]
      /\ dms' \in [MessageIDs -> DirectMessage]
  BY <1>1, <1>4, <1>5 DEF DMTypeOK
<1>7. Become(h, [r EXCEPT !.pc = pc, !.msg = m, !.seq = 0])
  BY <1>4 DEF Become
<1>8. QED
  BY <1>1, <1>2, <1>4, <1>5, <1>6, <1>7

\* The new message has a new key and a new number, larger than all others.
LEMMA Storing ==
    ASSUME DMInv, NEW h \in Handlers, NEW pc \in {"publish", "refind"},
           StoreMessage(h, pc)
    PROVE  DMInv'
<1> DEFINE r == dreq[h]
           c == r.conv
           next == conversations[c].lastSeq + 1
<1>1. /\ r \in Request /\ c \in ConvIDs /\ IsParticipant(c, r.user)
      /\ r.client \in ClientMsgIDs /\ DMTypeOK /\ r.seq = next /\ lock[c] = h
  BY DEF DMInv, ReqOK, StoreMessage, OneConversationPerPair, DMTypeOK
<1>2. PICK m \in MessageIDs :
             /\ ~Stored(m)
             /\ dms'[m] \in DirectMessage /\ dms'[m].status = "pending_ack"
             /\ dms'[m].conv = c /\ dms'[m].sender = r.user
             /\ dms'[m].client = r.client
             /\ dms'[m].recipient \in conversations[c].pair
             /\ dms'[m].recipient # r.user
             /\ dms'[m].seq = next
             /\ \A n \in MessageIDs \ {m} : dms'[n] = dms[n]
             /\ dms' \in [MessageIDs -> DirectMessage]
             /\ Become(h, [r EXCEPT !.pc = pc, !.msg = m, !.seq = 0])
  BY StoredRow
<1>3. /\ conversations' = [conversations EXCEPT ![c].lastSeq = next]
      /\ lock' = [lock EXCEPT ![c] = Nobody]
      /\ FindByClientMsgID(c, r.user, r.client) = {}
      /\ UNCHANGED <<published, replies, pulled>>
  BY <1>1 DEF StoreMessage
<1>4. conversations[c] \in Conversation /\ next \in Nat
  BY <1>1 DEF DMTypeOK, Conversation
<1>5. /\ conversations'[c].pair = conversations[c].pair
      /\ conversations'[c].lastSeq = next
      /\ conversations'[c] \in Conversation
      /\ \A d \in ConvIDs \ {c} : conversations'[d] = conversations[d]
      /\ conversations' \in [ConvIDs -> Conversation]
  BY <1>1, <1>3, <1>4 DEF DMTypeOK, Conversation
<1> DEFINE new == [r EXCEPT !.pc = pc, !.msg = m, !.seq = 0]
<1>6. /\ new \in Request /\ new.pc = pc /\ new.conv = c /\ new.user = r.user
      /\ new.client = r.client /\ new.msg = m
  BY <1>1 DEF Request
<1> HIDE DEF new
<1>7. dreq'[h] = new /\ \A k \in Handlers \ {h} : dreq'[k] = dreq[k]
  BY <1>1, <1>2 DEF Become, DMTypeOK, new
<1>8. DMTypeOK'
  <2>1. dreq' \in [Handlers -> Request]
    BY <1>1, <1>2, <1>6 DEF Become, DMTypeOK, new
  <2>2. lock' \in [ConvIDs -> Handlers \cup {Nobody}]
    BY <1>1, <1>3 DEF DMTypeOK
  <2>3. QED
    BY <1>1, <1>2, <1>3, <1>5, <2>1, <2>2 DEF DMTypeOK
<1>9. OneConversationPerPair'
  BY <1>1, <1>5, <1>8 DEF DMInv, OneConversationPerPair
<1>10. Stored(m)' /\ \A n \in MessageIDs \ {m} : Stored(n)' <=> Stored(n)
  BY <1>2 DEF Stored
<1>11. TablesGrow
  BY <1>2, <1>5, <1>10 DEF TablesGrow
<1>12. \A k \in Handlers \ {h} : ReqOK(k)'
  <2>1. \A d \in ConvIDs : lock[d] \in Handlers \ {h} =>
          lock'[d] = lock[d] /\ conversations'[d].lastSeq = conversations[d].lastSeq
    BY <1>1, <1>3, <1>5 DEF DMTypeOK
  <2>2. QED
    BY <1>7, <1>11, <2>1, OtherHandlers
<1>13. IsAnswer(dreq[h].msg, dreq[h].conv, dreq[h].user, dreq[h].client)'
  BY <1>2, <1>6, <1>7, <1>10 DEF IsAnswer
<1>14. ReqOK(h)'
  BY <1>1, <1>5, <1>6, <1>7, <1>13 DEF ReqOK, IsParticipant
<1>15. \A d \in ConvIDs : ConvOK(d)'
  <2>1. conversations[c].pair # {}
    BY <1>1 DEF IsParticipant
  <2>2. QED
    BY <1>5, <2>1 DEF DMInv, TablesOK, ConvOK
<1>16. ASSUME NEW n \in MessageIDs PROVE MessageOK(n)'
  <2>1. CASE n = m
    <3>1. /\ dms'[m].conv \in ConvIDs
          /\ dms'[m].sender \in conversations'[c].pair
          /\ dms'[m].recipient \in conversations'[c].pair
          /\ dms'[m].sender # dms'[m].recipient
          /\ dms'[m].client \in ClientMsgIDs
      BY <1>1, <1>2, <1>5 DEF IsParticipant
    <3>2. 1 <= dms'[m].seq /\ dms'[m].seq <= conversations'[c].lastSeq
      BY <1>2, <1>4, <1>5 DEF Conversation
    <3>3. QED
      BY <1>2, <2>1, <3>1, <3>2 DEF MessageOK
  <2>2. CASE n # m /\ Stored(n)
    <3>1. /\ MessageOK(n) /\ dms'[n] = dms[n] /\ dms[n] \in DirectMessage
          /\ conversations[dms[n].conv] \in Conversation
      BY <1>1, <1>2, <2>2 DEF DMInv, TablesOK, DMTypeOK, MessageOK
    <3>2. /\ conversations'[dms[n].conv].pair = conversations[dms[n].conv].pair
          /\ conversations[dms[n].conv].lastSeq <=
               conversations'[dms[n].conv].lastSeq
      BY <1>4, <1>5, <2>2, <3>1 DEF MessageOK, Conversation
    <3>3. dms[n].seq <= conversations'[dms[n].conv].lastSeq
      <4>1. /\ dms[n].seq \in Nat /\ conversations[dms[n].conv].lastSeq \in Nat
            /\ conversations'[dms[n].conv].lastSeq \in Nat
        BY <1>5, <2>2, <3>1 DEF DirectMessage, Conversation, MessageOK
      <4>2. QED
        BY <2>2, <3>1, <3>2, <4>1 DEF MessageOK
    <3>4. QED
      BY <2>2, <3>1, <3>2, <3>3 DEF MessageOK
  <2>3. QED
    BY <1>10, <2>1, <2>2 DEF MessageOK
<1>17. MessagesUnique'
  <2>1. \A n \in MessageIDs \ {m} : Stored(n) =>
          /\ ~(dms[n].conv = c /\ dms[n].sender = r.user /\ dms[n].client = r.client)
          /\ ~(dms[n].conv = c /\ dms[n].seq = next)
    <3>1. ASSUME NEW n \in MessageIDs, Stored(n), dms[n].conv = c
          PROVE  dms[n].seq # next
      <4>1. dms[n].seq \in Nat /\ conversations[c].lastSeq \in Nat
        BY <1>1, <1>4 DEF DMTypeOK, DirectMessage, Conversation
      <4>2. dms[n].seq <= conversations[c].lastSeq
        BY <3>1 DEF DMInv, TablesOK, MessageOK
      <4>3. QED
        BY <4>1, <4>2
    <3>2. QED
      BY <1>3, <3>1 DEF FindByClientMsgID
  <2> HIDE DEF c, next
  <2>2. QED
    BY <1>2, <1>10, <2>1 DEF DMInv, TablesOK, MessagesUnique, SameKey
<1>18. RepliesOK'
  <2>1. ASSUME NEW x \in replies
        PROVE  IsAnswer(x.msg, x.conv, x.sender, x.client)'
    <3>1. IsAnswer(x.msg, x.conv, x.sender, x.client)
      BY DEF DMInv, RepliesOK
    <3>2. QED
      BY <1>11, <3>1 DEF IsAnswer, TablesGrow
  <2>2. QED
    BY <1>3, <2>1 DEF RepliesOK, IsAnswer
<1>19. PulledOK'
  <2>1. ASSUME NEW d \in ConvIDs, NEW s \in pulled[d]
        PROVE  s <= conversations'[d].lastSeq
    <3>1. s \in Nat /\ s <= conversations[d].lastSeq
      BY DEF DMInv, PulledOK
    <3>2. CASE d # c
      BY <1>5, <3>1, <3>2
    <3>3. CASE d = c
      <4>1. conversations[c].lastSeq \in Nat
        BY <1>4 DEF Conversation
      <4>2. QED
        BY <1>5, <3>1, <3>3, <4>1
    <3>4. QED
      BY <3>2, <3>3
  <2>2. QED
    BY <1>3, <2>1 DEF DMInv, PulledOK
<1>20. QED
  BY <1>9, <1>12, <1>14, <1>15, <1>16, <1>17, <1>18, <1>19 DEF DMInv, TablesOK

\* An acknowledgement changes the status of one stored message.
LEMMA Acked ==
    ASSUME DMInv, NEW h \in Handlers, AckMessageTx(h)
    PROVE  DMInv'
<1> DEFINE m == dreq[h].msg
<1>1. m \in MessageIDs /\ Stored(m) /\ DMTypeOK /\ dms[m] \in DirectMessage
  BY DEF DMInv, ReqOK, AckMessageTx, OneConversationPerPair, DMTypeOK
<1>2. /\ dms' = [dms EXCEPT ![m] = [dms[m] EXCEPT !.status = "acked"]]
      /\ Become(h, Idle)
      /\ UNCHANGED <<conversations, lock, published, replies, pulled>>
  BY DEF AckMessageTx
<1> HIDE DEF m
<1>3. [dms[m] EXCEPT !.status = "acked"] \in DirectMessage
  BY <1>1 DEF DirectMessage
<1>4. \A n \in MessageIDs :
        /\ dms'[n].conv = dms[n].conv /\ dms'[n].sender = dms[n].sender
        /\ dms'[n].recipient = dms[n].recipient
        /\ dms'[n].client = dms[n].client /\ dms'[n].seq = dms[n].seq
        /\ Stored(n)' <=> Stored(n)
  BY <1>1, <1>2 DEF DMTypeOK, DirectMessage, Stored
<1>5. /\ DMTypeOK' /\ dreq'[h] = Idle
      /\ \A k \in Handlers \ {h} : dreq'[k] = dreq[k]
  BY <1>1, <1>2, <1>3, IdleOK DEF DMTypeOK, Become
<1>6. TablesGrow
  BY <1>2, <1>4 DEF TablesGrow
<1>7. \A k \in Handlers : ReqOK(k)'
  <2>1. \A k \in Handlers \ {h} : ReqOK(k)'
    BY <1>2, <1>5, <1>6, OtherHandlers
  <2>2. ReqOK(h)'
    BY <1>5, IdleOK DEF ReqOK
  <2>3. QED
    BY <2>1, <2>2
<1>8. OneConversationPerPair'
  BY <1>2, <1>5 DEF DMInv, OneConversationPerPair
<1>9. \A c \in ConvIDs : ConvOK(c)'
  BY <1>2 DEF DMInv, TablesOK, ConvOK
<1>10. \A n \in MessageIDs : MessageOK(n)'
  BY <1>2, <1>4 DEF DMInv, TablesOK, MessageOK
<1>11. MessagesUnique'
  BY <1>4 DEF DMInv, TablesOK, MessagesUnique, SameKey
<1>12. RepliesOK'
  BY <1>2, <1>4 DEF DMInv, RepliesOK, IsAnswer
<1>13. PulledOK'
  BY <1>2 DEF DMInv, PulledOK
<1>14. QED
  BY <1>7, <1>8, <1>9, <1>10, <1>11, <1>12, <1>13 DEF DMInv, TablesOK

\* A page holds numbers of stored messages only.
LEMMA Pages ==
    ASSUME NEW c, NEW before, NEW after, NEW limit
    PROVE  ListMessages(c, before, after, limit) \subseteq Seqs(c)
  BY DEF ListMessages, ListMessagesAfter, ListMessagesBefore, Lowest, Highest

\* A page holds only numbers that have been given out.
LEMMA Pulling ==
    ASSUME DMInv, NEW c \in ConvIDs, NEW limit \in Limits,
           PullNewer(c, limit) \/ PullOlder(c, limit)
    PROVE  DMInv'
<1>1. PICK page : page \subseteq Seqs(c)
                  /\ pulled' = [pulled EXCEPT ![c] = @ \cup page]
  BY Pages DEF PullNewer, PullOlder
<1>2. UNCHANGED <<conversations, dms, lock, dreq, published, replies>>
  BY DEF PullNewer, PullOlder
<1>3. \A s \in Seqs(c) : s \in Nat /\ s <= conversations[c].lastSeq
  BY DEF Seqs, DMInv, TablesOK, MessageOK, OneConversationPerPair, DMTypeOK,
         DirectMessage
<1>4. PulledOK'
  BY <1>1, <1>2, <1>3 DEF DMInv, PulledOK
<1>5. OneConversationPerPair'
  BY <1>2 DEF DMInv, OneConversationPerPair, DMTypeOK
<1>6. TablesOK'
  BY <1>2 DEF DMInv, TablesOK, ConvOK, MessageOK, MessagesUnique, SameKey, Stored
<1>7. \A h \in Handlers : ReqOK(h)'
  BY <1>2 DEF DMInv, ReqOK, IsParticipant, IsAnswer, Stored
<1>8. RepliesOK'
  BY <1>2 DEF DMInv, RepliesOK, IsAnswer, Stored
<1>9. QED
  BY <1>4, <1>5, <1>6, <1>7, <1>8 DEF DMInv
-----------------------------------------------------------------------------
\* Every step, of any handler or reader, keeps the invariant.
LEMMA StepDM ==
    ASSUME DMInv, [DMNext]_dmVars
    PROVE  DMInv'
<1>1. CASE UNCHANGED dmVars
  <2>1. UNCHANGED <<conversations, dms, lock, dreq, published, replies, pulled>>
    BY <1>1 DEF dmVars
  <2>2. OneConversationPerPair' /\ PulledOK' /\ RepliesOK'
    BY <2>1 DEF DMInv, OneConversationPerPair, DMTypeOK, PulledOK, RepliesOK,
                IsAnswer, Stored
  <2>3. TablesOK'
    BY <2>1 DEF DMInv, TablesOK, ConvOK, MessageOK, MessagesUnique, SameKey, Stored
  <2>4. \A h \in Handlers : ReqOK(h)'
    BY <2>1 DEF DMInv, ReqOK, IsParticipant, IsAnswer, Stored
  <2>5. QED
    BY <2>2, <2>3, <2>4 DEF DMInv
<1>2. ASSUME NEW h \in Handlers, Start(h) PROVE DMInv'
  BY <1>2, Asking, Sending, Acknowledging DEF Start
<1>3. ASSUME NEW h \in Handlers, Handle(h) PROVE DMInv'
  <2>1. CASE InsertMessage(h)
    BY <2>1, Storing DEF InsertMessage
  <2>2. QED
    BY <1>3, <2>1, NewConversation, Locking, Conflicting, Answering, Acked,
       Stopping DEF Handle
<1>4. ASSUME NEW h \in Handlers, Lose(h) PROVE DMInv'
  <2>1. CASE CommitUnconfirmed(h)
    BY <2>1, Storing DEF CommitUnconfirmed
  <2>2. QED
    BY <1>4, <2>1, Answering, Stopping DEF Lose
<1>5. CASE Pull
  BY <1>5, Pulling DEF Pull
<1>6. QED
  BY <1>1, <1>2, <1>3, <1>4, <1>5 DEF DMNext
-----------------------------------------------------------------------------
\* The bodies of the action properties.
AckStep ==
    \A m \in MessageIDs :
         /\ dms[m].status = "acked" => dms'[m] = dms[m]
         /\ dms[m].status = "pending_ack" /\ dms'[m].status = "acked" =>
              \E h \in Handlers :
                 /\ dreq[h].pc = "ack" /\ dreq'[h].pc = "idle"
                 /\ dreq[h].user # dms[m].sender
                 /\ IsParticipant(dms[m].conv, dreq[h].user)

ArriveStep ==
    \A m \in MessageIDs : ~Stored(m) /\ Stored(m)' =>
         \A s \in pulled[dms'[m].conv] : s < dms'[m].seq

\* Only two actions write messages.
LEMMA Writers ==
    ASSUME [DMNext]_dmVars
    PROVE  \/ UNCHANGED dms
           \/ \E h \in Handlers :
                \/ \E pc \in {"publish", "refind"} : StoreMessage(h, pc)
                \/ AckMessageTx(h)
<1>1. ASSUME NEW h \in Handlers, Start(h) PROVE UNCHANGED dms
  BY <1>1 DEF Start, CreateConversation, SendMessage, AckMessage
<1>2. ASSUME NEW h \in Handlers, Handle(h)
      PROVE  UNCHANGED dms \/ StoreMessage(h, "publish") \/ AckMessageTx(h)
  BY <1>2 DEF Handle, InsertConversation, LockConversation, InsertMessage,
              InsertConflict, ReplyExisting, Publish, AckRefused
<1>3. ASSUME NEW h \in Handlers, Lose(h)
      PROVE  UNCHANGED dms \/ StoreMessage(h, "refind")
  BY <1>3 DEF Lose, PublishLost, CommitUnconfirmed, FailDM
<1>4. Pull => UNCHANGED dms
  BY DEF Pull, PullNewer, PullOlder
<1>5. QED
  BY <1>1, <1>2, <1>3, <1>4 DEF DMNext, dmVars

\* The row an acknowledgement changes, and the message it is that of.
LEMMA AckedRow ==
    ASSUME DMInv, NEW h \in Handlers, AckMessageTx(h)
    PROVE  \E m \in MessageIDs :
             /\ m = dreq[h].msg /\ Stored(m) /\ dms[m] \in DirectMessage
             /\ dms'[m] = [dms[m] EXCEPT !.status = "acked"]
             /\ \A n \in MessageIDs \ {m} : dms'[n] = dms[n]
             /\ dreq[h].user = dms[m].recipient
             /\ dms[m].sender # dms[m].recipient
             /\ IsParticipant(dms[m].conv, dms[m].recipient)
             /\ dreq'[h].pc = "idle"
<1> DEFINE m == dreq[h].msg
<1>1. m \in MessageIDs /\ Stored(m) /\ DMTypeOK /\ MessageOK(m)
  BY DEF DMInv, ReqOK, AckMessageTx, OneConversationPerPair, TablesOK
<1>2. /\ dms' = [dms EXCEPT ![m] = [dms[m] EXCEPT !.status = "acked"]]
      /\ dreq' = [dreq EXCEPT ![h] = Idle] /\ dms[m].recipient = dreq[h].user
  BY DEF AckMessageTx, Become
<1> HIDE DEF m
<1>3. /\ dms'[m] = [dms[m] EXCEPT !.status = "acked"]
      /\ \A n \in MessageIDs \ {m} : dms'[n] = dms[n]
      /\ dreq'[h].pc = "idle"
  BY <1>1, <1>2, IdleOK DEF DMTypeOK
<1>4. QED
  BY <1>1, <1>2, <1>3 DEF MessageOK, IsParticipant, DMTypeOK, m

\* The one step that changes a status is AckMessage, which has looked at the
\* sender and the participants.
LEMMA AckSteps ==
    ASSUME DMInv, [DMNext]_dmVars
    PROVE  AckStep
<1>1. CASE UNCHANGED dms
  BY <1>1 DEF AckStep
<1>2. ASSUME NEW h \in Handlers, NEW pc \in {"publish", "refind"},
             StoreMessage(h, pc)
      PROVE  AckStep
  <2>1. PICK m \in MessageIDs :
          /\ ~Stored(m) /\ \A n \in MessageIDs \ {m} : dms'[n] = dms[n]
    BY <1>2, StoredRow
  <2>2. QED
    BY <2>1 DEF AckStep, Stored
<1>3. ASSUME NEW h \in Handlers, AckMessageTx(h) PROVE AckStep
  <2>1. PICK m \in MessageIDs :
             /\ m = dreq[h].msg /\ Stored(m) /\ dms[m] \in DirectMessage
             /\ dms'[m] = [dms[m] EXCEPT !.status = "acked"]
             /\ \A n \in MessageIDs \ {m} : dms'[n] = dms[n]
             /\ dreq[h].user = dms[m].recipient
             /\ dms[m].sender # dms[m].recipient
             /\ IsParticipant(dms[m].conv, dms[m].recipient)
             /\ dreq'[h].pc = "idle"
    BY <1>3, AckedRow
  <2>2. dms[m].status = "acked" => dms'[m] = dms[m]
    BY <2>1 DEF DirectMessage
  <2>3. /\ dreq[h].pc = "ack" /\ dreq[h].user # dms[m].sender
        /\ IsParticipant(dms[m].conv, dreq[h].user)
    BY <1>3, <2>1 DEF AckMessageTx
  <2>4. QED
    BY <2>1, <2>2, <2>3 DEF AckStep
<1>4. QED
  BY <1>1, <1>2, <1>3, Writers

\* A message becomes visible with the next number of its conversation, which is
\* above all that was pulled.
LEMMA ArriveSteps ==
    ASSUME DMInv, [DMNext]_dmVars
    PROVE  ArriveStep
<1>1. CASE UNCHANGED dms
  BY <1>1 DEF ArriveStep, Stored
<1>2. ASSUME NEW h \in Handlers, NEW pc \in {"publish", "refind"},
             StoreMessage(h, pc)
      PROVE  ArriveStep
  <2> DEFINE c == dreq[h].conv
  <2>1. PICK m \in MessageIDs :
          /\ \A n \in MessageIDs \ {m} : dms'[n] = dms[n]
          /\ dms'[m].conv = c
          /\ dms'[m].seq = conversations[c].lastSeq + 1
    BY <1>2, StoredRow
  <2>2. c \in ConvIDs /\ conversations[c].lastSeq \in Nat
    BY <1>2 DEF StoreMessage, DMInv, ReqOK, OneConversationPerPair, DMTypeOK,
                Conversation
  <2>3. \A s \in pulled[c] : s \in Nat /\ s <= conversations[c].lastSeq
    BY <2>2 DEF DMInv, PulledOK
  <2> HIDE DEF c
  <2>4. \A s \in pulled[c] : s < dms'[m].seq
    BY <2>1, <2>2, <2>3
  <2>5. QED
    BY <2>1, <2>4 DEF ArriveStep, Stored
<1>3. ASSUME NEW h \in Handlers, AckMessageTx(h) PROVE ArriveStep
  <2>1. PICK m \in MessageIDs :
             Stored(m) /\ \A n \in MessageIDs \ {m} : dms'[n] = dms[n]
    BY <1>3, AckedRow
  <2>2. QED
    BY <2>1 DEF ArriveStep, Stored
<1>4. QED
  BY <1>1, <1>2, <1>3, Writers
-----------------------------------------------------------------------------
(***************************************************************************)
(* The refinement of the abstract log                                      *)
(***************************************************************************)
Length == [c \in ConvIDs |-> conversations[c].lastSeq]
Entries == {Entry(m) : m \in {x \in MessageIDs : Stored(x)}}

\* What a message shows of itself in the abstract log.
LEMMA EntryFields ==
    ASSUME NEW m
    PROVE  /\ Entry(m).conv = dms[m].conv /\ Entry(m).seq = dms[m].seq
           /\ Entry(m).key = <<dms[m].sender, dms[m].client>>
           /\ Entry(m).acked = (dms[m].status = "acked")
  BY DEF Entry

\* Different messages are different entries, since their keys differ.
LEMMA EntriesDiffer ==
    ASSUME DMInv, NEW m \in MessageIDs, NEW n \in MessageIDs,
           Stored(m), Stored(n), Entry(m) = Entry(n)
    PROVE  m = n
<1>1. SameKey(m, n)
  BY EntryFields DEF SameKey
<1>2. QED
  BY <1>1 DEF DMInv, TablesOK, MessagesUnique

\* Only StoreMessage gives a number out; a new conversation starts at 0.
LEMMA NumbersStay ==
    ASSUME DMInv, [DMNext]_dmVars, UNCHANGED dms
    PROVE  \A c \in ConvIDs : conversations'[c].lastSeq = conversations[c].lastSeq
<1>0. DMTypeOK
  BY DEF DMInv, OneConversationPerPair
<1>1. ASSUME NEW h \in Handlers, NEW pc \in {"publish", "refind"},
             StoreMessage(h, pc)
      PROVE  FALSE
  BY <1>1, StoredRow DEF Stored
<1>2. ASSUME NEW h \in Handlers, Start(h) PROVE UNCHANGED conversations
  BY <1>2 DEF Start, CreateConversation, SendMessage, AckMessage
<1>3. ASSUME NEW h \in Handlers, Handle(h)
      PROVE  UNCHANGED conversations \/ InsertConversation(h)
  BY <1>1, <1>3
     DEF Handle, LockConversation, InsertMessage, InsertConflict, ReplyExisting,
         Publish, AckMessageTx, AckRefused
<1>4. ASSUME NEW h \in Handlers, Lose(h) PROVE UNCHANGED conversations
  BY <1>1, <1>4 DEF Lose, PublishLost, CommitUnconfirmed, FailDM
<1>5. Pull => UNCHANGED conversations
  BY DEF Pull, PullNewer, PullOlder
<1>6. \/ UNCHANGED conversations
      \/ \E h \in Handlers : InsertConversation(h)
  BY <1>2, <1>3, <1>4, <1>5 DEF DMNext, dmVars
<1>7. ASSUME NEW h \in Handlers, NEW c \in ConvIDs, conversations[c].pair = {},
             conversations' = [conversations EXCEPT ![c] =
               [pair |-> {dreq[h].user, dreq[h].peer}, lastSeq |-> 0]]
      PROVE  \A d \in ConvIDs : conversations'[d].lastSeq = conversations[d].lastSeq
  <2>1. conversations[c].lastSeq = 0
    BY <1>7 DEF DMInv, TablesOK, ConvOK
  <2>2. QED
    BY <1>0, <1>7, <2>1 DEF DMTypeOK
<1>8. QED
  BY <1>6, <1>7 DEF InsertConversation

\* Empty tables are an empty log.
LEMMA LogInitially == DMInit => Log!LogInit
  BY DEF DMInit, Log!LogInit, Stored, NoDM

\* No new number, no change of a message: a stutter of the log.
LEMMA LogStutters ==
    ASSUME \A c \in ConvIDs : conversations'[c].lastSeq = conversations[c].lastSeq,
           \A m \in MessageIDs : Stored(m)' <=> Stored(m),
           \A m \in MessageIDs : Stored(m) => Entry(m)' = Entry(m)
    PROVE  UNCHANGED <<Length, Entries>>
<1>1. Length' = Length
  BY DEF Length
<1>2. Entries' = Entries
  BY DEF Entries
<1>3. QED
  BY <1>1, <1>2

\* A stored message is appended, under a key that is new to its conversation.
LEMMA LogAppends ==
    ASSUME DMInv, NEW h \in Handlers, NEW pc \in {"publish", "refind"},
           StoreMessage(h, pc)
    PROVE  \E c \in ConvIDs, k \in Keys :
              /\ \A e \in Entries : e.conv = c => e.key # k
              /\ Length' = [Length EXCEPT ![c] = @ + 1]
              /\ Entries' = Entries \cup {[conv |-> c, seq |-> Length[c] + 1,
                                           key |-> k, acked |-> FALSE]}
<1> DEFINE r == dreq[h]
           c == r.conv
           k == <<r.user, r.client>>
<1>1. /\ c \in ConvIDs /\ IsParticipant(c, r.user) /\ r.client \in ClientMsgIDs
      /\ DMTypeOK /\ r.seq = conversations[c].lastSeq + 1
  BY DEF DMInv, ReqOK, StoreMessage, OneConversationPerPair
<1>2. k \in Keys
  BY <1>1 DEF Keys, DMTypeOK, Conversation, IsParticipant
<1>3. PICK m \in MessageIDs :
          /\ ~Stored(m) /\ dms'[m].status = "pending_ack"
          /\ dms'[m].conv = c /\ dms'[m].sender = r.user
          /\ dms'[m].client = r.client
          /\ dms'[m].seq = conversations[c].lastSeq + 1
          /\ \A n \in MessageIDs \ {m} : dms'[n] = dms[n]
  BY StoredRow
<1>4. \A e \in Entries : e.conv = c => e.key # k
  <2>1. ASSUME NEW n \in MessageIDs, Stored(n), dms[n].conv = c
        PROVE  Entry(n).key # k
    <3>1. dms[n].sender # r.user \/ dms[n].client # r.client
      BY <2>1 DEF StoreMessage, FindByClientMsgID
    <3>2. QED
      BY <3>1, EntryFields
  <2> HIDE DEF c, k
  <2>2. QED
    BY <2>1, EntryFields DEF Entries
<1>5. conversations' = [conversations EXCEPT
                          ![c].lastSeq = conversations[c].lastSeq + 1]
  BY <1>1 DEF StoreMessage
<1>6. Length' = [Length EXCEPT ![c] = @ + 1]
  BY <1>1, <1>5 DEF Length, DMTypeOK, Conversation
<1> DEFINE new == [conv |-> c, seq |-> Length[c] + 1, key |-> k, acked |-> FALSE]
<1>7. Entry(m)' = new
  BY <1>1, <1>3 DEF Entry, Length
<1>8. /\ Stored(m)' /\ \A n \in MessageIDs \ {m} : Stored(n)' <=> Stored(n)
      /\ \A n \in MessageIDs \ {m} : Entry(n)' = Entry(n)
  BY <1>3 DEF Stored, Entry
<1> HIDE DEF new
<1>9. Entries' = Entries \cup {new}
  BY <1>3, <1>7, <1>8 DEF Entries
<1>10. QED
  BY <1>1, <1>2, <1>4, <1>6, <1>9 DEF new

\* An EXCEPT on one field of a log entry, written out.
LEMMA Marked ==
    ASSUME NEW e, NEW c, NEW s, NEW k, NEW a, NEW b,
           e = [conv |-> c, seq |-> s, key |-> k, acked |-> a]
    PROVE  [e EXCEPT !.acked = b] =
             [conv |-> c, seq |-> s, key |-> k, acked |-> b]
  OBVIOUS

\* An acknowledgement is one of the log, or repeats one and is invisible.
LEMMA LogAcknowledges ==
    ASSUME DMInv, NEW h \in Handlers, AckMessageTx(h)
    PROVE  \/ UNCHANGED <<Length, Entries>>
           \/ \E e \in Entries :
                /\ ~e.acked
                /\ Entries' = (Entries \ {e}) \cup {[e EXCEPT !.acked = TRUE]}
                /\ UNCHANGED Length
<1>1. PICK m \in MessageIDs :
             /\ Stored(m) /\ dms[m] \in DirectMessage
             /\ dms'[m] = [dms[m] EXCEPT !.status = "acked"]
             /\ \A n \in MessageIDs \ {m} : dms'[n] = dms[n]
  BY AckedRow
<1>2. UNCHANGED conversations
  BY DEF AckMessageTx
<1>3. /\ dms'[m].conv = dms[m].conv /\ dms'[m].seq = dms[m].seq
      /\ dms'[m].sender = dms[m].sender /\ dms'[m].client = dms[m].client
      /\ dms'[m].status = "acked"
  BY <1>1 DEF DirectMessage
<1>4. /\ \A n \in MessageIDs : Stored(n)' <=> Stored(n)
      /\ \A n \in MessageIDs \ {m} : Entry(n)' = Entry(n)
  BY <1>1, <1>3 DEF Stored, Entry
<1>5. Entry(m)' = [Entry(m) EXCEPT !.acked = TRUE]
  <2>1. (dms'[m].status = "acked") = TRUE
    BY <1>3
  <2>2. Entry(m)' = [conv |-> dms[m].conv, seq |-> dms[m].seq,
                     key |-> <<dms[m].sender, dms[m].client>>, acked |-> TRUE]
    BY <1>3, <2>1 DEF Entry
  <2>3. Entry(m) = [conv |-> dms[m].conv, seq |-> dms[m].seq,
                    key |-> <<dms[m].sender, dms[m].client>>,
                    acked |-> dms[m].status = "acked"]
    BY DEF Entry
  <2>4. \A b : [Entry(m) EXCEPT !.acked = b] =
           [conv |-> dms[m].conv, seq |-> dms[m].seq,
            key |-> <<dms[m].sender, dms[m].client>>, acked |-> b]
    <3> DEFINE a == (dms[m].status = "acked")
               k == <<dms[m].sender, dms[m].client>>
    <3>1. Entry(m) = [conv |-> dms[m].conv, seq |-> dms[m].seq, key |-> k,
                      acked |-> a]
      BY <2>3
    <3> HIDE DEF a, k
    <3>2. \A b : [Entry(m) EXCEPT !.acked = b] =
             [conv |-> dms[m].conv, seq |-> dms[m].seq, key |-> k, acked |-> b]
      BY <3>1, Marked
    <3>3. QED
      BY <3>2 DEF k
  <2>5. [Entry(m) EXCEPT !.acked = TRUE] =
          [conv |-> dms[m].conv, seq |-> dms[m].seq,
           key |-> <<dms[m].sender, dms[m].client>>, acked |-> TRUE]
    BY <2>4, Zenon
  <2>6. QED
    BY <2>2, <2>5, Zenon
<1>6. CASE Entry(m).acked
  <2>1. Entry(m)' = Entry(m)
    BY <1>3, <1>6 DEF Entry
  <2>2. QED
    BY <1>2, <1>4, <2>1, LogStutters
<1>7. CASE ~Entry(m).acked
  <2>1. \A n \in MessageIDs \ {m} : Stored(n) => Entry(n) # Entry(m)
    BY <1>1, EntriesDiffer
  <2>2. Entries' = (Entries \ {Entry(m)}) \cup {Entry(m)'}
    BY <1>1, <1>4, <2>1 DEF Entries
  <2>3. Length' = Length
    BY <1>2 DEF Length
  <2>4. Entry(m) \in Entries
    BY <1>1 DEF Entries
  <2>5. QED
    BY <1>5, <1>7, <2>2, <2>3, <2>4
<1>8. QED
  BY <1>6, <1>7

\* Every step of the tables is a step of the log, or a stutter.
LEMMA LogSteps ==
    ASSUME DMInv, [DMNext]_dmVars
    PROVE  [Log!LogNext]_(Log!logVars)
<1> USE DEF Length, Entries
<1>1. ASSUME UNCHANGED <<Length, Entries>> PROVE UNCHANGED Log!logVars
  BY <1>1 DEF Log!logVars
<1>2. ASSUME NEW h \in Handlers, NEW pc \in {"publish", "refind"},
             StoreMessage(h, pc)
      PROVE  Log!LogNext
  BY <1>2, LogAppends DEF Log!LogNext, Log!Append
<1>3. ASSUME NEW h \in Handlers, AckMessageTx(h)
      PROVE  Log!LogNext \/ UNCHANGED Log!logVars
  BY <1>1, <1>3, LogAcknowledges DEF Log!LogNext, Log!Acknowledge
<1>4. CASE UNCHANGED dms
  <2>1. \A c \in ConvIDs : conversations'[c].lastSeq = conversations[c].lastSeq
    BY <1>4, NumbersStay
  <2>2. UNCHANGED <<Length, Entries>>
    BY <1>4, <2>1, LogStutters DEF Stored, Entry
  <2>3. QED
    BY <1>1, <2>2
<1>5. QED
  BY <1>2, <1>3, <1>4, Writers
-----------------------------------------------------------------------------
\* However handlers, retries, crashes and readers interleave, keys and numbers
\* are used once per conversation, and the handlers know what they rely on.
THEOREM StoreSafe == DMSpec => []DMInv
<1>1. DMInv /\ [DMNext]_dmVars => DMInv'
  BY StepDM
<1>2. QED
  BY InitDM, <1>1, PTL DEF DMSpec

\* Two users never have two conversations, however many handlers create them.
THEOREM OneConversation == DMSpec => []OneConversationPerPair
<1>1. DMInv => OneConversationPerPair
  BY DEF DMInv
<1>2. QED
  BY <1>1, StoreSafe, PTL

\* All answers to one key name one stored message, the only one with that key.
THEOREM RepliesIdempotent == DMSpec => []IdempotentReplies
<1>1. ASSUME DMInv PROVE IdempotentReplies
  <2>1. ASSUME NEW x \in replies
        PROVE  FindByClientMsgID(x.conv, x.sender, x.client) = {x.msg}
    <3>1. IsAnswer(x.msg, x.conv, x.sender, x.client)
      BY <1>1 DEF DMInv, RepliesOK
    <3>2. \A m \in FindByClientMsgID(x.conv, x.sender, x.client) : m = x.msg
      BY <1>1, <3>1 DEF DMInv, TablesOK, MessagesUnique, SameKey, IsAnswer,
                        FindByClientMsgID
    <3>3. x.msg \in FindByClientMsgID(x.conv, x.sender, x.client)
      BY <3>1 DEF IsAnswer, FindByClientMsgID
    <3>4. QED
      BY <3>2, <3>3
  <2>2. QED
    BY <2>1 DEF IdempotentReplies
<1>2. QED
  BY <1>1, StoreSafe, PTL

\* Only the recipient's handler acknowledges a message, and once.
THEOREM AcksByRecipient == DMSpec => AckByRecipient
<1>1. DMInv /\ [DMNext]_dmVars =>
        [\A m \in MessageIDs :
           /\ dms[m].status = "acked" => dms'[m] = dms[m]
           /\ dms[m].status = "pending_ack" /\ dms'[m].status = "acked" =>
                \E h \in Handlers :
                   /\ dreq[h].pc = "ack" /\ dreq'[h].pc = "idle"
                   /\ dreq[h].user # dms[m].sender
                   /\ IsParticipant(dms[m].conv, dreq[h].user)]_dmVars
  BY AckSteps DEF AckStep
<1>2. QED
  BY <1>1, StoreSafe, PTL DEF DMSpec, AckByRecipient

\* A message that becomes visible has a larger number than all that any reader
\* of its conversation has pulled.
THEOREM NothingBehind == DMSpec => NothingArrivesBehind
<1>1. DMInv /\ [DMNext]_dmVars =>
        [\A m \in MessageIDs : ~Stored(m) /\ Stored(m)' =>
           \A s \in pulled[dms'[m].conv] : s < dms'[m].seq]_dmVars
  BY ArriveSteps DEF ArriveStep
<1>2. QED
  BY <1>1, StoreSafe, PTL DEF DMSpec, NothingArrivesBehind

\* The tables, seen as a log per conversation, do only what DMLog allows.
THEOREM Refinement == DMSpec => ImplementsLog
<1>1. DMInv /\ [DMNext]_dmVars => [Log!LogNext]_(Log!logVars)
  BY LogSteps
<1>2. QED
  BY <1>1, LogInitially, StoreSafe, PTL DEF DMSpec, ImplementsLog, Log!LogSpec
=============================================================================
