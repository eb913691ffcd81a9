----------------------------- MODULE DMService -----------------------------
(***************************************************************************)
(* Direct messages: conversations of two users, idempotent sending, the    *)
(* recipient's acknowledgement, and pulling by sequence number             *)
(* (internal/service/dm_service.go, internal/repo/dm_repo.go).             *)
(*                                                                         *)
(* A handler makes one database call per step.  The transaction of         *)
(* CreateMessage is two steps, with the lock on the conversation row held  *)
(* from the first to the second; that of AckMessage changes one row it has *)
(* locked and is one step.                                                 *)
(***************************************************************************)
EXTENDS Integers, FiniteSets, FiniteSetsExt

CONSTANTS
    Users,          \* registered users
    ConvIDs,        \* the uuids conversations get
    MessageIDs,     \* the uuids messages get
    ClientMsgIDs,   \* idempotency keys clients use
    Handlers,       \* goroutines serving requests
    DMOps,          \* operations clients call in this instance
    Limits,         \* page limits a pulling client asks for
    MaxFailures,    \* bound on crashes and lost calls
    Nobody,         \* "no handler holds the lock"
    None            \* "no conversation", "no message", "no user"

ASSUME DMAssumption ==
    /\ Nobody \notin Handlers
    /\ None \notin Users \cup ConvIDs \cup MessageIDs \cup ClientMsgIDs
    /\ DMOps \subseteq {"CreateConversation", "SendMessage", "AckMessage"}
    /\ Limits \subseteq Int
    /\ MaxFailures \in Nat

VARIABLES
    conversations,  \* rows of "direct_conversations", by conversation_id
    dms,            \* rows of "direct_messages", by message_id
    lock,           \* row locks on conversations
    dreq,           \* what each handler is doing and remembers
    published,      \* messages whose dm.message.created event was published
    replies,        \* what senders have been told: key and message_id
    pulled,         \* sequence numbers the reader of a conversation has
    failures

dmVars == <<conversations, dms, lock, dreq, published, replies, pulled, failures>>
-----------------------------------------------------------------------------
(***************************************************************************)
(* Rows.  The pair of a conversation is the set of its two users, which is *)
(* what userPair's ordering achieves; an unused id has pair {}.            *)
(***************************************************************************)
Conversation == [pair : SUBSET Users, lastSeq : Nat]

Keys == Users \X ClientMsgIDs

DirectMessage == [status : {"none", "pending_ack", "acked"},
                  conv : ConvIDs \cup {None}, sender : Users \cup {None},
                  recipient : Users \cup {None},
                  client : ClientMsgIDs \cup {None}, seq : Nat]

NoDM == [status |-> "none", conv |-> None, sender |-> None, recipient |-> None,
         client |-> None, seq |-> 0]

Stored(m) == dms[m].status # "none"

IsParticipant(c, u) == u \in conversations[c].pair

\* FindByClientMsgID, as the set of the rows it matches.
FindByClientMsgID(c, u, k) ==
    {m \in MessageIDs : /\ Stored(m) /\ dms[m].conv = c
                        /\ dms[m].sender = u /\ dms[m].client = k}

otherUserID(c, u) == CHOOSE v \in conversations[c].pair : v # u

Seqs(c) == {dms[m].seq : m \in {x \in MessageIDs : Stored(x) /\ dms[x].conv = c}}
-----------------------------------------------------------------------------
Request == [pc : {"idle", "create", "lock", "insert", "refind", "publish", "ack"},
            user : Users \cup {None}, peer : Users \cup {None},
            conv : ConvIDs \cup {None}, client : ClientMsgIDs \cup {None},
            msg : MessageIDs \cup {None}, seq : Nat]

Idle == [pc |-> "idle", user |-> None, peer |-> None, conv |-> None,
         client |-> None, msg |-> None, seq |-> 0]

Become(h, r) == dreq' = [dreq EXCEPT ![h] = r]

\* SendMessage returns the view of message m to its caller.
Reply(h, m) ==
    /\ replies' = replies \cup {[conv |-> dreq[h].conv, sender |-> dreq[h].user,
                                 client |-> dreq[h].client, msg |-> m]}
    /\ Become(h, Idle)

DMInit ==
    /\ conversations = [c \in ConvIDs |-> [pair |-> {}, lastSeq |-> 0]]
    /\ dms = [m \in MessageIDs |-> NoDM]
    /\ lock = [c \in ConvIDs |-> Nobody]
    /\ dreq = [h \in Handlers |-> Idle]
    /\ published = {}
    /\ replies = {}
    /\ pulled = [c \in ConvIDs |-> {}]
    /\ failures = 0
-----------------------------------------------------------------------------
(***************************************************************************)
(* Conversations                                                           *)
(***************************************************************************)
PairExists(u, v) == \E c \in ConvIDs : conversations[c].pair = {u, v}

\* The first SELECT of GetOrCreateConversation finds nothing; when it finds
\* the conversation the handler returns it and changes nothing.
CreateConversation(h, u, v) ==
    /\ dreq[h].pc = "idle"
    /\ "CreateConversation" \in DMOps
    /\ u # v
    /\ ~PairExists(u, v)
    /\ Become(h, [Idle EXCEPT !.pc = "create", !.user = u, !.peer = v])
    /\ UNCHANGED <<conversations, dms, lock, published, replies, pulled, failures>>

\* Fault: no unique index on the pair.
InsertConversation_NoIndex(h) ==
    /\ dreq[h].pc = "create"
    /\ \E c \in ConvIDs :
         /\ conversations[c].pair = {}
         /\ conversations' = [conversations EXCEPT ![c] =
                [pair |-> {dreq[h].user, dreq[h].peer}, lastSeq |-> 0]]
    /\ Become(h, Idle)
    /\ UNCHANGED <<dms, lock, published, replies, pulled, failures>>

\* INSERT under idx_direct_conversations_pair; on a conflict the handler
\* selects the row the other one made.
InsertConversation(h) ==
    LET u == dreq[h].user
        v == dreq[h].peer IN
    /\ dreq[h].pc = "create"
    /\ \/ PairExists(u, v) /\ UNCHANGED conversations
       \/ /\ ~PairExists(u, v)
          /\ \E c \in ConvIDs :
               /\ conversations[c].pair = {}
               /\ conversations' = [conversations EXCEPT
                                      ![c] = [pair |-> {u, v}, lastSeq |-> 0]]
    /\ Become(h, Idle)
    /\ UNCHANGED <<dms, lock, published, replies, pulled, failures>>
-----------------------------------------------------------------------------
(***************************************************************************)
(* Sending                                                                 *)
(***************************************************************************)
\* requireParticipant, then the lookup of the idempotency key.
SendMessage(h, u, c, k) ==
    /\ dreq[h].pc = "idle"
    /\ "SendMessage" \in DMOps
    /\ IsParticipant(c, u)
    /\ Become(h, [Idle EXCEPT !.user = u, !.conv = c, !.client = k,
                    !.pc = IF FindByClientMsgID(c, u, k) = {} THEN "lock"
                                                             ELSE "refind"])
    /\ UNCHANGED <<conversations, dms, lock, published, replies, pulled, failures>>

\* Fault: a plain SELECT instead of SELECT ... FOR UPDATE.
LockConversation_NoLock(h) ==
    LET c == dreq[h].conv IN
    /\ dreq[h].pc = "lock"
    /\ dreq' = [dreq EXCEPT ![h].pc = "insert",
                            ![h].seq = conversations[c].lastSeq + 1]
    /\ UNCHANGED <<conversations, dms, lock, published, replies, pulled, failures>>

\* CreateMessage locks the conversation and takes the next sequence number.
LockConversation(h) ==
    LET c == dreq[h].conv IN
    /\ dreq[h].pc = "lock"
    /\ lock[c] = Nobody
    /\ lock' = [lock EXCEPT ![c] = h]
    /\ dreq' = [dreq EXCEPT ![h].pc = "insert",
                            ![h].seq = conversations[c].lastSeq + 1]
    /\ UNCHANGED <<conversations, dms, published, replies, pulled, failures>>

\* Fault: no unique index on the idempotency key.
StoreMessage_NoIndex(h, pc) ==
    LET r == dreq[h] IN
    /\ r.pc = "insert"
    /\ \E m \in MessageIDs :
         /\ ~Stored(m)
         /\ dms' = [dms EXCEPT ![m] =
                      [status |-> "pending_ack", conv |-> r.conv,
                       sender |-> r.user, recipient |-> otherUserID(r.conv, r.user),
                       client |-> r.client, seq |-> r.seq]]
         /\ dreq' = [dreq EXCEPT ![h].pc = pc, ![h].msg = m, ![h].seq = 0]
    /\ conversations' = [conversations EXCEPT ![r.conv].lastSeq = r.seq]
    /\ lock' = [lock EXCEPT ![r.conv] = Nobody]
    /\ UNCHANGED <<published, replies, pulled>>

\* INSERT under idx_direct_messages_idem, UPDATE of the conversation, commit.
StoreMessage(h, pc) ==
    LET r == dreq[h] IN
    /\ r.pc = "insert"
    /\ FindByClientMsgID(r.conv, r.user, r.client) = {}
    /\ \E m \in MessageIDs :
         /\ ~Stored(m)
         /\ dms' = [dms EXCEPT ![m] =
                      [status |-> "pending_ack", conv |-> r.conv,
                       sender |-> r.user, recipient |-> otherUserID(r.conv, r.user),
                       client |-> r.client, seq |-> r.seq]]
         /\ dreq' = [dreq EXCEPT ![h].pc = pc, ![h].msg = m, ![h].seq = 0]
    /\ conversations' = [conversations EXCEPT ![r.conv].lastSeq = r.seq]
    /\ lock' = [lock EXCEPT ![r.conv] = Nobody]
    /\ UNCHANGED <<published, replies, pulled>>

InsertMessage(h) == StoreMessage(h, "publish") /\ UNCHANGED failures

\* The commit happens but its confirmation is lost: CreateMessage reports an
\* error, and the handler looks the key up again.
CommitUnconfirmed(h) ==
    /\ failures < MaxFailures
    /\ failures' = failures + 1
    /\ StoreMessage(h, "refind")

\* Fault: the transaction is left open.
InsertConflict_NoRollback(h) ==
    LET r == dreq[h] IN
    /\ r.pc = "insert"
    /\ FindByClientMsgID(r.conv, r.user, r.client) # {}
    /\ dreq' = [dreq EXCEPT ![h].pc = "refind", ![h].seq = 0]
    /\ UNCHANGED <<conversations, dms, lock, published, replies, pulled, failures>>

\* The key is taken: the transaction rolls back.
InsertConflict(h) ==
    LET r == dreq[h] IN
    /\ r.pc = "insert"
    /\ FindByClientMsgID(r.conv, r.user, r.client) # {}
    /\ dreq' = [dreq EXCEPT ![h].pc = "refind", ![h].seq = 0]
    /\ lock' = [lock EXCEPT ![r.conv] = Nobody]
    /\ UNCHANGED <<conversations, dms, published, replies, pulled, failures>>

\* A repeated send is answered with the stored message, and not published.
ReplyExisting(h) ==
    LET r == dreq[h] IN
    /\ r.pc = "refind"
    /\ \E m \in FindByClientMsgID(r.conv, r.user, r.client) : Reply(h, m)
    /\ UNCHANGED <<conversations, dms, lock, published, pulled, failures>>

Publish(h) ==
    /\ dreq[h].pc = "publish"
    /\ published' = published \cup {dreq[h].msg}
    /\ Reply(h, dreq[h].msg)
    /\ UNCHANGED <<conversations, dms, lock, pulled, failures>>

\* The error of Publish is dropped; the sender is told of success all the same.
PublishLost(h) ==
    /\ dreq[h].pc = "publish"
    /\ failures < MaxFailures
    /\ failures' = failures + 1
    /\ Reply(h, dreq[h].msg)
    /\ UNCHANGED <<conversations, dms, lock, published, pulled>>
-----------------------------------------------------------------------------
(***************************************************************************)
(* Acknowledging                                                           *)
(***************************************************************************)
AckMessage(h, u, m) ==
    /\ dreq[h].pc = "idle"
    /\ "AckMessage" \in DMOps
    /\ Stored(m)
    /\ IsParticipant(dms[m].conv, u)
    /\ Become(h, [Idle EXCEPT !.pc = "ack", !.user = u, !.msg = m])
    /\ UNCHANGED <<conversations, dms, lock, published, replies, pulled, failures>>

\* Fault: either participant may acknowledge.
AckMessageTx_AnyParticipant(h) ==
    /\ dreq[h].pc = "ack"
    /\ dms' = [dms EXCEPT ![dreq[h].msg].status = "acked"]
    /\ Become(h, Idle)
    /\ UNCHANGED <<conversations, lock, published, replies, pulled, failures>>

\* An acknowledged message is left as it is.
AckMessageTx(h) ==
    LET m == dreq[h].msg IN
    /\ dreq[h].pc = "ack"
    /\ dms[m].recipient = dreq[h].user
    /\ dms' = [dms EXCEPT ![m].status = "acked"]
    /\ Become(h, Idle)
    /\ UNCHANGED <<conversations, lock, published, replies, pulled, failures>>

\* An error, a cancelled context or a crash: an open transaction rolls back.
FailDM(h) ==
    /\ dreq[h].pc # "idle"
    /\ failures < MaxFailures
    /\ failures' = failures + 1
    /\ Become(h, Idle)
    /\ lock' = [c \in ConvIDs |-> IF lock[c] = h THEN Nobody ELSE lock[c]]
    /\ UNCHANGED <<conversations, dms, published, replies, pulled>>

\* AckMessage of somebody who is not the recipient is refused.
AckRefused(h) ==
    /\ dreq[h].pc = "ack"
    /\ dms[dreq[h].msg].recipient # dreq[h].user
    /\ Become(h, Idle)
    /\ UNCHANGED <<conversations, dms, lock, published, replies, pulled, failures>>
-----------------------------------------------------------------------------
(***************************************************************************)
(* Pulling.  A page is the set of the sequence numbers in it; the order    *)
(* within a page is ascending either way.                                  *)
(***************************************************************************)
PageSize(limit) == IF limit <= 0 \/ limit > 100 THEN 50 ELSE limit

\* The n smallest / largest members of S.
Lowest(S, n) == {s \in S : Cardinality({t \in S : t < s}) < n}
Highest(S, n) == {s \in S : Cardinality({t \in S : t > s}) < n}

ListMessagesAfter(c, afterSeq, limit) ==
    Lowest({s \in Seqs(c) : s > afterSeq}, PageSize(limit))

ListMessagesBefore(c, beforeSeq, limit) ==
    Highest({s \in Seqs(c) : beforeSeq > 0 => s < beforeSeq}, PageSize(limit))

\* A missing query parameter is 0.
ListMessages(c, beforeSeq, afterSeq, limit) ==
    IF afterSeq > 0 THEN ListMessagesAfter(c, afterSeq, limit)
                    ELSE ListMessagesBefore(c, beforeSeq, limit)

\* The reader asks for what follows the newest message it has ...
PullNewer(c, limit) ==
    LET newest == IF pulled[c] = {} THEN 0 ELSE Max(pulled[c]) IN
    /\ pulled' = [pulled EXCEPT ![c] = @ \cup ListMessages(c, 0, newest, limit)]
    /\ UNCHANGED <<conversations, dms, lock, dreq, published, replies, failures>>

\* ... or for what precedes the oldest.
PullOlder(c, limit) ==
    LET oldest == IF pulled[c] = {} THEN 0 ELSE Min(pulled[c]) IN
    /\ pulled' = [pulled EXCEPT ![c] = @ \cup ListMessages(c, oldest, 0, limit)]
    /\ UNCHANGED <<conversations, dms, lock, dreq, published, replies, failures>>
-----------------------------------------------------------------------------
Handle(h) ==
    \/ InsertConversation(h)
    \/ LockConversation(h)
    \/ InsertMessage(h)
    \/ InsertConflict(h)
    \/ ReplyExisting(h)
    \/ Publish(h)
    \/ AckMessageTx(h)
    \/ AckRefused(h)

Start(h) ==
    \/ \E u, v \in Users : CreateConversation(h, u, v)
    \/ \E u \in Users, c \in ConvIDs, k \in ClientMsgIDs : SendMessage(h, u, c, k)
    \/ \E u \in Users, m \in MessageIDs : AckMessage(h, u, m)

Lose(h) == PublishLost(h) \/ CommitUnconfirmed(h) \/ FailDM(h)

Pull == \E c \in ConvIDs, limit \in Limits : PullNewer(c, limit) \/ PullOlder(c, limit)

DMNext ==
    \/ \E h \in Handlers : Start(h) \/ Handle(h) \/ Lose(h)
    \/ Pull

DMSpec == DMInit /\ [][DMNext]_dmVars

\* A started handler goes on, and a client repeats a send until it is answered.
Answered(u, c, k) ==
    \E x \in replies : x.conv = c /\ x.sender = u /\ x.client = k

Retry(u, c, k) ==
    ~Answered(u, c, k) /\ \E h \in Handlers : SendMessage(h, u, c, k)

DMFairSpec ==
    /\ DMSpec
    /\ \A h \in Handlers : WF_dmVars(Handle(h))
    /\ \A u \in Users, c \in ConvIDs, k \in ClientMsgIDs :
          SF_dmVars(Retry(u, c, k))
-----------------------------------------------------------------------------
(***************************************************************************)
(* Properties                                                              *)
(***************************************************************************)
\* Rows and requests have the shape their Go types give them.
DMTypeOK ==
    /\ conversations \in [ConvIDs -> Conversation]
    /\ dms \in [MessageIDs -> DirectMessage]
    /\ lock \in [ConvIDs -> Handlers \cup {Nobody}]
    /\ dreq \in [Handlers -> Request]
    /\ published \subseteq MessageIDs

\* Two users have one conversation, whichever of them asks first and however
\* their requests overlap.
OneConversationPerPair ==
    /\ DMTypeOK
    /\ \A c, d \in ConvIDs :
          /\ conversations[c].pair # {}
          /\ conversations[c].pair = conversations[d].pair
          => c = d

\* Every answer to a send names the same stored message, however often and
\* through however many handlers the client repeats it.
IdempotentReplies ==
    \A x \in replies :
        /\ FindByClientMsgID(x.conv, x.sender, x.client) = {x.msg}
        /\ \A y \in replies : /\ x.conv = y.conv /\ x.sender = y.sender
                              /\ x.client = y.client
                              => x.msg = y.msg

\* A message is acknowledged only by the participant it was sent to, never by
\* its sender, and stays acknowledged.
AckByRecipient ==
    [][\A m \in MessageIDs :
         /\ dms[m].status = "acked" => dms'[m] = dms[m]
         /\ dms[m].status = "pending_ack" /\ dms'[m].status = "acked" =>
              \E h \in Handlers :
                 /\ dreq[h].pc = "ack" /\ dreq'[h].pc = "idle"
                 /\ dreq[h].user # dms[m].sender
                 /\ IsParticipant(dms[m].conv, dreq[h].user)]_dmVars

\* A message never turns up behind what a reader has pulled: numbers become
\* visible in the order they are given out, so after_seq skips nothing that
\* commits while the reader pulls.
NothingArrivesBehind ==
    [][\A m \in MessageIDs : ~Stored(m) /\ Stored(m)' =>
         \A s \in pulled[dms'[m].conv] : s < dms'[m].seq]_dmVars

\* A send that the client keeps repeating is answered.
SendsAnswered ==
    \A u \in Users, c \in ConvIDs, k \in ClientMsgIDs :
        IsParticipant(c, u) ~> Answered(u, c, k)

\* Every stored message is eventually published to its participants.
PublishedAtLeastOnce ==
    \A m \in MessageIDs : Stored(m) ~> m \in published

\* The conversations as logs: the entry a stored message stands for.
Entry(m) == [conv |-> dms[m].conv, seq |-> dms[m].seq,
             key |-> <<dms[m].sender, dms[m].client>>,
             acked |-> dms[m].status = "acked"]

Log == INSTANCE DMLog WITH
         Convs <- ConvIDs,
         length <- [c \in ConvIDs |-> conversations[c].lastSeq],
         entries <- {Entry(m) : m \in {x \in MessageIDs : Stored(x)}}

\* The tables implement the abstract log: a step of any handler appends one new
\* key at the next position, acknowledges one entry, or is invisible.
ImplementsLog == Log!LogSpec
=============================================================================
