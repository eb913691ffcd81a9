--------------------------- MODULE PublicChannel ---------------------------
(***************************************************************************)
(* A public channel: its owner writes messages and the profile, every      *)
(* write takes the next sequence number and leaves a row in the change     *)
(* log, and subscribers keep a copy of the channel up to date from that    *)
(* log (internal/service/public_channel_service.go,                        *)
(* internal/repo/public_channel_repo.go).                                  *)
(*                                                                         *)
(* One channel is modelled: channels share nothing.  A write is three      *)
(* steps: the checks, the row lock with the read of the channel row, and   *)
(* the commit.  The event a write publishes afterwards goes through        *)
(* Realtime and changes nothing here.  A subscriber's request is one step  *)
(* per statement.  Content is the version of a message.                    *)
(***************************************************************************)
EXTENDS Integers, FiniteSets, FiniteSetsExt

CONSTANTS
    Users,
    Handlers,       \* goroutines serving writes
    Subscribers,    \* sessions of subscribers, each with its copy
    Followers,      \* those that keep a copy; others only report what they saw
    UserOf,         \* the user of each subscriber
    SeenInputs,     \* last_seen_seq values subscribers send
    Limits,         \* page limits subscribers ask for
    PageLimit,      \* publicChannelDefaultPageLimit
    SyncLimit,      \* publicChannelDefaultSyncLimit
    MaxLimit,       \* the largest limit honoured (200)
    MaxWrites,      \* bound on writes
    MaxFailures,    \* bound on failed transactions and lost requests
    Nobody, None

ASSUME PublicChannelAssumption ==
    /\ Followers \subseteq Subscribers
    /\ UserOf \in [Subscribers -> Users]
    /\ SeenInputs \subseteq Int
    /\ Limits \subseteq Int
    /\ PageLimit \in Nat \ {0}
    /\ SyncLimit \in Nat \ {0}
    /\ MaxLimit \in Nat \ {0}
    /\ MaxWrites \in Nat
    /\ MaxFailures \in Nat
    /\ Nobody \notin Handlers \cup Subscribers
    /\ None \notin Users

VARIABLES
    channel,        \* the row of "public_channels"
    messages,       \* rows of "public_channel_messages", by message_id
    changes,        \* rows of "public_channel_changes"
    subscriptions,  \* rows of "public_channel_subscriptions", by user
    lock,           \* who holds the lock on the channel row
    subLock,        \* who holds the lock on each subscription row
    creq,           \* what each handler is doing and remembers
    session,        \* what each subscriber is asking for
    copy,           \* what each subscriber has stored
    writes, failures

pcVars == <<channel, messages, changes, subscriptions, lock, subLock, creq,
            session, copy, writes, failures>>
ownerVars == <<channel, messages, changes, lock, creq, writes>>
readerVars == <<subscriptions, subLock, session, copy>>
-----------------------------------------------------------------------------
(***************************************************************************)
(* Rows                                                                    *)
(***************************************************************************)
MessageIDs == 1 .. MaxWrites

Channel == [owner : Users \cup {None}, profile : Nat, lastMessageID : Nat,
            lastSeq : Nat]

NoChannel == [owner |-> None, profile |-> 0, lastMessageID |-> 0, lastSeq |-> 0]

Exists == channel.owner # None

\* A message that does not exist has version 0.
Message == [version : Nat, seq : Nat, deleted : BOOLEAN]

NoMessage == [version |-> 0, seq |-> 0, deleted |-> FALSE]

Stored(m) == messages[m].version # 0

\* version is that of the message, or of the profile if msg is 0.
Change == [seq : Nat, msg : Nat, version : Nat, deleted : BOOLEAN]

\* last_seen_seq and last_synced_seq.
Subscription == [row : BOOLEAN, seen : Nat, synced : Nat]

NoSubscription == [row |-> FALSE, seen |-> 0, synced |-> 0]

Write == [pc : {"idle", "lock", "commit"},
          op : {"none", "profile", "create", "update", "delete"},
          msg : MessageIDs \cup {0}, row : Channel]

NoWrite == [pc |-> "idle", op |-> "none", msg |-> 0, row |-> NoChannel]

Session == [pc : {"idle", "find", "save", "list", "changes", "apply"},
            head : Channel, seen : Int, found : Subscription,
            limit : Nat, page : SUBSET Change, more : BOOLEAN, next : Int]

NoSession == [pc |-> "idle", head |-> NoChannel, seen |-> 0,
              found |-> NoSubscription, limit |-> 0, page |-> {},
              more |-> FALSE, next |-> 0]

\* oldest is the smallest message id of the pages loaded.
Copy == [joined : BOOLEAN, after : Int, oldest : Nat, profile : Nat,
         held : [MessageIDs -> Nat]]

NoCopy == [joined |-> FALSE, after |-> 0, oldest |-> 1, profile |-> 0,
           held |-> [m \in MessageIDs |-> 0]]

PCInit ==
    /\ channel = NoChannel
    /\ messages = [m \in MessageIDs |-> NoMessage]
    /\ changes = {}
    /\ subscriptions = [u \in Users |-> NoSubscription]
    /\ lock = Nobody
    /\ subLock = [u \in Users |-> Nobody]
    /\ creq = [h \in Handlers |-> NoWrite]
    /\ session = [r \in Subscribers |-> NoSession]
    /\ copy = [r \in Subscribers |-> NoCopy]
    /\ writes = 0
    /\ failures = 0
-----------------------------------------------------------------------------
(***************************************************************************)
(* Writes                                                                  *)
(***************************************************************************)
\* The channel and the owner's subscription, in one transaction.
CreateChannel(u) ==
    /\ ~Exists
    /\ channel' = [NoChannel EXCEPT !.owner = u, !.profile = 1]
    /\ subscriptions' = [subscriptions EXCEPT ![u].row = TRUE]
    /\ UNCHANGED <<messages, changes, lock, subLock, creq, session, copy, writes,
                   failures>>

\* requireOwner.
Accept(h, u, op, m) ==
    /\ creq[h].pc = "idle"
    /\ writes < MaxWrites
    /\ Exists /\ channel.owner = u
    /\ creq' = [creq EXCEPT ![h] = [NoWrite EXCEPT !.pc = "lock", !.op = op,
                                                   !.msg = m]]
    /\ writes' = writes + 1
    /\ UNCHANGED <<channel, messages, changes, lock, readerVars, failures>>

UpdateChannel(h, u) == Accept(h, u, "profile", 0)

CreateMessage(h, u) == Accept(h, u, "create", 0)

UpdateMessage(h, u, m) == Accept(h, u, "update", m)

\* A message that is deleted already is answered without a transaction.
DeleteMessage(h, u, m) ==
    /\ Stored(m) /\ ~messages[m].deleted
    /\ Accept(h, u, "delete", m)

\* Fault: SELECT without FOR UPDATE.
LockChannel_NoLock(h) ==
    /\ creq[h].pc = "lock"
    /\ creq' = [creq EXCEPT ![h].pc = "commit", ![h].row = channel]
    /\ UNCHANGED <<channel, messages, changes, lock, readerVars, writes, failures>>

\* GetByChannelIDForUpdate: the row is locked and read.
LockChannel(h) ==
    /\ creq[h].pc = "lock"
    /\ lock = Nobody
    /\ lock' = h
    /\ creq' = [creq EXCEPT ![h].pc = "commit", ![h].row = channel]
    /\ UNCHANGED <<channel, messages, changes, readerVars, writes, failures>>

Unlocked(h) == IF lock = h THEN Nobody ELSE lock

\* End of the transaction: the whole channel row is saved, with its next
\* sequence number, and change c gets that number.
Commit(h, row, c) ==
    /\ channel' = [row EXCEPT !.lastSeq = @ + 1]
    /\ changes' = changes \cup {[c EXCEPT !.seq = row.lastSeq + 1]}
    /\ lock' = Unlocked(h)
    /\ creq' = [creq EXCEPT ![h] = NoWrite]
    /\ UNCHANGED <<readerVars, writes, failures>>

UpdateChannelTx(h) ==
    LET row == creq[h].row IN
    /\ creq[h].pc = "commit" /\ creq[h].op = "profile"
    /\ Commit(h, [row EXCEPT !.profile = @ + 1],
              [seq |-> 0, msg |-> 0, version |-> row.profile + 1, deleted |-> FALSE])
    /\ UNCHANGED messages

CreateMessageTx(h) ==
    LET row == creq[h].row
        id == row.lastMessageID + 1 IN
    /\ creq[h].pc = "commit" /\ creq[h].op = "create"
    /\ messages' = [messages EXCEPT ![id] = [version |-> 1, seq |-> row.lastSeq + 1,
                                             deleted |-> FALSE]]
    /\ Commit(h, [row EXCEPT !.lastMessageID = id],
              [seq |-> 0, msg |-> id, version |-> 1, deleted |-> FALSE])

\* The row is found under the lock; an update refuses a deleted message, a
\* deletion does not look again.
MayChange(h) ==
    LET m == creq[h].msg IN
    /\ Stored(m)
    /\ creq[h].op = "update" => ~messages[m].deleted

\* Fault: the message keeps the sequence number of its creation.
NewVersion_KeepsSeq(h) ==
    LET old == messages[creq[h].msg] IN
    [version |-> old.version + 1, seq |-> old.seq, deleted |-> creq[h].op = "delete"]

NewVersion(h) ==
    [version |-> messages[creq[h].msg].version + 1, seq |-> creq[h].row.lastSeq + 1,
     deleted |-> creq[h].op = "delete"]

ChangeMessageTx(h) ==
    LET m == creq[h].msg
        new == NewVersion(h) IN
    /\ creq[h].pc = "commit" /\ creq[h].op \in {"update", "delete"}
    /\ MayChange(h)
    /\ messages' = [messages EXCEPT ![m] = new]
    /\ Commit(h, creq[h].row, [seq |-> 0, msg |-> m, version |-> new.version,
                               deleted |-> new.deleted])

Rollback(h) ==
    /\ lock' = Unlocked(h)
    /\ creq' = [creq EXCEPT ![h] = NoWrite]
    /\ UNCHANGED <<channel, messages, changes, readerVars, writes>>

RefuseChange(h) ==
    /\ creq[h].pc = "commit" /\ creq[h].op \in {"update", "delete"}
    /\ ~MayChange(h)
    /\ Rollback(h)
    /\ UNCHANGED failures

\* A statement fails, or the process crashes and the database rolls back.
TxFails(h) ==
    /\ creq[h].pc # "idle"
    /\ failures < MaxFailures
    /\ failures' = failures + 1
    /\ Rollback(h)
-----------------------------------------------------------------------------
(***************************************************************************)
(* SubscribeChannel: the head is read first, then the subscription is      *)
(* written, then the newest messages are read.                             *)
(***************************************************************************)
ClampSeen(n) == IF n < 0 THEN 0 ELSE n

SubscribeChannel(r, n) ==
    /\ session[r].pc = "idle"
    /\ Exists
    /\ session' = [session EXCEPT ![r] = [NoSession EXCEPT
         !.pc = "find", !.head = channel, !.seen = ClampSeen(n)]]
    /\ UNCHANGED <<ownerVars, subscriptions, subLock, copy, failures>>

\* Fault: the subscription is read without FOR UPDATE.
FindSubscription_NoLock(r) ==
    /\ session[r].pc = "find"
    /\ session' = [session EXCEPT ![r].pc = "save",
                                  ![r].found = subscriptions[UserOf[r]]]
    /\ UNCHANGED <<ownerVars, subscriptions, subLock, copy, failures>>

\* UpsertSubscription's SELECT FOR UPDATE: locks the row if there is one.
FindSubscription(r) ==
    LET u == UserOf[r] IN
    /\ session[r].pc = "find"
    /\ subscriptions[u].row => subLock[u] = Nobody
    /\ subLock' = [subLock EXCEPT ![u] = IF subscriptions[u].row THEN r ELSE @]
    /\ session' = [session EXCEPT ![r].pc = "save", ![r].found = subscriptions[u]]
    /\ UNCHANGED <<ownerVars, subscriptions, copy, failures>>

Released(r) == [subLock EXCEPT ![UserOf[r]] = IF @ = r THEN Nobody ELSE @]

\* Neither number goes back.
Advanced(sub, n) ==
    [row |-> TRUE, seen |-> IF n > sub.seen THEN n ELSE sub.seen,
     synced |-> IF n > sub.synced THEN n ELSE sub.synced]

SaveSubscription(r) ==
    LET u == UserOf[r]
        found == session[r].found IN
    /\ session[r].pc = "save"
    /\ found.row \/ ~subscriptions[u].row
    /\ subscriptions' = [subscriptions EXCEPT ![u] =
         IF found.row THEN Advanced(found, session[r].seen)
         ELSE [row |-> TRUE, seen |-> session[r].seen, synced |-> session[r].seen]]
    /\ subLock' = Released(r)
    /\ session' = [session EXCEPT ![r].pc = "list", ![r].found = NoSubscription]
    /\ UNCHANGED <<ownerVars, copy, failures>>

\* Another request inserted the row first: the unique index refuses this one.
SubscriptionConflict(r) ==
    /\ session[r].pc = "save"
    /\ ~session[r].found.row
    /\ subscriptions[UserOf[r]].row
    /\ session' = [session EXCEPT ![r] = NoSession]
    /\ UNCHANGED <<ownerVars, subscriptions, subLock, copy, failures>>

\* ListMessages: the newest messages, or the newest before one.
ListMessages(before, limit) ==
    LET rows == {m \in MessageIDs : Stored(m) /\ (before > 0 => m < before)} IN
    {m \in rows : Cardinality({n \in rows : n >= m}) <= limit}

\* What a copy holds after it has read the messages M.
WithMessages(c, M) ==
    [c EXCEPT !.held = [m \in MessageIDs |-> IF m \in M THEN messages[m].version
                                             ELSE @[m]],
              !.oldest = IF M = {} THEN @ ELSE Min(M \cup {@})]

\* The answer arrives.  A subscriber that has no copy yet starts one here and
\* follows the log from the head's last_seq.
FinishSubscribe(r) ==
    LET M == ListMessages(0, PageLimit)
        head == session[r].head
        fresh == [NoCopy EXCEPT !.joined = TRUE, !.after = head.lastSeq,
                                !.profile = head.profile,
                                !.oldest = IF M = {} THEN 1 ELSE Min(M)] IN
    /\ session[r].pc = "list"
    /\ copy' = [copy EXCEPT ![r] = IF @.joined \/ r \notin Followers THEN @ ELSE WithMessages(fresh, M)]
    /\ session' = [session EXCEPT ![r] = NoSession]
    /\ UNCHANGED <<ownerVars, subscriptions, subLock, failures>>

\* ListChannelMessages with before_message_id.
LoadOlder(r) ==
    /\ session[r].pc = "idle"
    /\ copy[r].joined
    /\ copy' = [copy EXCEPT ![r] =
         WithMessages(@, ListMessages(copy[r].oldest, PageLimit))]
    /\ UNCHANGED <<ownerVars, subscriptions, subLock, session, failures>>
-----------------------------------------------------------------------------
(***************************************************************************)
(* ListChannelChanges: first the channel row, then a page of the log.      *)
(***************************************************************************)
ClampLimit(n) == IF n <= 0 \/ n > MaxLimit THEN SyncLimit ELSE n

ListChannelChanges(r, n) ==
    /\ session[r].pc = "idle"
    /\ copy[r].joined
    /\ session' = [session EXCEPT ![r] = [NoSession EXCEPT
         !.pc = "changes", !.head = channel, !.limit = ClampLimit(n)]]
    /\ UNCHANGED <<ownerVars, subscriptions, subLock, copy, failures>>

\* The first n rows after a sequence number.
FirstAfter(after, n) ==
    LET rows == {c \in changes : c.seq > after} IN
    {c \in rows : Cardinality({d \in rows : d.seq <= c.seq}) <= n}

\* One row more than the page has, to know whether there are more.
ListChanges(after, limit) == FirstAfter(after, limit + 1)

\* Fault: the next number to read instead of the last one read.
NextAfterSeq_OneTooFar(items, after) ==
    IF items = {} THEN after ELSE Max({c.seq : c \in items}) + 1

NextAfterSeq(items, after) == IF items = {} THEN after ELSE Max({c.seq : c \in items})

ReadChanges(r) ==
    LET after == copy[r].after
        limit == session[r].limit
        rows == ListChanges(after, limit)
        items == {c \in rows : Cardinality({d \in rows : d.seq <= c.seq}) <= limit} IN
    /\ session[r].pc = "changes"
    /\ session' = [session EXCEPT ![r].pc = "apply", ![r].page = items,
                     ![r].more = Cardinality(rows) > limit,
                     ![r].next = NextAfterSeq(items, after)]
    /\ UNCHANGED <<ownerVars, subscriptions, subLock, copy, failures>>

\* The subscriber takes the changes in order, and reads the message or the
\* profile each one is about (GetChannelMessage, GetChannelSummary).
ApplyChange(r) ==
    /\ session[r].pc = "apply"
    /\ \E c \in session[r].page :
         /\ \A d \in session[r].page : c.seq <= d.seq
         /\ session' = [session EXCEPT ![r].page = @ \ {c}]
         /\ copy' = [copy EXCEPT ![r] = IF c.msg = 0
                       THEN [@ EXCEPT !.profile = channel.profile]
                       ELSE [@ EXCEPT !.held[c.msg] = messages[c.msg].version]]
    /\ UNCHANGED <<ownerVars, subscriptions, subLock, failures>>

\* Only now is the page behind it.
FinishChanges(r) ==
    /\ session[r].pc = "apply"
    /\ session[r].page = {}
    /\ copy' = [copy EXCEPT ![r].after = session[r].next]
    /\ session' = [session EXCEPT ![r] = NoSession]
    /\ UNCHANGED <<ownerVars, subscriptions, subLock, failures>>

\* A request or its answer is lost, at any point; a transaction rolls back.
RequestLost(r) ==
    /\ session[r].pc # "idle"
    /\ failures < MaxFailures
    /\ failures' = failures + 1
    /\ subLock' = Released(r)
    /\ session' = [session EXCEPT ![r] = NoSession]
    /\ UNCHANGED <<ownerVars, subscriptions, copy>>
-----------------------------------------------------------------------------
WriteRequest(h, u) ==
    \/ UpdateChannel(h, u)
    \/ CreateMessage(h, u)
    \/ \E m \in MessageIDs : UpdateMessage(h, u, m) \/ DeleteMessage(h, u, m)

WriteStep(h) ==
    \/ LockChannel(h)
    \/ UpdateChannelTx(h)
    \/ CreateMessageTx(h)
    \/ ChangeMessageTx(h)
    \/ RefuseChange(h)

Poll(r) == \E n \in Limits : ListChannelChanges(r, n)

SessionStep(r) ==
    \/ FindSubscription(r)
    \/ SaveSubscription(r)
    \/ SubscriptionConflict(r)
    \/ FinishSubscribe(r)
    \/ ReadChanges(r)
    \/ ApplyChange(r)
    \/ FinishChanges(r)

PCNext ==
    \/ \E u \in Users : CreateChannel(u) \/ \E h \in Handlers : WriteRequest(h, u)
    \/ \E h \in Handlers : WriteStep(h) \/ TxFails(h)
    \/ \E r \in Subscribers :
         \/ \E n \in SeenInputs : SubscribeChannel(r, n)
         \/ LoadOlder(r)
         \/ Poll(r)
         \/ SessionStep(r)
         \/ RequestLost(r)

PCSpec == PCInit /\ [][PCNext]_pcVars

\* Requests run to their end, the lock of a subscription is given out in the
\* order it was asked for (it is asked for without end, so WF would not do;
\* writes are finitely many), and a subscriber polls again and again, whatever
\* else it does.
PCFairSpec ==
    /\ PCSpec
    /\ \A h \in Handlers : WF_pcVars(WriteStep(h))
    /\ \A r \in Subscribers : /\ WF_pcVars(SessionStep(r))
                              /\ SF_pcVars(FindSubscription(r))
                              /\ SF_pcVars(Poll(r))
-----------------------------------------------------------------------------
(***************************************************************************)
(* Properties                                                              *)
(***************************************************************************)
\* Rows have the shape their tables give them; sequence numbers stored for a
\* subscriber are never negative.
PCTypeOK ==
    /\ channel \in Channel
    /\ messages \in [MessageIDs -> Message]
    /\ changes \subseteq Change
    /\ subscriptions \in [Users -> Subscription]
    /\ lock \in Handlers \cup {Nobody}
    /\ subLock \in [Users -> Subscribers \cup {Nobody}]
    /\ creq \in [Handlers -> Write]
    /\ session \in [Subscribers -> Session]
    /\ copy \in [Subscribers -> Copy]
    /\ writes \in 0 .. MaxWrites
    /\ failures \in 0 .. MaxFailures

\* Concurrent writes never share or skip a number: the log has exactly the
\* numbers up to the channel's last_seq, each of them once.
ChangesGapFree ==
    /\ {c.seq : c \in changes} = 1 .. channel.lastSeq
    /\ \A c, d \in changes : c.seq = d.seq => c = d

ChangesOf(m) == {c \in changes : c.msg = m}

\* The log tells the whole history: message ids have no gap up to
\* last_message_id, the log has each version of a message once, in order, and
\* the newest one says what the message row says.
LogMatchesMessages ==
    /\ PCTypeOK
    /\ {m \in MessageIDs : Stored(m)} = 1 .. channel.lastMessageID
    /\ \A m \in MessageIDs :
         /\ {c.version : c \in ChangesOf(m)} = 1 .. messages[m].version
         /\ \A c, d \in ChangesOf(m) : c.version < d.version => c.seq < d.seq
         /\ \A c \in ChangesOf(m) : c.version = messages[m].version =>
              c.seq = messages[m].seq /\ c.deleted = messages[m].deleted

\* A deleted message never comes back, although an edit may have been accepted
\* before the deletion.
DeletedStays ==
    [][\A m \in MessageIDs : messages[m].deleted => messages[m]'.deleted]_pcVars

\* The copy has the state of everything it has loaded, and nothing newer than
\* its oldest page is missing.
Current(r) ==
    /\ copy[r].profile = channel.profile
    /\ \A m \in MessageIDs :
         /\ copy[r].held[m] # 0 => copy[r].held[m] = messages[m].version
         /\ Stored(m) /\ m >= copy[r].oldest => copy[r].held[m] # 0

\* A subscriber that has followed the log to the channel's last_seq has missed
\* nothing, whatever was written while it was subscribing or reading pages.
CaughtUp ==
    \A r \in Subscribers :
        copy[r].joined /\ copy[r].after = channel.lastSeq => Current(r)

\* What a user has seen never goes back, though requests of two devices overlap.
SeenNeverBack ==
    [][\A u \in Users : /\ subscriptions[u]'.seen >= subscriptions[u].seen
                        /\ subscriptions[u]'.synced >= subscriptions[u].synced]_pcVars

\* When the owner stops writing, every copy becomes and stays current.
Converges == <>[](\A r \in Subscribers : copy[r].joined => Current(r))
=============================================================================
