----------------------- MODULE PublicChannel_proofs -----------------------
(***************************************************************************)
(* Proofs about PublicChannel, for any users, subscribers, limits and      *)
(* bounds: what UpsertSubscription guarantees to the devices of a user,    *)
(* what the lock on the channel row guarantees to the owner's writes, that *)
(* the change log is the history of the messages, and that who follows it  *)
(* to its end has missed nothing.                                          *)
(***************************************************************************)
EXTENDS PublicChannel, TLAPS, FiniteSetTheorems, WellFoundedInduction,
        NaturalsInduction

\* Sessions are records with the fields of NoSession, and the position a
\* device reports has been clamped.
SessionShape ==
    /\ DOMAIN session = Subscribers
    /\ \A r \in Subscribers : /\ DOMAIN session[r] = DOMAIN NoSession
                              /\ session[r].seen \in Nat

\* A user without a row has seen nothing.
NoRowNothingSeen ==
    \A u \in Users : ~subscriptions[u].row => /\ subscriptions[u].seen = 0
                                              /\ subscriptions[u].synced = 0

\* Between its SELECT FOR UPDATE and its commit, a request that found a row
\* holds the row's lock, and what it found is still what the row says.
FoundIsCurrent ==
    \A r \in Subscribers :
        session[r].pc = "save" /\ session[r].found.row =>
          /\ subLock[UserOf[r]] = r
          /\ session[r].found = subscriptions[UserOf[r]]

SubInv ==
    /\ SessionShape
    /\ subscriptions \in [Users -> Subscription]
    /\ subLock \in [Users -> Subscribers \cup {Nobody}]
    /\ NoRowNothingSeen
    /\ FoundIsCurrent

\* The first request finds empty tables.
LEMMA SubInit == PCInit => SubInv
  BY PublicChannelAssumption
     DEF PCInit, SubInv, SessionShape, NoRowNothingSeen, FoundIsCurrent,
         NoSession, NoSubscription, Subscription

\* The owner's writes touch nothing of a subscriber.
LEMMA OwnerSteps ==
    ASSUME NEW h \in Handlers,
           WriteStep(h) \/ TxFails(h) \/ \E u \in Users : WriteRequest(h, u)
    PROVE  UNCHANGED readerVars
  BY DEF WriteRequest, WriteStep, TxFails, UpdateChannel, CreateMessage,
         UpdateMessage, DeleteMessage, Accept, LockChannel, UpdateChannelTx,
         CreateMessageTx, ChangeMessageTx, RefuseChange, Commit, Rollback

\* A step that leaves the subscription rows and locks alone, and takes r to a
\* state other than "save", keeps the invariant.
LEMMA SessionMoves ==
    ASSUME SubInv, NEW r \in Subscribers,
           UNCHANGED <<subscriptions, subLock>>,
           DOMAIN session' = Subscribers,
           \A q \in Subscribers \ {r} : session'[q] = session[q],
           DOMAIN session'[r] = DOMAIN NoSession,
           session'[r].seen \in Nat,
           session'[r].pc # "save"
    PROVE  SubInv'
  BY DEF SubInv, SessionShape, NoRowNothingSeen, FoundIsCurrent

\* CreateChannel inserts the owner's row, which nobody can have found.
LEMMA CreateSteps ==
    ASSUME SubInv, NEW u \in Users, CreateChannel(u)
    PROVE  /\ SubInv'
           /\ \A v \in Users : /\ subscriptions'[v].seen = subscriptions[v].seen
                               /\ subscriptions'[v].synced = subscriptions[v].synced
<1>1. /\ subscriptions' = [subscriptions EXCEPT ![u] = [@ EXCEPT !.row = TRUE]]
      /\ UNCHANGED <<subLock, session>>
  BY DEF CreateChannel
<1>2. subscriptions' \in [Users -> Subscription]
  BY <1>1 DEF SubInv, Subscription
<1>3. \A v \in Users : /\ subscriptions'[v].seen = subscriptions[v].seen
                       /\ subscriptions'[v].synced = subscriptions[v].synced
                       /\ subscriptions[v].row => subscriptions'[v] = subscriptions[v]
                       /\ ~subscriptions'[v].row => ~subscriptions[v].row
  BY <1>1 DEF SubInv, Subscription
<1>4. NoRowNothingSeen'
  BY <1>3 DEF SubInv, NoRowNothingSeen
<1>5. FoundIsCurrent'
  <2> SUFFICES ASSUME NEW q \in Subscribers, session[q].pc = "save",
                      session[q].found.row
               PROVE  /\ subLock[UserOf[q]] = q
                      /\ session[q].found = subscriptions'[UserOf[q]]
    BY <1>1 DEF FoundIsCurrent
  <2>1. /\ subLock[UserOf[q]] = q
        /\ session[q].found = subscriptions[UserOf[q]]
    BY DEF SubInv, FoundIsCurrent
  <2>2. UserOf[q] \in Users
    BY PublicChannelAssumption
  <2>3. QED
    BY <2>1, <2>2, <1>3
<1>6. QED
  BY <1>1, <1>2, <1>3, <1>4, <1>5 DEF SubInv, SessionShape

\* SELECT FOR UPDATE: either there is a row and it is locked now, or there is
\* none.
LEMMA FindSteps ==
    ASSUME SubInv, NEW r \in Subscribers, FindSubscription(r)
    PROVE  SubInv' /\ UNCHANGED subscriptions
<1> DEFINE u == UserOf[r]
<1>0. u \in Users
  BY PublicChannelAssumption
<1>1. /\ session' = [session EXCEPT ![r] =
                       [@ EXCEPT !.pc = "save", !.found = subscriptions[u]]]
      /\ subscriptions[u].row => subLock[u] = Nobody
      /\ subLock' = [subLock EXCEPT ![u] = IF subscriptions[u].row THEN r ELSE @]
      /\ UNCHANGED subscriptions
  BY DEF FindSubscription
<1>2. SessionShape'
  BY <1>1 DEF SubInv, SessionShape, NoSession
<1>3. session'[r].found = subscriptions[u]
  BY <1>1 DEF SubInv, SessionShape, NoSession
<1>4. FoundIsCurrent'
  <2> SUFFICES ASSUME NEW q \in Subscribers, session'[q].pc = "save",
                      session'[q].found.row
               PROVE  /\ subLock'[UserOf[q]] = q
                      /\ session'[q].found = subscriptions[UserOf[q]]
    BY <1>1 DEF FoundIsCurrent
  <2>1. CASE q = r
    BY <2>1, <1>0, <1>1, <1>3 DEF SubInv
  <2>2. CASE q # r
    <3>1. session'[q] = session[q]
      BY <2>2, <1>1 DEF SubInv, SessionShape
    <3>2. /\ subLock[UserOf[q]] = q
          /\ session[q].found = subscriptions[UserOf[q]]
          /\ session[q].found.row
      BY <3>1 DEF SubInv, FoundIsCurrent
    <3>3. UserOf[q] # u
      BY <3>2, <1>1, PublicChannelAssumption
    <3>4. QED
      BY <3>1, <3>2, <3>3, <1>1, PublicChannelAssumption DEF SubInv
  <2>3. QED
    BY <2>1, <2>2
<1>5. subLock' \in [Users -> Subscribers \cup {Nobody}]
  BY <1>0, <1>1 DEF SubInv
<1>6. QED
  BY <1>1, <1>2, <1>4, <1>5 DEF SubInv, NoRowNothingSeen

\* The commit of UpsertSubscription: the row advances from what the request
\* found, which is what it says now.
LEMMA SaveSteps ==
    ASSUME SubInv, NEW r \in Subscribers, SaveSubscription(r)
    PROVE  /\ SubInv'
           /\ \A v \in Users : /\ subscriptions'[v].seen >= subscriptions[v].seen
                               /\ subscriptions'[v].synced >= subscriptions[v].synced
<1> DEFINE u == UserOf[r]
           n == session[r].seen
           new == IF session[r].found.row THEN Advanced(session[r].found, n)
                  ELSE [row |-> TRUE, seen |-> n, synced |-> n]
<1>0. u \in Users /\ n \in Nat
  BY PublicChannelAssumption DEF SubInv, SessionShape
<1>1. /\ session[r].pc = "save"
      /\ session[r].found.row \/ ~subscriptions[u].row
      /\ subscriptions' = [subscriptions EXCEPT ![u] = new]
      /\ subLock' = [subLock EXCEPT ![u] = IF @ = r THEN Nobody ELSE @]
      /\ session' = [session EXCEPT ![r] =
                       [@ EXCEPT !.pc = "list", !.found = NoSubscription]]
  BY DEF SaveSubscription, Released
<1>2. /\ new \in Subscription /\ new.row
      /\ new.seen >= subscriptions[u].seen
      /\ new.synced >= subscriptions[u].synced
  <2>1. subscriptions[u] \in Subscription
    BY <1>0 DEF SubInv
  <2>2. CASE session[r].found.row
    <3>1. session[r].found = subscriptions[u]
      BY <1>1, <2>2 DEF SubInv, FoundIsCurrent
    <3>2. QED
      BY <1>0, <2>1, <2>2, <3>1 DEF Advanced, Subscription
  <2>3. CASE ~session[r].found.row
    <3>1. subscriptions[u].seen = 0 /\ subscriptions[u].synced = 0
      BY <1>0, <1>1, <2>3 DEF SubInv, NoRowNothingSeen
    <3>2. QED
      BY <1>0, <2>3, <3>1 DEF Subscription
  <2>4. QED
    BY <2>2, <2>3
<1> HIDE DEF new
<1>3. SessionShape' /\ session'[r].pc = "list"
  BY <1>1 DEF SubInv, SessionShape, NoSession
<1>4. FoundIsCurrent'
  <2> SUFFICES ASSUME NEW q \in Subscribers, session'[q].pc = "save",
                      session'[q].found.row
               PROVE  /\ subLock'[UserOf[q]] = q
                      /\ session'[q].found = subscriptions'[UserOf[q]]
    BY DEF FoundIsCurrent
  <2>1. q # r
    BY <1>3
  <2>2. session'[q] = session[q]
    BY <2>1, <1>1 DEF SubInv, SessionShape
  <2>3. /\ subLock[UserOf[q]] = q
        /\ session[q].found = subscriptions[UserOf[q]]
        /\ session[q].found.row
    BY <2>2 DEF SubInv, FoundIsCurrent
  <2>4. UserOf[q] # u
    BY <1>1, <2>1, <2>3 DEF SubInv, FoundIsCurrent
  <2>5. QED
    BY <2>2, <2>3, <2>4, <1>1, PublicChannelAssumption DEF SubInv
<1>5. /\ subscriptions' \in [Users -> Subscription]
      /\ subLock' \in [Users -> Subscribers \cup {Nobody}]
      /\ NoRowNothingSeen'
  BY <1>0, <1>1, <1>2 DEF SubInv, NoRowNothingSeen
<1>6. \A v \in Users : /\ subscriptions'[v].seen >= subscriptions[v].seen
                       /\ subscriptions'[v].synced >= subscriptions[v].synced
  <2> SUFFICES ASSUME NEW v \in Users
               PROVE  /\ subscriptions'[v].seen >= subscriptions[v].seen
                      /\ subscriptions'[v].synced >= subscriptions[v].synced
    OBVIOUS
  <2>1. CASE v = u
    BY <2>1, <1>0, <1>1, <1>2 DEF SubInv
  <2>2. CASE v # u
    BY <2>2, <1>0, <1>1 DEF SubInv, Subscription
  <2>3. QED
    BY <2>1, <2>2
<1>7. QED
  BY <1>3, <1>4, <1>5, <1>6 DEF SubInv
\* One step of the channel, whatever it is.
LEMMA SubStep ==
    ASSUME SubInv, [PCNext]_pcVars
    PROVE  /\ SubInv'
           /\ \A v \in Users : /\ subscriptions'[v].seen >= subscriptions[v].seen
                               /\ subscriptions'[v].synced >= subscriptions[v].synced
<1> DEFINE Monotone == \A v \in Users :
                          /\ subscriptions'[v].seen >= subscriptions[v].seen
                          /\ subscriptions'[v].synced >= subscriptions[v].synced
<1>0. ASSUME UNCHANGED subscriptions PROVE Monotone
  BY <1>0 DEF SubInv, Subscription
<1>1. ASSUME UNCHANGED readerVars PROVE SubInv' /\ Monotone
  BY <1>0, <1>1 DEF readerVars, SubInv, SessionShape, NoRowNothingSeen,
                    FoundIsCurrent
<1>2. ASSUME NEW u \in Users, CreateChannel(u) PROVE SubInv' /\ Monotone
  BY <1>2, CreateSteps DEF SubInv, Subscription
<1>3. ASSUME NEW r \in Subscribers, NEW n \in SeenInputs, SubscribeChannel(r, n)
      PROVE  SubInv' /\ Monotone
  <2>1. ClampSeen(n) \in Nat
    BY PublicChannelAssumption DEF ClampSeen
  <2> DEFINE s == [NoSession EXCEPT !.pc = "find", !.head = channel,
                                    !.seen = ClampSeen(n)]
  <2>2. DOMAIN s = DOMAIN NoSession /\ s.seen \in Nat /\ s.pc = "find"
    BY <2>1 DEF NoSession
  <2>3. session' = [session EXCEPT ![r] = s] /\ UNCHANGED <<subscriptions, subLock>>
    BY <1>3 DEF SubscribeChannel
  <2> HIDE DEF s
  <2>4. QED
    BY <2>2, <2>3, <1>0, SessionMoves DEF SubInv, SessionShape
<1>4. ASSUME NEW r \in Subscribers, LoadOlder(r) PROVE SubInv' /\ Monotone
  BY <1>4, <1>1 DEF LoadOlder, readerVars, SubInv, SessionShape,
     NoRowNothingSeen, FoundIsCurrent, Subscription
<1>5. ASSUME NEW r \in Subscribers, Poll(r) PROVE SubInv' /\ Monotone
  <2>1. PICK n \in Limits : ListChannelChanges(r, n)
    BY <1>5 DEF Poll
  <2> DEFINE s == [NoSession EXCEPT !.pc = "changes", !.head = channel,
                                    !.limit = ClampLimit(n)]
  <2>2. DOMAIN s = DOMAIN NoSession /\ s.seen \in Nat /\ s.pc = "changes"
    BY DEF NoSession
  <2>3. session' = [session EXCEPT ![r] = s] /\ UNCHANGED <<subscriptions, subLock>>
    BY <2>1 DEF ListChannelChanges
  <2> HIDE DEF s
  <2>4. QED
    BY <2>2, <2>3, <1>0, SessionMoves DEF SubInv, SessionShape
<1>6. ASSUME NEW r \in Subscribers, SessionStep(r) PROVE SubInv' /\ Monotone
  <2>1. NoSession.seen \in Nat /\ NoSession.pc = "idle"
    BY DEF NoSession
  <2>2. CASE FindSubscription(r)
    BY <2>2, <1>0, FindSteps
  <2>3. CASE SaveSubscription(r)
    BY <2>3, SaveSteps
  <2>4. CASE SubscriptionConflict(r) \/ FinishSubscribe(r) \/ FinishChanges(r)
    <3>1. /\ session' = [session EXCEPT ![r] = NoSession]
          /\ UNCHANGED <<subscriptions, subLock>>
      BY <2>4 DEF SubscriptionConflict, FinishSubscribe, FinishChanges
    <3>2. QED
      BY <3>1, <2>1, <1>0, SessionMoves DEF SubInv, SessionShape
  <2>5. CASE ReadChanges(r)
    <3>1. PICK p, m, x : session' = [session EXCEPT ![r] =
                           [@ EXCEPT !.pc = "apply", !.page = p, !.more = m,
                                     !.next = x]]
      BY <2>5 DEF ReadChanges
    <3>2. UNCHANGED <<subscriptions, subLock>>
      BY <2>5 DEF ReadChanges
    <3>3. /\ DOMAIN session' = Subscribers
          /\ \A q \in Subscribers \ {r} : session'[q] = session[q]
          /\ DOMAIN session'[r] = DOMAIN NoSession
          /\ session'[r].seen \in Nat
          /\ session'[r].pc # "save"
      BY <3>1 DEF SubInv, SessionShape, NoSession
    <3>4. QED
      BY <3>2, <3>3, <1>0, SessionMoves
  <2>6. CASE ApplyChange(r)
    <3>1. PICK p : session' = [session EXCEPT ![r] = [@ EXCEPT !.page = p]]
      BY <2>6 DEF ApplyChange
    <3>2. session[r].pc = "apply" /\ UNCHANGED <<subscriptions, subLock>>
      BY <2>6 DEF ApplyChange
    <3>3. /\ DOMAIN session' = Subscribers
          /\ \A q \in Subscribers \ {r} : session'[q] = session[q]
          /\ DOMAIN session'[r] = DOMAIN NoSession
          /\ session'[r].seen \in Nat
          /\ session'[r].pc # "save"
      BY <3>1, <3>2 DEF SubInv, SessionShape, NoSession
    <3>4. QED
      BY <3>2, <3>3, <1>0, SessionMoves
  <2>7. QED
    BY <1>6, <2>2, <2>3, <2>4, <2>5, <2>6 DEF SessionStep
<1>7. ASSUME NEW r \in Subscribers, RequestLost(r) PROVE SubInv' /\ Monotone
  <2>1. /\ session' = [session EXCEPT ![r] = NoSession]
        /\ subLock' = [subLock EXCEPT ![UserOf[r]] = IF @ = r THEN Nobody ELSE @]
        /\ UNCHANGED subscriptions
    BY <1>7 DEF RequestLost, Released
  <2>2. SessionShape'
    BY <2>1 DEF SubInv, SessionShape, NoSession
  <2>3. subLock' \in [Users -> Subscribers \cup {Nobody}]
    BY <2>1 DEF SubInv
  <2>4. FoundIsCurrent'
    <3> SUFFICES ASSUME NEW q \in Subscribers, session'[q].pc = "save",
                        session'[q].found.row
                 PROVE  /\ subLock'[UserOf[q]] = q
                        /\ session'[q].found = subscriptions[UserOf[q]]
      BY <2>1 DEF FoundIsCurrent
    <3>1. q # r
      BY <2>1 DEF SubInv, SessionShape, NoSession
    <3>2. session'[q] = session[q]
      BY <2>1, <3>1 DEF SubInv, SessionShape
    <3>3. /\ subLock[UserOf[q]] = q
          /\ session[q].found = subscriptions[UserOf[q]]
      BY <3>2 DEF SubInv, FoundIsCurrent
    <3>4. UserOf[q] \in Users /\ UserOf[r] \in Users
      BY PublicChannelAssumption
    <3>5. subLock'[UserOf[q]] = q
      BY <2>1, <3>1, <3>3, <3>4 DEF SubInv
    <3>6. QED
      BY <3>2, <3>3, <3>5
  <2>5. QED
    BY <2>1, <2>2, <2>3, <2>4, <1>0 DEF SubInv, NoRowNothingSeen
<1>8. CASE UNCHANGED pcVars
  BY <1>1, <1>8 DEF pcVars, readerVars
<1>9. CASE PCNext
  <2>1. CASE \E u \in Users : CreateChannel(u)
    BY <2>1, <1>2
  <2>2. CASE \E u \in Users, h \in Handlers : WriteRequest(h, u)
    BY <2>2, <1>1, OwnerSteps
  <2>3. CASE \E h \in Handlers : WriteStep(h) \/ TxFails(h)
    BY <2>3, <1>1, OwnerSteps
  <2>4. CASE \E r \in Subscribers :
               \/ \E n \in SeenInputs : SubscribeChannel(r, n)
               \/ LoadOlder(r)
               \/ Poll(r)
               \/ SessionStep(r)
               \/ RequestLost(r)
    BY <2>4, <1>3, <1>4, <1>5, <1>6, <1>7
  <2>5. QED
    BY <1>9, <2>1, <2>2, <2>3, <2>4 DEF PCNext
<1>10. QED
  BY <1>8, <1>9

\* UpsertSubscription never takes last_seen_seq or last_synced_seq back,
\* although devices of one user report different positions at the same time,
\* requests are lost on the way and two of them may insert the first row.
THEOREM SeenMonotone == PCSpec => SeenNeverBack
<1>1. PCInit => SubInv
  BY SubInit
<1>2. SubInv /\ [PCNext]_pcVars => SubInv'
  BY SubStep
<1>3. SubInv /\ [PCNext]_pcVars =>
        [\A u \in Users : /\ subscriptions[u]'.seen >= subscriptions[u].seen
                          /\ subscriptions[u]'.synced >= subscriptions[u].synced]_pcVars
  BY SubStep
<1>4. QED
  BY <1>1, <1>2, <1>3, PTL DEF PCSpec, SeenNeverBack
-----------------------------------------------------------------------------
(***************************************************************************)
(* Writes                                                                  *)
(***************************************************************************)
\* Between SELECT FOR UPDATE and the commit a write holds the lock, and its
\* copy of the channel row is what the row says.
RowIsCurrent ==
    \A h \in Handlers : creq[h].pc = "commit" => lock = h /\ creq[h].row = channel

InUse(m) == Stored(m) \/ messages[m].deleted

\* Message ids are given out by last_message_id.
IDsGivenOut == \A m \in MessageIDs : InUse(m) => m <= channel.lastMessageID

\* A write of one message names it.
MessageNamed ==
    \A h \in Handlers :
       creq[h].op \in {"update", "delete"} => creq[h].msg \in MessageIDs

\* Nobody writes to a channel that does not exist.
WritesNeedChannel ==
    ~Exists => /\ channel.lastMessageID = 0
               /\ channel.lastSeq = 0
               /\ \A h \in Handlers : creq[h].pc = "idle"

OwnerInv ==
    /\ channel \in Channel
    /\ messages \in [MessageIDs -> Message]
    /\ lock \in Handlers \cup {Nobody}
    /\ creq \in [Handlers -> Write]
    /\ RowIsCurrent
    /\ IDsGivenOut
    /\ MessageNamed
    /\ ChangesGapFree
    /\ WritesNeedChannel

Deletions == \A m \in MessageIDs : messages[m].deleted => messages'[m].deleted

\* A handler without a write is well formed.
LEMMA NoWriteOK ==
    /\ NoWrite \in Write /\ NoWrite.pc = "idle" /\ NoWrite.op = "none"
    /\ NoChannel \in Channel
  BY DEF NoWrite, Write, NoChannel, Channel

\* Before the channel is created there is nothing.
LEMMA OwnerInit == PCInit => OwnerInv
  BY NoWriteOK DEF PCInit, OwnerInv, RowIsCurrent, IDsGivenOut, WritesNeedChannel,
     NoMessage, Message, Stored, NoChannel, Exists, ChangesGapFree, InUse,
     MessageNamed

\* Subscribers change nothing of the owner's.
LEMMA ReaderSteps ==
    ASSUME NEW r \in Subscribers,
           \/ \E n \in SeenInputs : SubscribeChannel(r, n)
           \/ LoadOlder(r)
           \/ Poll(r)
           \/ SessionStep(r)
           \/ RequestLost(r)
    PROVE  UNCHANGED ownerVars
  BY DEF SubscribeChannel, LoadOlder, Poll, ListChannelChanges, SessionStep,
         FindSubscription, SaveSubscription, SubscriptionConflict,
         FinishSubscribe, ReadChanges, ApplyChange, FinishChanges, RequestLost

\* CreateChannel: no write can be under way.
LEMMA CreateChannelOK ==
    ASSUME OwnerInv, NEW u \in Users, CreateChannel(u)
    PROVE  OwnerInv' /\ Deletions
<1>1. /\ channel' = [NoChannel EXCEPT !.owner = u, !.profile = 1]
      /\ UNCHANGED <<messages, changes, lock, creq>>
      /\ ~Exists
  BY DEF CreateChannel
<1>2. /\ channel' \in Channel /\ channel'.owner = u
      /\ channel'.lastMessageID = 0 /\ channel'.lastSeq = 0
  BY <1>1 DEF NoChannel, Channel
<1>3. Exists'
  BY <1>2, PublicChannelAssumption DEF Exists
<1>4. RowIsCurrent'
  BY <1>1 DEF OwnerInv, WritesNeedChannel, RowIsCurrent
<1>5. IDsGivenOut'
  BY <1>1, <1>2 DEF OwnerInv, WritesNeedChannel, IDsGivenOut, InUse, Stored
<1>6. ChangesGapFree'
  BY <1>1, <1>2 DEF OwnerInv, WritesNeedChannel, ChangesGapFree
<1>7. QED
  BY <1>1, <1>2, <1>3, <1>4, <1>5, <1>6 DEF OwnerInv, WritesNeedChannel,
     MessageNamed, Deletions

\* requireOwner has found the channel.
LEMMA AcceptOK ==
    ASSUME OwnerInv, NEW h \in Handlers, NEW u \in Users, WriteRequest(h, u)
    PROVE  OwnerInv' /\ Deletions
<1>1. PICK op \in {"profile", "create", "update", "delete"},
           m \in MessageIDs \cup {0} :
             Accept(h, u, op, m) /\ (op \in {"update", "delete"} => m \in MessageIDs)
  BY DEF WriteRequest, UpdateChannel, CreateMessage, UpdateMessage, DeleteMessage
<1> DEFINE w == [NoWrite EXCEPT !.pc = "lock", !.op = op, !.msg = m]
<1>2. w \in Write /\ w.pc = "lock" /\ w.op = op /\ w.msg = m
  BY NoWriteOK DEF NoWrite, Write
<1>3. creq' = [creq EXCEPT ![h] = w] /\ Exists
      /\ UNCHANGED <<channel, messages, changes, lock>>
  BY <1>1 DEF Accept
<1> HIDE DEF w
<1>4. QED
  BY <1>1, <1>2, <1>3 DEF OwnerInv, RowIsCurrent, IDsGivenOut, WritesNeedChannel,
     MessageNamed, ChangesGapFree, InUse, Stored, Exists, Deletions

\* The lock was free, so no write is between its SELECT and its commit.
LEMMA LockOK ==
    ASSUME OwnerInv, NEW h \in Handlers, LockChannel(h)
    PROVE  OwnerInv' /\ Deletions
<1>1. /\ creq[h].pc = "lock" /\ lock = Nobody /\ lock' = h
      /\ creq' = [creq EXCEPT ![h] = [@ EXCEPT !.pc = "commit", !.row = channel]]
      /\ UNCHANGED <<channel, messages, changes>>
  BY DEF LockChannel
<1>2. creq' \in [Handlers -> Write] /\ creq'[h].row = channel
  BY <1>1 DEF OwnerInv, Write
<1>3. \A g \in Handlers \ {h} : creq'[g] = creq[g] /\ creq[g].pc # "commit"
  BY <1>1, PublicChannelAssumption DEF OwnerInv, RowIsCurrent
<1>4. RowIsCurrent'
  BY <1>1, <1>2, <1>3 DEF RowIsCurrent
<1>5. MessageNamed'
  BY <1>1 DEF OwnerInv, MessageNamed, Write
<1>6. QED
  BY <1>1, <1>2, <1>4, <1>5 DEF OwnerInv, IDsGivenOut, ChangesGapFree, InUse,
     WritesNeedChannel, Stored, Exists, Deletions

\* The holder of the lock ends its transaction with a row that is still owned
\* by somebody and has not given ids back; the others are not between their
\* SELECT and their commit.
LEMMA EndOK ==
    ASSUME OwnerInv, NEW h \in Handlers, creq[h].pc = "commit",
           channel' \in Channel, channel'.owner = channel.owner,
           channel'.lastMessageID >= channel.lastMessageID,
           messages' \in [MessageIDs -> Message], IDsGivenOut', ChangesGapFree',
           lock' = Unlocked(h), creq' = [creq EXCEPT ![h] = NoWrite]
    PROVE  OwnerInv'
<1>1. lock = h /\ Exists
  BY DEF OwnerInv, RowIsCurrent, WritesNeedChannel
<1>2. Exists'
  BY <1>1 DEF Exists
<1>3. \A g \in Handlers : creq'[g].pc # "commit"
  BY <1>1, NoWriteOK DEF OwnerInv, RowIsCurrent
<1>4. QED
  BY <1>1, <1>2, <1>3, NoWriteOK DEF OwnerInv, RowIsCurrent, WritesNeedChannel,
     MessageNamed, Unlocked

\* A failed transaction changes no row.
LEMMA RollbackOK ==
    ASSUME OwnerInv, NEW h \in Handlers, Rollback(h)
    PROVE  OwnerInv' /\ Deletions
<1>1. /\ lock' = Unlocked(h) /\ creq' = [creq EXCEPT ![h] = NoWrite]
      /\ UNCHANGED <<channel, messages, changes>>
  BY DEF Rollback
<1>2. \A g \in Handlers : creq'[g].pc = "commit" => g # h /\ creq'[g] = creq[g]
  BY <1>1, NoWriteOK DEF OwnerInv
<1>3. RowIsCurrent'
  BY <1>1, <1>2 DEF OwnerInv, RowIsCurrent, Unlocked
<1>4. lock' \in Handlers \cup {Nobody} /\ creq' \in [Handlers -> Write]
  BY <1>1, NoWriteOK DEF OwnerInv, Unlocked
<1>5. WritesNeedChannel'
  BY <1>1, NoWriteOK DEF OwnerInv, WritesNeedChannel, Exists
<1>6. MessageNamed'
  BY <1>1, NoWriteOK DEF OwnerInv, MessageNamed
<1>7. QED
  BY <1>1, <1>3, <1>4, <1>5, <1>6 DEF OwnerInv, IDsGivenOut, ChangesGapFree, InUse,
     Stored, Deletions

\* Commit, of a row that differs from the current one in the profile or in a
\* larger last_message_id: the log gets the next number.
LEMMA CommitOK ==
    ASSUME OwnerInv, NEW h \in Handlers, creq[h].pc = "commit",
           NEW row \in Channel, row.owner = channel.owner,
           row.lastSeq = channel.lastSeq,
           row.lastMessageID >= channel.lastMessageID,
           NEW c \in Change, Commit(h, row, c),
           messages' \in [MessageIDs -> Message],
           \A m \in MessageIDs : InUse(m)' => m <= row.lastMessageID
    PROVE  OwnerInv'
<1> DEFINE n == channel.lastSeq + 1
           new == [c EXCEPT !.seq = n]
<1>1. channel' = [row EXCEPT !.lastSeq = n] /\ changes' = changes \cup {new}
  BY DEF Commit
<1>2. lock' = Unlocked(h) /\ creq' = [creq EXCEPT ![h] = NoWrite]
  BY DEF Commit
<1>3. channel.lastSeq \in Nat /\ channel.lastMessageID \in Nat
  BY DEF OwnerInv, Channel
<1>4. /\ channel' \in Channel /\ channel'.owner = channel.owner
      /\ channel'.lastMessageID = row.lastMessageID
      /\ channel'.lastSeq = n
  BY <1>1, <1>3 DEF Channel
<1>5. new.seq = n
  BY DEF Change
<1> HIDE DEF new
<1>6. IDsGivenOut'
  BY <1>4 DEF IDsGivenOut
<1>7. ChangesGapFree'
  <2>1. {d.seq : d \in changes'} = {d.seq : d \in changes} \cup {n}
    BY <1>1, <1>5
  <2>2. 1 .. n = (1 .. channel.lastSeq) \cup {n}
    BY <1>3
  <2>3. \A d \in changes : d.seq # n
    BY <1>3 DEF OwnerInv, ChangesGapFree
  <2>4. QED
    BY <1>1, <1>4, <1>5, <2>1, <2>2, <2>3 DEF OwnerInv, ChangesGapFree
<1>8. QED
  BY <1>2, <1>4, <1>6, <1>7, EndOK

\* The three transactions, each under the lock.
LEMMA TransactionsOK ==
    ASSUME OwnerInv, NEW h \in Handlers,
           UpdateChannelTx(h) \/ CreateMessageTx(h) \/ ChangeMessageTx(h)
    PROVE  OwnerInv' /\ Deletions
<1> DEFINE row == creq[h].row
<1>1. creq[h].pc = "commit" /\ row = channel /\ row \in Channel
  BY DEF UpdateChannelTx, CreateMessageTx, ChangeMessageTx, OwnerInv, RowIsCurrent
<1>2. creq[h] \in Write
  BY DEF OwnerInv
<1>3. CASE UpdateChannelTx(h)
  <2> DEFINE up == [row EXCEPT !.profile = @ + 1]
             c == [seq |-> 0, msg |-> 0, version |-> row.profile + 1,
                   deleted |-> FALSE]
  <2>1. /\ up \in Channel /\ up.owner = channel.owner
        /\ up.lastSeq = channel.lastSeq
        /\ up.lastMessageID = channel.lastMessageID
        /\ channel.lastMessageID \in Nat
    BY <1>1 DEF Channel
  <2>2. c \in Change
    BY <1>1 DEF Channel, Change
  <2>3. Commit(h, up, c) /\ UNCHANGED messages
    BY <1>3 DEF UpdateChannelTx
  <2> HIDE DEF up, c
  <2>4. messages' \in [MessageIDs -> Message]
    BY <2>3 DEF OwnerInv
  <2>5. \A m \in MessageIDs : InUse(m)' => m <= up.lastMessageID
    BY <2>1, <2>3 DEF OwnerInv, IDsGivenOut, InUse, Stored
  <2>6. OwnerInv'
    BY <1>1, <2>1, <2>2, <2>3, <2>4, <2>5, CommitOK
  <2>7. QED
    BY <2>3, <2>6 DEF Deletions
<1>4. CASE CreateMessageTx(h)
  <2> DEFINE id == row.lastMessageID + 1
             up == [row EXCEPT !.lastMessageID = id]
             new == [version |-> 1, seq |-> row.lastSeq + 1, deleted |-> FALSE]
             c == [seq |-> 0, msg |-> id, version |-> 1, deleted |-> FALSE]
  <2>1. /\ up \in Channel /\ up.owner = channel.owner
        /\ up.lastSeq = channel.lastSeq
        /\ up.lastMessageID = id
        /\ id = channel.lastMessageID + 1
        /\ channel.lastMessageID \in Nat
    BY <1>1 DEF Channel
  <2>2. c \in Change /\ new \in Message
    BY <1>1 DEF Channel, Change, Message
  <2>3. Commit(h, up, c) /\ messages' = [messages EXCEPT ![id] = new]
    BY <1>4 DEF CreateMessageTx
  <2> HIDE DEF up, c, new, id
  <2>4. messages' \in [MessageIDs -> Message]
    BY <2>2, <2>3 DEF OwnerInv
  <2>5. \A m \in MessageIDs : m # id => messages'[m] = messages[m]
    BY <2>3 DEF OwnerInv
  <2>6. \A m \in MessageIDs : InUse(m) => m <= channel.lastMessageID
    BY DEF OwnerInv, IDsGivenOut
  <2>7. \A m \in MessageIDs : InUse(m)' => m <= up.lastMessageID
    BY <2>1, <2>5, <2>6 DEF InUse, Stored, MessageIDs
  <2>8. OwnerInv'
    BY <1>1, <2>1, <2>2, <2>3, <2>4, <2>7, CommitOK
  <2>9. id \in MessageIDs => ~messages[id].deleted
    BY <2>1, <2>6 DEF InUse
  <2>10. QED
    BY <2>5, <2>8, <2>9 DEF Deletions
<1>5. CASE ChangeMessageTx(h)
  <2> DEFINE m == creq[h].msg
             new == NewVersion(h)
             c == [seq |-> 0, msg |-> m, version |-> new.version,
                   deleted |-> new.deleted]
  <2>1. /\ m \in MessageIDs
        /\ Stored(m)
        /\ creq[h].op = "update" => ~messages[m].deleted
        /\ creq[h].op \in {"update", "delete"}
    BY <1>5 DEF ChangeMessageTx, MayChange, MessageNamed, OwnerInv
  <2>2. new \in Message /\ new.deleted = (creq[h].op = "delete")
    BY <1>1, <2>1 DEF NewVersion, Channel, Message, OwnerInv
  <2>3. Commit(h, channel, c) /\ messages' = [messages EXCEPT ![m] = new]
    BY <1>1, <1>5 DEF ChangeMessageTx
  <2>4. c \in Change
    BY <2>1, <2>2 DEF Change, Message, MessageIDs
  <2> HIDE DEF new, c
  <2>5. messages' \in [MessageIDs -> Message]
    BY <2>2, <2>3 DEF OwnerInv
  <2>6. \A k \in MessageIDs : InUse(k)' => k <= channel.lastMessageID
    BY <2>1, <2>3 DEF OwnerInv, IDsGivenOut, InUse, Stored
  <2>7. channel \in Channel /\ channel.lastMessageID \in Nat
    BY DEF OwnerInv, Channel
  <2>8. OwnerInv'
    BY <1>1, <2>3, <2>4, <2>5, <2>6, <2>7, CommitOK
  <2>9. Deletions
    BY <2>1, <2>2, <2>3 DEF OwnerInv, Deletions
  <2>10. QED
    BY <2>8, <2>9
<1>6. QED
  BY <1>3, <1>4, <1>5

\* One step of the channel, whatever it is.
LEMMA OwnerStep == ASSUME OwnerInv, [PCNext]_pcVars PROVE OwnerInv' /\ Deletions
<1>1. ASSUME UNCHANGED ownerVars PROVE OwnerInv' /\ Deletions
  BY <1>1 DEF ownerVars, OwnerInv, RowIsCurrent, IDsGivenOut, MessageNamed,
     ChangesGapFree, WritesNeedChannel, InUse, Stored, Exists, Deletions
<1>2. CASE UNCHANGED pcVars
  BY <1>1, <1>2 DEF pcVars, ownerVars
<1>3. CASE \E u \in Users : CreateChannel(u) \/ \E h \in Handlers : WriteRequest(h, u)
  BY <1>3, CreateChannelOK, AcceptOK
<1>4. CASE \E h \in Handlers : WriteStep(h) \/ TxFails(h)
  BY <1>4, LockOK, TransactionsOK, RollbackOK DEF WriteStep, RefuseChange, TxFails
<1>5. CASE \E r \in Subscribers :
             \/ \E n \in SeenInputs : SubscribeChannel(r, n)
             \/ LoadOlder(r)
             \/ Poll(r)
             \/ SessionStep(r)
             \/ RequestLost(r)
  BY <1>1, <1>5, ReaderSteps
<1>6. QED
  BY <1>2, <1>3, <1>4, <1>5 DEF PCNext

\* Concurrent writes of the owner never share or skip a number of the change
\* log, for any number of handlers and failing transactions.
THEOREM LogGapFree == PCSpec => []ChangesGapFree
<1>1. PCInit => OwnerInv
  BY OwnerInit
<1>2. OwnerInv /\ [PCNext]_pcVars => OwnerInv'
  BY OwnerStep
<1>3. OwnerInv => ChangesGapFree
  BY DEF OwnerInv
<1>4. QED
  BY <1>1, <1>2, <1>3, PTL DEF PCSpec

\* A deleted message stays deleted, whatever edit was accepted before the
\* deletion, and its id is never given to another message.
THEOREM DeletionStays == PCSpec => DeletedStays
<1>1. PCInit => OwnerInv
  BY OwnerInit
<1>2. OwnerInv /\ [PCNext]_pcVars => OwnerInv'
  BY OwnerStep
<1>3. OwnerInv /\ [PCNext]_pcVars =>
        [\A m \in MessageIDs : messages[m].deleted => messages[m]'.deleted]_pcVars
  BY OwnerStep DEF Deletions
<1>4. QED
  BY <1>1, <1>2, <1>3, PTL DEF PCSpec, DeletedStays
-----------------------------------------------------------------------------
(***************************************************************************)
(* The log and the message rows.                                           *)
(***************************************************************************)
\* Writes that have been accepted and not ended; each may create a message.
UnderWay == {h \in Handlers : creq[h].pc # "idle"}

\* Every message took a write, and so will every one under way: ids stay within
\* the bound on writes.
WritesCounted ==
    /\ IsFiniteSet(UnderWay)
    /\ channel.lastMessageID + Cardinality(UnderWay) <= writes

StoredIDs == {m \in MessageIDs : Stored(m)} = 1 .. channel.lastMessageID

\* What the log says of message m.
HistoryOf(m) ==
    /\ {c.version : c \in ChangesOf(m)} = 1 .. messages[m].version
    /\ \A c, d \in ChangesOf(m) : c.version < d.version => c.seq < d.seq
    /\ \A c \in ChangesOf(m) : c.version = messages[m].version =>
         c.seq = messages[m].seq /\ c.deleted = messages[m].deleted

HistoryInv ==
    /\ changes \subseteq Change
    /\ IsFiniteSet(changes)
    /\ writes \in 0 .. MaxWrites
    /\ failures \in 0 .. MaxFailures
    /\ WritesCounted
    /\ StoredIDs
    /\ \A m \in MessageIDs : HistoryOf(m)
-----------------------------------------------------------------------------
(***************************************************************************)
(* The copies of followers.  Object 0 is the profile, the others are the   *)
(* messages.                                                               *)
(***************************************************************************)
Objects == MessageIDs \cup {0}

Latest(x) == IF x = 0 THEN channel.profile ELSE messages[x].version

Has(r, x) == IF x = 0 THEN copy[r].profile ELSE copy[r].held[x]

Wants(r, x) ==
    x = 0 \/ copy[r].held[x] # 0 \/ (Stored(x) /\ x >= copy[r].oldest)

Tells(c, x) == c.msg = x /\ c.version = Latest(x)

\* Of all that copy r lacks, the log tells after number n or in the changes S.
WillLearn(r, n, S) ==
    \A x \in Objects :
        Wants(r, x) /\ Has(r, x) # Latest(x) =>
          \E c \in changes : Tells(c, x) /\ (c.seq > n \/ c \in S)

CopyOK(r) ==
    copy[r].joined =>
      /\ copy[r].oldest >= 1
      /\ copy[r].after <= channel.lastSeq
      /\ WillLearn(r, copy[r].after, {})

\* A page: what it has passed has been applied, or waits in it.
PageOK(r) ==
    copy[r].joined /\ session[r].pc = "apply" =>
      /\ session[r].next <= channel.lastSeq
      /\ WillLearn(r, session[r].next, session[r].page)

\* The head a subscription started from is behind by what the log tells later.
HeadOK(r) ==
    session[r].pc \in {"find", "save", "list"} =>
      /\ session[r].head.lastSeq <= channel.lastSeq
      /\ session[r].head.profile # channel.profile =>
           \E c \in changes : Tells(c, 0) /\ c.seq > session[r].head.lastSeq

NoChannelNoCopy ==
    ~Exists => \A r \in Subscribers :
                  /\ ~copy[r].joined
                  /\ session[r].pc \notin {"find", "save", "list"}

CopyInv ==
    /\ session \in [Subscribers -> Session]
    /\ copy \in [Subscribers -> Copy]
    /\ \A r \in Subscribers : CopyOK(r) /\ PageOK(r) /\ HeadOK(r)
    /\ NoChannelNoCopy
-----------------------------------------------------------------------------
\* Empty tables have an empty history.
LEMMA HistoryInit == PCInit => HistoryInv
<1> SUFFICES ASSUME PCInit PROVE HistoryInv
  OBVIOUS
<1>1. UnderWay = {}
  BY NoWriteOK DEF PCInit, UnderWay
<1>2. /\ channel.lastMessageID = 0 /\ changes = {} /\ writes = 0 /\ failures = 0
      /\ \A m \in MessageIDs : messages[m].version = 0
  BY DEF PCInit, NoChannel, NoMessage
<1>3. WritesCounted
  BY <1>1, <1>2, FS_EmptySet DEF WritesCounted
<1>4. StoredIDs
  BY <1>2 DEF StoredIDs, Stored
<1>5. \A m \in MessageIDs : HistoryOf(m)
  BY <1>2 DEF HistoryOf, ChangesOf
<1>6. QED
  BY <1>2, <1>3, <1>4, <1>5, FS_EmptySet, PublicChannelAssumption DEF HistoryInv

\* The end of write h frees its place among those under way.
LEMMA WriteEnds ==
    ASSUME OwnerInv, HistoryInv, NEW h \in Handlers, creq[h].pc # "idle",
           creq' = [creq EXCEPT ![h] = NoWrite]
    PROVE  /\ IsFiniteSet(UnderWay') /\ Cardinality(UnderWay') \in Nat
           /\ Cardinality(UnderWay) = Cardinality(UnderWay') + 1
<1>1. UnderWay' = UnderWay \ {h} /\ h \in UnderWay
  BY NoWriteOK DEF UnderWay, OwnerInv
<1>2. IsFiniteSet(UnderWay)
  BY DEF HistoryInv, WritesCounted
<1>3. /\ IsFiniteSet(UnderWay \ {h})
      /\ Cardinality(UnderWay \ {h}) = Cardinality(UnderWay) - 1
  BY <1>1, <1>2, FS_RemoveElement
<1>4. Cardinality(UnderWay) \in Nat /\ Cardinality(UnderWay \ {h}) \in Nat
  BY <1>2, <1>3, FS_CardinalityType
<1>5. QED
  BY <1>1, <1>3, <1>4

\* A commit that writes object c.msg and nothing else.
LEMMA HistoryCommit ==
    ASSUME OwnerInv, HistoryInv, NEW h \in Handlers, creq[h].pc = "commit",
           NEW row \in Channel, row.lastSeq = channel.lastSeq,
           NEW c \in Change, Commit(h, row, c),
           row.lastMessageID \in {channel.lastMessageID, channel.lastMessageID + 1},
           row.lastMessageID # channel.lastMessageID => row.lastMessageID = c.msg,
           row.lastMessageID = channel.lastMessageID => c.msg \in 0 .. row.lastMessageID,
           messages' \in [MessageIDs -> Message],
           \A m \in MessageIDs :
              IF m = c.msg
              THEN /\ c.version = messages[m].version + 1
                   /\ messages'[m] = [version |-> c.version, seq |-> channel.lastSeq + 1,
                                      deleted |-> c.deleted]
              ELSE messages'[m] = messages[m]
    PROVE  HistoryInv'
<1> DEFINE n == channel.lastSeq + 1
           new == [c EXCEPT !.seq = n]
<1>1. /\ channel' = [row EXCEPT !.lastSeq = n] /\ changes' = changes \cup {new}
      /\ creq' = [creq EXCEPT ![h] = NoWrite] /\ UNCHANGED <<writes, failures>>
  BY DEF Commit
<1>2. /\ channel.lastSeq \in Nat /\ channel.lastMessageID \in Nat
      /\ channel'.lastMessageID = row.lastMessageID
      /\ messages \in [MessageIDs -> Message]
  BY <1>1 DEF OwnerInv, Channel
<1>3. /\ new \in Change /\ new.seq = n /\ new.msg = c.msg
      /\ new.version = c.version /\ new.deleted = c.deleted
  BY <1>2 DEF Change
<1> HIDE DEF new
<1>4. /\ changes' \subseteq Change /\ IsFiniteSet(changes')
      /\ writes' \in 0 .. MaxWrites /\ failures' \in 0 .. MaxFailures
  BY <1>1, <1>3, FS_AddElement DEF HistoryInv
<1>5. /\ channel.lastMessageID + Cardinality(UnderWay) <= writes
      /\ writes \in 0 .. MaxWrites /\ IsFiniteSet(UnderWay') /\ Cardinality(UnderWay') \in Nat
      /\ Cardinality(UnderWay) = Cardinality(UnderWay') + 1
  BY <1>1, WriteEnds DEF HistoryInv, WritesCounted
<1>6. WritesCounted'
  BY <1>1, <1>2, <1>5 DEF WritesCounted
<1>7. row.lastMessageID \in 0 .. MaxWrites
  BY <1>2, <1>5, PublicChannelAssumption
<1>8. StoredIDs'
  <2>1. \A m \in MessageIDs : Stored(m) <=> m \in 1 .. channel.lastMessageID
    BY DEF HistoryInv, StoredIDs
  <2>2. \A m \in MessageIDs : messages[m].version \in Nat
    BY <1>2 DEF Message
  <2>3. \A m \in MessageIDs : Stored(m)' <=> Stored(m) \/ m = c.msg
    BY <2>2 DEF Stored
  <2>4. \A m \in MessageIDs : Stored(m)' <=> m \in 1 .. row.lastMessageID
    BY <1>2, <2>1, <2>3 DEF MessageIDs
  <2>5. 1 .. row.lastMessageID \subseteq MessageIDs
    BY <1>7, PublicChannelAssumption DEF MessageIDs
  <2>6. QED
    BY <1>2, <2>4, <2>5 DEF StoredIDs
<1>9. ASSUME NEW m \in MessageIDs PROVE HistoryOf(m)'
  <2>0. HistoryOf(m) /\ messages[m].version \in Nat
    BY <1>2 DEF HistoryInv, Message
  <2>1. CASE m # c.msg
    <3>1. ChangesOf(m)' = ChangesOf(m) /\ messages'[m] = messages[m]
      BY <1>1, <1>3, <2>1 DEF ChangesOf
    <3>2. QED
      BY <2>0, <3>1 DEF HistoryOf
  <2>2. CASE m = c.msg
    <3>1. ChangesOf(m)' = ChangesOf(m) \cup {new}
      BY <1>1, <1>3, <2>2 DEF ChangesOf
    <3>2. /\ messages'[m].version = messages[m].version + 1
          /\ messages'[m].seq = n /\ messages'[m].deleted = c.deleted
          /\ new.version = messages[m].version + 1
      BY <1>3, <2>2
    <3>3. \A d \in ChangesOf(m) : /\ d.version \in 1 .. messages[m].version
                                  /\ d.seq < n
      <4>1. \A d \in changes : d.seq \in 1 .. channel.lastSeq
        BY DEF OwnerInv, ChangesGapFree
      <4>2. QED
        BY <1>2, <2>0, <4>1 DEF HistoryOf, ChangesOf
    <3>4. {d.version : d \in ChangesOf(m)'} = 1 .. messages'[m].version
      <4>1. {d.version : d \in ChangesOf(m)'}
              = {d.version : d \in ChangesOf(m)} \cup {messages[m].version + 1}
        BY <3>1, <3>2
      <4>2. 1 .. messages[m].version + 1
              = (1 .. messages[m].version) \cup {messages[m].version + 1}
        BY <2>0
      <4>3. QED
        BY <2>0, <3>2, <4>1, <4>2 DEF HistoryOf
    <3>5. \A d, e \in ChangesOf(m)' : d.version < e.version => d.seq < e.seq
      <4>1. \A d \in ChangesOf(m) : ~(messages[m].version + 1 < d.version)
        BY <2>0, <3>3
      <4>2. QED
        BY <1>2, <1>3, <2>0, <3>1, <3>2, <3>3, <4>1 DEF HistoryOf
    <3>6. \A d \in ChangesOf(m)' : d.version = messages'[m].version =>
            d.seq = messages'[m].seq /\ d.deleted = messages'[m].deleted
      BY <1>3, <2>0, <3>1, <3>2, <3>3
    <3>7. QED
      BY <3>4, <3>5, <3>6 DEF HistoryOf
  <2>3. QED
    BY <2>1, <2>2
<1>10. QED
  BY <1>4, <1>6, <1>8, <1>9 DEF HistoryInv

\* The three transactions write a message as HistoryCommit says.
LEMMA HistoryTransactions ==
    ASSUME OwnerInv, HistoryInv, NEW h \in Handlers,
           UpdateChannelTx(h) \/ CreateMessageTx(h) \/ ChangeMessageTx(h)
    PROVE  HistoryInv'
<1> DEFINE row == creq[h].row
<1>1. /\ creq[h].pc = "commit" /\ row = channel /\ row \in Channel /\ creq[h] \in Write
      /\ channel.lastSeq \in Nat /\ channel.lastMessageID \in Nat
      /\ channel.profile \in Nat
  BY DEF UpdateChannelTx, CreateMessageTx, ChangeMessageTx, OwnerInv, RowIsCurrent,
         Channel
<1>2. /\ messages \in [MessageIDs -> Message] /\ messages' \in [MessageIDs -> Message]
  BY TransactionsOK DEF OwnerInv
<1>3. \A m \in MessageIDs : Stored(m) <=> m \in 1 .. channel.lastMessageID
  BY DEF HistoryInv, StoredIDs
<1>4. CASE UpdateChannelTx(h)
  <2> DEFINE up == [row EXCEPT !.profile = @ + 1]
             c == [seq |-> 0, msg |-> 0, version |-> row.profile + 1,
                   deleted |-> FALSE]
  <2>1. /\ up \in Channel /\ up.lastSeq = channel.lastSeq
        /\ up.lastMessageID = channel.lastMessageID
    BY <1>1 DEF Channel
  <2>2. c \in Change /\ c.msg = 0
    BY <1>1 DEF Change
  <2>3. Commit(h, up, c) /\ UNCHANGED messages
    BY <1>4 DEF UpdateChannelTx
  <2>4. 0 \notin MessageIDs /\ 0 \in 0 .. channel.lastMessageID
    BY <1>1 DEF MessageIDs
  <2> HIDE DEF up, c
  <2>5. QED
    BY <1>1, <1>2, <2>1, <2>2, <2>3, <2>4, HistoryCommit
<1>5. CASE CreateMessageTx(h)
  <2> DEFINE id == row.lastMessageID + 1
             up == [row EXCEPT !.lastMessageID = id]
             new == [version |-> 1, seq |-> row.lastSeq + 1, deleted |-> FALSE]
             c == [seq |-> 0, msg |-> id, version |-> 1, deleted |-> FALSE]
  <2>1. /\ up \in Channel /\ up.lastSeq = channel.lastSeq
        /\ up.lastMessageID = id /\ id = channel.lastMessageID + 1
    BY <1>1 DEF Channel
  <2>2. c \in Change /\ c.msg = id /\ c.version = 1 /\ c.deleted = FALSE
    BY <1>1 DEF Change
  <2>3. Commit(h, up, c) /\ messages' = [messages EXCEPT ![id] = new]
    BY <1>5 DEF CreateMessageTx
  <2>4. new = [version |-> c.version, seq |-> channel.lastSeq + 1,
               deleted |-> c.deleted]
    BY <1>1
  <2> HIDE DEF up, c, new, id
  <2>5. id \in MessageIDs => messages[id].version = 0
    BY <1>1, <1>3, <2>1 DEF Stored
  <2>6. ASSUME NEW m \in MessageIDs
        PROVE  IF m = c.msg
               THEN /\ c.version = messages[m].version + 1
                    /\ messages'[m] = [version |-> c.version,
                                       seq |-> channel.lastSeq + 1,
                                       deleted |-> c.deleted]
               ELSE messages'[m] = messages[m]
    BY <1>2, <2>2, <2>3, <2>4, <2>5
  <2>7. up.lastMessageID # channel.lastMessageID
    BY <1>1, <2>1
  <2>8. QED
    BY <1>1, <1>2, <2>1, <2>2, <2>3, <2>6, <2>7, HistoryCommit
<1>6. CASE ChangeMessageTx(h)
  <2> DEFINE m0 == creq[h].msg
             new == NewVersion(h)
             c == [seq |-> 0, msg |-> m0, version |-> new.version,
                   deleted |-> new.deleted]
  <2>1. m0 \in MessageIDs /\ Stored(m0)
    BY <1>6 DEF ChangeMessageTx, MayChange, MessageNamed, OwnerInv
  <2>2. /\ new = [version |-> messages[m0].version + 1, seq |-> channel.lastSeq + 1,
                  deleted |-> new.deleted]
        /\ new.version = messages[m0].version + 1 /\ new.deleted \in BOOLEAN
        /\ new.version \in Nat
    BY <1>1, <1>2, <2>1 DEF NewVersion, Message
  <2>3. Commit(h, channel, c) /\ messages' = [messages EXCEPT ![m0] = new]
    BY <1>1, <1>6 DEF ChangeMessageTx
  <2> HIDE DEF new
  <2>4. c \in Change /\ c.msg = m0 /\ c.version = new.version /\ c.deleted = new.deleted
    BY <2>1, <2>2 DEF Change, MessageIDs
  <2> HIDE DEF c, m0
  <2>5. m0 \in 0 .. channel.lastMessageID
    BY <1>1, <1>3, <2>1
  <2>6. ASSUME NEW m \in MessageIDs
        PROVE  IF m = c.msg
               THEN /\ c.version = messages[m].version + 1
                    /\ messages'[m] = [version |-> c.version,
                                       seq |-> channel.lastSeq + 1,
                                       deleted |-> c.deleted]
               ELSE messages'[m] = messages[m]
    BY <1>2, <2>2, <2>3, <2>4
  <2>7. QED
    BY <1>1, <1>2, <2>3, <2>4, <2>5, <2>6, HistoryCommit
<1>7. QED
  BY <1>4, <1>5, <1>6

\* No other step writes a message or the log.
LEMMA HistoryStep ==
    ASSUME OwnerInv, HistoryInv, [PCNext]_pcVars
    PROVE  HistoryInv'
<1>1. ASSUME UNCHANGED <<messages, changes>>, WritesCounted',
             channel'.lastMessageID = channel.lastMessageID,
             writes' \in 0 .. MaxWrites, failures' \in 0 .. MaxFailures
      PROVE  HistoryInv'
  BY <1>1 DEF HistoryInv, StoredIDs, Stored, HistoryOf, ChangesOf
<1>2. /\ writes \in 0 .. MaxWrites /\ failures \in 0 .. MaxFailures /\ WritesCounted
      /\ channel.lastMessageID \in Nat /\ MaxWrites \in Nat /\ MaxFailures \in Nat
  BY PublicChannelAssumption DEF HistoryInv, OwnerInv, Channel
<1>3. ASSUME UNCHANGED <<channel, messages, changes, writes>>, UnderWay' = UnderWay,
             failures' \in 0 .. MaxFailures
      PROVE  HistoryInv'
  BY <1>1, <1>2, <1>3 DEF WritesCounted
<1>4. CASE UNCHANGED pcVars
  BY <1>2, <1>3, <1>4 DEF pcVars, UnderWay
<1>5. ASSUME NEW u \in Users, CreateChannel(u) PROVE HistoryInv'
  <2>1. channel.lastMessageID = 0 /\ channel'.lastMessageID = 0
    BY <1>5 DEF CreateChannel, OwnerInv, WritesNeedChannel, NoChannel
  <2>2. WritesCounted'
    BY <1>2, <1>5, <2>1 DEF WritesCounted, CreateChannel, UnderWay
  <2>3. QED
    BY <1>1, <1>2, <1>5, <2>1, <2>2 DEF CreateChannel
<1>6. ASSUME NEW u \in Users, NEW h \in Handlers, WriteRequest(h, u) PROVE HistoryInv'
  <2>1. PICK op \in {"profile", "create", "update", "delete"},
             m \in MessageIDs \cup {0} : Accept(h, u, op, m)
    BY <1>6 DEF WriteRequest, UpdateChannel, CreateMessage, UpdateMessage, DeleteMessage
  <2> DEFINE w == [NoWrite EXCEPT !.pc = "lock", !.op = op, !.msg = m]
  <2>2. w.pc = "lock"
    BY DEF NoWrite
  <2>3. /\ creq' = [creq EXCEPT ![h] = w] /\ creq[h].pc = "idle"
        /\ writes' = writes + 1 /\ writes < MaxWrites
        /\ UNCHANGED <<channel, messages, changes, failures>>
    BY <2>1 DEF Accept
  <2> HIDE DEF w
  <2>4. UnderWay' = UnderWay \cup {h} /\ h \notin UnderWay
    BY <2>2, <2>3 DEF UnderWay, OwnerInv
  <2>5. /\ IsFiniteSet(UnderWay') /\ Cardinality(UnderWay') = Cardinality(UnderWay) + 1
        /\ Cardinality(UnderWay) \in Nat
    BY <1>2, <2>4, FS_AddElement, FS_CardinalityType DEF WritesCounted
  <2>6. WritesCounted'
    BY <1>2, <2>3, <2>5 DEF WritesCounted
  <2>7. QED
    BY <1>1, <1>2, <2>3, <2>6
<1>7. ASSUME NEW h \in Handlers, LockChannel(h) PROVE HistoryInv'
  <2>1. UnderWay' = UnderWay
    BY <1>7 DEF LockChannel, UnderWay, OwnerInv, Write
  <2>2. QED
    BY <1>2, <1>3, <1>7, <2>1 DEF LockChannel
<1>8. ASSUME NEW h \in Handlers, RefuseChange(h) \/ TxFails(h) PROVE HistoryInv'
  <2>1. /\ creq[h].pc # "idle" /\ creq' = [creq EXCEPT ![h] = NoWrite]
        /\ UNCHANGED <<channel, messages, changes, writes>>
        /\ failures' \in 0 .. MaxFailures
    BY <1>2, <1>8 DEF RefuseChange, TxFails, Rollback
  <2>2. /\ IsFiniteSet(UnderWay') /\ Cardinality(UnderWay') \in Nat
        /\ Cardinality(UnderWay) = Cardinality(UnderWay') + 1
    BY <2>1, WriteEnds
  <2>3. WritesCounted'
    BY <1>2, <2>1, <2>2 DEF WritesCounted
  <2>4. QED
    BY <1>1, <1>2, <2>1, <2>3
<1>9. CASE \E r \in Subscribers :
             \/ \E n \in SeenInputs : SubscribeChannel(r, n)
             \/ LoadOlder(r)
             \/ Poll(r)
             \/ SessionStep(r)
             \/ RequestLost(r)
  <2>1. UNCHANGED ownerVars
    BY <1>9, ReaderSteps
  <2>2. failures' \in 0 .. MaxFailures
    <3>1. ASSUME NEW r \in Subscribers, RequestLost(r)
          PROVE  failures' \in 0 .. MaxFailures
      BY <1>2, <3>1 DEF RequestLost
    <3>2. ASSUME NEW r \in Subscribers,
                 \/ \E n \in SeenInputs : SubscribeChannel(r, n)
                 \/ LoadOlder(r) \/ Poll(r) \/ SessionStep(r)
          PROVE  failures' = failures
      BY <3>2 DEF SubscribeChannel, LoadOlder, Poll, ListChannelChanges, SessionStep,
           FindSubscription, SaveSubscription, SubscriptionConflict,
           FinishSubscribe, ReadChanges, ApplyChange, FinishChanges
    <3>3. QED
      BY <1>2, <1>9, <3>1, <3>2
  <2>3. QED
    BY <1>3, <2>1, <2>2 DEF ownerVars, UnderWay
<1>10. QED
  BY <1>4, <1>5, <1>6, <1>7, <1>8, <1>9, HistoryTransactions DEF PCNext, WriteStep
-----------------------------------------------------------------------------
\* A set of natural numbers has a least member, a bounded one a greatest.
LEMMA LeastOf ==
    ASSUME NEW S \in SUBSET Nat, S # {}
    PROVE  Min(S) \in S /\ \A y \in S : Min(S) <= y
<1> DEFINE R == {ss \in Nat \X Nat : ss[1] < ss[2]}
<1>1. IsWellFoundedOn(R, Nat)
  BY NatLessThanWellFounded DEF OpToRel
<1> HIDE DEF R
<1>2. PICK x \in S : \A y \in S : ~(<<y, x>> \in R)
  BY <1>1, WFMin
<1>3. ASSUME NEW y \in S PROVE x <= y
  <2>1. x \in Nat /\ y \in Nat
    OBVIOUS
  <2>2. ~(y < x)
    BY <1>2, <2>1 DEF R
  <2>3. QED
    BY <2>1, <2>2
<1>4. QED
  BY <1>3 DEF Min

\* A set of numbers with an upper bound has a greatest one, if it has any.
LEMMA GreatestOf ==
    ASSUME NEW n \in Nat, NEW S \in SUBSET (0 .. n), S # {}
    PROVE  Max(S) \in S /\ \A y \in S : y <= Max(S)
<1> DEFINE T == {n - y : y \in S}
           x == n - Min(T)
<1>0. \A y \in S : y \in Nat /\ n - y \in Nat
  OBVIOUS
<1>1. T \in SUBSET Nat /\ T # {}
  <2>1. T \in SUBSET Nat
    BY <1>0
  <2>2. PICK y \in S : TRUE
    OBVIOUS
  <2>3. n - y \in T
    OBVIOUS
  <2>4. QED
    BY <2>1, <2>3
<1>2. Min(T) \in T /\ \A t \in T : Min(T) <= t
  BY <1>1, LeastOf
<1>3. PICK z \in S : Min(T) = n - z
  BY <1>2
<1>4. ASSUME NEW y \in S PROVE z >= y
  <2>1. n - y \in T
    OBVIOUS
  <2>2. n - z <= n - y
    BY <1>2, <1>3, <2>1
  <2>3. QED
    BY <1>0, <2>2
<1>5. QED
  BY <1>4 DEF Max

\* A device with nothing to do, and a copy that has not been started.
LEMMA NoSessionOK ==
    /\ NoSession \in Session /\ NoSession.pc = "idle"
    /\ NoCopy \in Copy /\ ~NoCopy.joined
<1>1. NoSession \in Session /\ NoSession.pc = "idle"
  BY DEF NoSession, Session, NoChannel, Channel, NoSubscription, Subscription
<1>2. NoCopy \in Copy /\ ~NoCopy.joined
  BY DEF NoCopy, Copy
<1>3. QED
  BY <1>1, <1>2

\* Nobody has a copy yet.
LEMMA CopyInit == PCInit => CopyInv
<1> SUFFICES ASSUME PCInit PROVE CopyInv
  OBVIOUS
<1>1. /\ session \in [Subscribers -> Session] /\ copy \in [Subscribers -> Copy]
      /\ \A r \in Subscribers : session[r].pc = "idle" /\ ~copy[r].joined
  BY NoSessionOK DEF PCInit
<1>2. QED
  BY <1>1 DEF CopyInv, CopyOK, PageOK, HeadOK, NoChannelNoCopy

\* A page of the message list is a tail of the messages it may have: with one
\* of them it has every newer one.
LEMMA PageOfMessages ==
    ASSUME NEW before \in Nat, NEW limit \in Nat \ {0}
    PROVE  LET rows == {m \in MessageIDs : Stored(m) /\ (before > 0 => m < before)}
               M == ListMessages(before, limit)
           IN  /\ M \subseteq rows
               /\ \A m \in M, k \in rows : k >= m => k \in M
               /\ rows # {} => M # {}
<1> DEFINE rows == {m \in MessageIDs : Stored(m) /\ (before > 0 => m < before)}
           from(m) == {n \in rows : n >= m}
           M == {m \in rows : Cardinality(from(m)) <= limit}
<1>0. ListMessages(before, limit) = M
  BY DEF ListMessages
<1>1. IsFiniteSet(rows) /\ rows \in SUBSET (0 .. MaxWrites) /\ MaxWrites \in Nat
  <2>1. IsFiniteSet(1 .. MaxWrites)
    BY FS_Interval, PublicChannelAssumption
  <2>2. rows \in SUBSET (1 .. MaxWrites)
    BY DEF MessageIDs
  <2>3. QED
    BY <2>1, <2>2, FS_Subset, PublicChannelAssumption
<1>2. \A m \in rows : IsFiniteSet(from(m)) /\ Cardinality(from(m)) \in Nat
  <2> SUFFICES ASSUME NEW m \in rows
               PROVE  IsFiniteSet(from(m)) /\ Cardinality(from(m)) \in Nat
    OBVIOUS
  <2>1. from(m) \in SUBSET rows
    OBVIOUS
  <2> HIDE DEF from, rows
  <2>2. IsFiniteSet(from(m))
    BY <1>1, <2>1, FS_Subset
  <2>3. QED
    BY <2>2, FS_CardinalityType
<1>3. ASSUME NEW m \in M, NEW k \in rows, k >= m PROVE k \in M
  <2>1. from(k) \in SUBSET from(m)
    BY <1>1, <1>3
  <2>2. m \in rows /\ Cardinality(from(m)) <= limit
    OBVIOUS
  <2> HIDE DEF from
  <2>3. Cardinality(from(k)) <= Cardinality(from(m))
    BY <1>2, <2>1, <2>2, FS_Subset
  <2>4. Cardinality(from(k)) \in Nat /\ Cardinality(from(m)) \in Nat
    BY <1>2, <2>2
  <2>5. Cardinality(from(k)) <= limit
    BY <2>2, <2>3, <2>4
  <2>6. QED
    BY <2>5
<1>4. ASSUME rows # {} PROVE M # {}
  <2> DEFINE g == Max(rows)
  <2>1. g \in rows /\ \A y \in rows : y <= g
    BY <1>1, <1>4, GreatestOf
  <2>2. from(g) = {g}
    BY <1>1, <2>1
  <2>3. Cardinality(from(g)) = 1
    BY <2>2, FS_Singleton
  <2> HIDE DEF g, from, rows
  <2>4. QED
    BY <2>1, <2>3
<1>5. M \subseteq rows
  OBVIOUS
<1>6. QED
  BY <1>0, <1>3, <1>4, <1>5

\* What is read of the log is the beginning of what comes after a number.
LEMMA PageOfChanges ==
    ASSUME IsFiniteSet(changes), changes \subseteq Change,
           NEW after \in Int, NEW limit \in Nat
    PROVE  LET rows == ListChanges(after, limit)
               items == {c \in rows : Cardinality({d \in rows : d.seq <= c.seq}) <= limit}
           IN  /\ items \subseteq rows /\ rows \subseteq changes
               /\ \A d \in items, c \in changes :
                     c.seq > after /\ c.seq <= d.seq => c \in items
<1> DEFINE all == {c \in changes : c.seq > after}
           upto(c) == {d \in all : d.seq <= c.seq}
           rows == {c \in all : Cardinality(upto(c)) <= limit + 1}
           first(c) == {d \in rows : d.seq <= c.seq}
           items == {c \in rows : Cardinality(first(c)) <= limit}
<1>0. ListChanges(after, limit) = rows
  BY DEF ListChanges, FirstAfter
<1>1. IsFiniteSet(all) /\ IsFiniteSet(rows)
  <2>1. all \in SUBSET changes /\ rows \in SUBSET all
    OBVIOUS
  <2> HIDE DEF all, rows
  <2>2. QED
    BY <2>1, FS_Subset
<1>2. \A c \in changes : c.seq \in Nat
  BY DEF Change
<1>3. ASSUME NEW d \in items, NEW c \in changes, c.seq > after, c.seq <= d.seq
      PROVE  c \in items
  <2>1. /\ c \in all /\ d \in all /\ upto(c) \in SUBSET upto(d)
        /\ upto(d) \in SUBSET all /\ Cardinality(upto(d)) <= limit + 1
    BY <1>2, <1>3
  <2>2. /\ first(c) \in SUBSET first(d) /\ first(d) \in SUBSET rows
        /\ Cardinality(first(d)) <= limit
    BY <1>2, <1>3
  <2> HIDE DEF upto, first, all
  <2>3. /\ IsFiniteSet(upto(d)) /\ IsFiniteSet(first(d))
    <3> HIDE DEF rows
    <3>1. QED
      BY <1>1, <2>1, <2>2, FS_Subset
  <2>4. /\ IsFiniteSet(upto(c)) /\ Cardinality(upto(c)) <= Cardinality(upto(d))
        /\ IsFiniteSet(first(c)) /\ Cardinality(first(c)) <= Cardinality(first(d))
    <3> HIDE DEF rows
    <3>1. QED
      BY <2>1, <2>2, <2>3, FS_Subset
  <2>5. /\ Cardinality(upto(c)) \in Nat /\ Cardinality(upto(d)) \in Nat
        /\ Cardinality(first(c)) \in Nat /\ Cardinality(first(d)) \in Nat
    BY <2>3, <2>4, FS_CardinalityType
  <2>6. Cardinality(upto(c)) <= limit + 1 /\ Cardinality(first(c)) <= limit
    BY <2>1, <2>2, <2>4, <2>5
  <2>7. QED
    BY <2>1, <2>6
<1>4. items \subseteq rows /\ rows \subseteq changes
  OBVIOUS
<1>5. QED
  BY <1>0, <1>3, <1>4
-----------------------------------------------------------------------------
\* A commit writes one object and logs it with a number nobody has passed.
LEMMA CopyCommit ==
    ASSUME CopyInv, OwnerInv, OwnerInv', UNCHANGED <<session, copy>>, Exists,
           NEW c \in Change, changes' = changes \cup {c},
           c.seq = channel.lastSeq + 1, channel'.lastSeq = channel.lastSeq + 1,
           channel'.owner = channel.owner,
           \A x \in Objects : Latest(x)' = IF x = c.msg THEN c.version ELSE Latest(x)
    PROVE  CopyInv'
<1>1. channel.lastSeq \in Nat /\ session \in [Subscribers -> Session]
      /\ copy \in [Subscribers -> Copy]
  BY DEF OwnerInv, Channel, CopyInv
<1>2. ASSUME NEW d \in changes, NEW x \in Objects, Tells(d, x), x # c.msg
      PROVE  d \in changes' /\ Tells(d, x)'
  BY <1>2 DEF Tells
<1>3. \A x \in Objects : x = c.msg => c \in changes' /\ Tells(c, x)'
  BY DEF Tells
<1>4. ASSUME NEW r \in Subscribers, NEW n, NEW S, n \in Int, n <= channel.lastSeq,
             WillLearn(r, n, S)
      PROVE  WillLearn(r, n, S)'
  <2> SUFFICES ASSUME NEW x \in Objects, Wants(r, x)', Has(r, x)' # Latest(x)'
               PROVE  \E d \in changes' : Tells(d, x)' /\ (d.seq > n \/ d \in S)
    BY DEF WillLearn
  <2>1. CASE x = c.msg
    BY <1>1, <1>3, <1>4, <2>1
  <2>2. CASE x # c.msg
    <3>1. Latest(x)' = Latest(x) /\ Has(r, x)' = Has(r, x)
      BY <2>2 DEF Has
    <3>2. Wants(r, x)
      <4>1. x # 0 => messages'[x].version = messages[x].version
        BY <3>1 DEF Latest
      <4>2. QED
        BY <4>1 DEF Wants, Stored
    <3>3. PICK d \in changes : Tells(d, x) /\ (d.seq > n \/ d \in S)
      BY <1>4, <3>1, <3>2 DEF WillLearn
    <3>4. QED
      BY <1>2, <2>2, <3>3
  <2>3. QED
    BY <2>1, <2>2
<1>5. ASSUME NEW r \in Subscribers PROVE CopyOK(r)' /\ PageOK(r)' /\ HeadOK(r)'
  <2>1. /\ session[r] \in Session /\ copy[r] \in Copy
        /\ copy[r].after \in Int /\ session[r].next \in Int
        /\ session[r].head.lastSeq \in Nat
    BY <1>1 DEF Session, Copy, Channel
  <2>2. CopyOK(r) /\ PageOK(r) /\ HeadOK(r)
    BY DEF CopyInv
  <2>3. CopyOK(r)'
    BY <1>1, <1>4, <2>1, <2>2 DEF CopyOK
  <2>4. PageOK(r)'
    BY <1>1, <1>4, <2>1, <2>2 DEF PageOK
  <2>5. HeadOK(r)'
    <3> SUFFICES ASSUME session[r].pc \in {"find", "save", "list"}
                 PROVE  /\ session[r].head.lastSeq <= channel'.lastSeq
                        /\ session[r].head.profile # channel'.profile =>
                             \E d \in changes' :
                                Tells(d, 0)' /\ d.seq > session[r].head.lastSeq
      BY DEF HeadOK
    <3>1. session[r].head.lastSeq <= channel.lastSeq
      BY <2>2 DEF HeadOK
    <3>2. CASE c.msg = 0
      BY <1>1, <1>3, <2>1, <3>1, <3>2 DEF Objects
    <3>3. CASE c.msg # 0
      <4>1. channel'.profile = channel.profile
        BY <3>3 DEF Objects, Latest
      <4>2. QED
        BY <1>1, <1>2, <2>1, <2>2, <3>1, <3>3, <4>1 DEF HeadOK, Objects
    <3>4. QED
      BY <3>2, <3>3
  <2>6. QED
    BY <2>3, <2>4, <2>5
<1>6. QED
  BY <1>1, <1>5 DEF CopyInv, NoChannelNoCopy, Exists

\* Steps that change nothing of what the copies are about.
LEMMA CopySame ==
    ASSUME CopyInv, UNCHANGED <<channel, messages, changes, session, copy>>
    PROVE  CopyInv'
<1>1. \A x : Latest(x)' = Latest(x)
  BY DEF Latest
<1>2. \A c, x : Tells(c, x)' <=> Tells(c, x)
  BY <1>1 DEF Tells
<1>3. \A r, n, S : WillLearn(r, n, S)' <=> WillLearn(r, n, S)
  BY <1>1, <1>2 DEF WillLearn, Has, Wants, Stored
<1>4. \A r \in Subscribers : CopyOK(r)' /\ PageOK(r)' /\ HeadOK(r)'
  BY <1>2, <1>3 DEF CopyInv, CopyOK, PageOK, HeadOK
<1>5. QED
  BY <1>4 DEF CopyInv, NoChannelNoCopy, Exists

\* A write only adds to the log what the copies do not have yet.
LEMMA OwnerKeepsCopies ==
    ASSUME CopyInv, OwnerInv, HistoryInv, NEW h \in Handlers,
           WriteStep(h) \/ TxFails(h) \/ \E u \in Users : WriteRequest(h, u)
    PROVE  CopyInv'
<1> DEFINE row == creq[h].row
<1>0. UNCHANGED <<session, copy>>
  BY OwnerSteps DEF readerVars
<1>1. CASE UNCHANGED <<channel, messages, changes>>
  BY <1>0, <1>1, CopySame
<1>2. CASE LockChannel(h) \/ RefuseChange(h) \/ TxFails(h)
  BY <1>1, <1>2 DEF LockChannel, RefuseChange, TxFails, Rollback
<1>3. CASE \E u \in Users : WriteRequest(h, u)
  BY <1>1, <1>3 DEF WriteRequest, UpdateChannel, CreateMessage, UpdateMessage,
                    DeleteMessage, Accept
<1>4. CASE UpdateChannelTx(h) \/ CreateMessageTx(h) \/ ChangeMessageTx(h)
  <2>1. /\ creq[h].pc = "commit" /\ row = channel /\ row \in Channel
        /\ creq[h] \in Write /\ Exists
        /\ channel.lastSeq \in Nat /\ channel.lastMessageID \in Nat
        /\ channel.profile \in Nat /\ messages \in [MessageIDs -> Message]
    BY <1>4 DEF UpdateChannelTx, CreateMessageTx, ChangeMessageTx, OwnerInv,
       RowIsCurrent, WritesNeedChannel, Channel
  <2>2. OwnerInv'
    BY <1>4, TransactionsOK
  <2>3. ASSUME NEW up \in Channel, NEW c \in Change, Commit(h, up, c),
               up.lastSeq = channel.lastSeq, up.owner = channel.owner,
               IF c.msg = 0 THEN up.profile = c.version ELSE up.profile = channel.profile,
               \A m \in MessageIDs :
                  messages'[m].version = IF m = c.msg THEN c.version
                                         ELSE messages[m].version
        PROVE  CopyInv'
    <3> DEFINE new == [c EXCEPT !.seq = channel.lastSeq + 1]
    <3>1. /\ channel' = [up EXCEPT !.lastSeq = channel.lastSeq + 1]
          /\ changes' = changes \cup {new}
      BY <2>3 DEF Commit
    <3>2. /\ new \in Change /\ new.seq = channel.lastSeq + 1
          /\ new.msg = c.msg /\ new.version = c.version
      BY <2>1 DEF Change
    <3>3. /\ channel'.lastSeq = channel.lastSeq + 1 /\ channel'.owner = channel.owner
          /\ channel'.profile = up.profile
      BY <2>3, <3>1 DEF Channel
    <3> HIDE DEF new
    <3>4. \A x \in Objects :
            Latest(x)' = IF x = new.msg THEN new.version ELSE Latest(x)
      BY <2>3, <3>2, <3>3 DEF Latest, Objects, MessageIDs
    <3>5. QED
      BY <1>0, <2>1, <2>2, <3>1, <3>2, <3>3, <3>4, CopyCommit
  <2>4. CASE UpdateChannelTx(h)
    <3> DEFINE up == [row EXCEPT !.profile = @ + 1]
               c == [seq |-> 0, msg |-> 0, version |-> row.profile + 1,
                     deleted |-> FALSE]
    <3>1. /\ up \in Channel /\ up.lastSeq = channel.lastSeq
          /\ up.owner = channel.owner /\ up.profile = row.profile + 1
      BY <2>1 DEF Channel
    <3>2. c \in Change /\ c.msg = 0 /\ c.version = row.profile + 1
      BY <2>1 DEF Change
    <3>3. Commit(h, up, c) /\ UNCHANGED messages
      BY <2>4 DEF UpdateChannelTx
    <3> HIDE DEF up, c
    <3>4. 0 \notin MessageIDs
      BY DEF MessageIDs
    <3>5. QED
      BY <2>3, <3>1, <3>2, <3>3, <3>4
  <2>5. CASE CreateMessageTx(h)
    <3> DEFINE id == row.lastMessageID + 1
               up == [row EXCEPT !.lastMessageID = id]
               new == [version |-> 1, seq |-> row.lastSeq + 1, deleted |-> FALSE]
               c == [seq |-> 0, msg |-> id, version |-> 1, deleted |-> FALSE]
    <3>1. /\ up \in Channel /\ up.lastSeq = channel.lastSeq /\ id # 0
          /\ up.owner = channel.owner /\ up.profile = channel.profile
      BY <2>1 DEF Channel
    <3>2. c \in Change /\ c.msg = id /\ c.version = 1 /\ new.version = 1
      BY <2>1 DEF Change
    <3>3. Commit(h, up, c) /\ messages' = [messages EXCEPT ![id] = new]
      BY <2>5 DEF CreateMessageTx
    <3> HIDE DEF up, c, new, id
    <3>4. QED
      BY <2>1, <2>3, <3>1, <3>2, <3>3
  <2>6. CASE ChangeMessageTx(h)
    <3> DEFINE m0 == creq[h].msg
               new == NewVersion(h)
               c == [seq |-> 0, msg |-> m0, version |-> new.version,
                     deleted |-> new.deleted]
    <3>1. m0 \in MessageIDs /\ Stored(m0)
      BY <2>6 DEF ChangeMessageTx, MayChange, MessageNamed, OwnerInv
    <3>2. new.version \in Nat /\ new.deleted \in BOOLEAN
      BY <2>1, <3>1 DEF NewVersion, Message
    <3>3. Commit(h, channel, c) /\ messages' = [messages EXCEPT ![m0] = new]
      BY <2>1, <2>6 DEF ChangeMessageTx
    <3> HIDE DEF new
    <3>4. c \in Change /\ c.msg = m0 /\ c.version = new.version /\ m0 # 0
      BY <3>1, <3>2 DEF Change, MessageIDs
    <3> HIDE DEF c, m0
    <3>5. QED
      BY <2>1, <2>3, <3>1, <3>3, <3>4
  <2>7. QED
    BY <1>4, <2>4, <2>5, <2>6
<1>5. QED
  BY <1>2, <1>3, <1>4 DEF WriteStep

\* Before CreateChannel nobody can have asked for the channel.
LEMMA CreateKeepsCopies ==
    ASSUME CopyInv, NEW u \in Users, CreateChannel(u)
    PROVE  CopyInv'
<1>1. ~Exists /\ UNCHANGED <<session, copy>>
  BY DEF CreateChannel
<1>2. \A r \in Subscribers : /\ ~copy[r].joined
                            /\ session[r].pc \notin {"find", "save", "list"}
  BY <1>1 DEF CopyInv, NoChannelNoCopy
<1>3. QED
  BY <1>1, <1>2 DEF CopyInv, CopyOK, PageOK, HeadOK, NoChannelNoCopy
-----------------------------------------------------------------------------
\* A step of subscriber r: the owner's state and the other subscribers stay.
LEMMA OneSubscriber ==
    ASSUME CopyInv, NEW r \in Subscribers, NEW s \in Session, NEW k \in Copy,
           session' = [session EXCEPT ![r] = s], copy' = [copy EXCEPT ![r] = k],
           UNCHANGED <<channel, messages, changes>>,
           CopyOK(r)', PageOK(r)', HeadOK(r)',
           Exists \/ (~k.joined /\ s.pc \notin {"find", "save", "list"})
    PROVE  CopyInv'
<1>1. \A x : Latest(x)' = Latest(x)
  BY DEF Latest
<1>2. \A c, x : Tells(c, x)' <=> Tells(c, x)
  BY <1>1 DEF Tells
<1>3. /\ session \in [Subscribers -> Session] /\ copy \in [Subscribers -> Copy]
      /\ session' \in [Subscribers -> Session] /\ copy' \in [Subscribers -> Copy]
      /\ session'[r] = s /\ copy'[r] = k
  BY DEF CopyInv
<1>4. ASSUME NEW q \in Subscribers, q # r PROVE CopyOK(q)' /\ PageOK(q)' /\ HeadOK(q)'
  <2>1. session'[q] = session[q] /\ copy'[q] = copy[q]
    BY <1>4, <1>3
  <2>2. \A n, S : WillLearn(q, n, S)' <=> WillLearn(q, n, S)
    BY <1>1, <1>2, <2>1 DEF WillLearn, Has, Wants, Stored
  <2>3. CopyOK(q) /\ PageOK(q) /\ HeadOK(q)
    BY DEF CopyInv
  <2>4. CopyOK(q)' /\ PageOK(q)'
    BY <2>1, <2>2, <2>3 DEF CopyOK, PageOK
  <2>5. HeadOK(q)'
    BY <1>2, <2>1, <2>3 DEF HeadOK
  <2>6. QED
    BY <2>4, <2>5
<1>5. NoChannelNoCopy'
  <2> SUFFICES ASSUME ~Exists, NEW q \in Subscribers
               PROVE  ~copy'[q].joined /\ session'[q].pc \notin {"find", "save", "list"}
    BY DEF NoChannelNoCopy, Exists
  <2>1. CASE q = r
    BY <1>3, <2>1
  <2>2. CASE q # r
    BY <1>3, <2>2 DEF CopyInv, NoChannelNoCopy
  <2>3. QED
    BY <2>1, <2>2
<1>6. QED
  BY <1>3, <1>4, <1>5 DEF CopyInv

\* Nothing of the copy changes, and the session goes to a state that promises
\* nothing about the head or a page.
LEMMA SessionOnly ==
    ASSUME CopyInv, NEW r \in Subscribers, NEW s \in Session,
           session' = [session EXCEPT ![r] = s], UNCHANGED copy,
           UNCHANGED <<channel, messages, changes>>,
           s.pc = "apply" => PageOK(r)',
           s.pc \in {"find", "save", "list"} => HeadOK(r)' /\ Exists
    PROVE  CopyInv'
<1>1. /\ session \in [Subscribers -> Session] /\ copy \in [Subscribers -> Copy]
      /\ session'[r] = s
  BY DEF CopyInv
<1>2. copy[r] \in Copy /\ copy' = [copy EXCEPT ![r] = copy[r]]
  BY <1>1
<1>3. CopyOK(r)'
  <2>1. \A n, S : WillLearn(r, n, S)' <=> WillLearn(r, n, S)
    BY DEF WillLearn, Has, Wants, Stored, Latest, Tells
  <2>2. QED
    BY <2>1 DEF CopyInv, CopyOK
<1>4. PageOK(r)' /\ HeadOK(r)'
  BY <1>1 DEF PageOK, HeadOK
<1>5. Exists \/ ~copy[r].joined
  BY DEF CopyInv, NoChannelNoCopy
<1>6. QED
  BY <1>1, <1>2, <1>3, <1>4, <1>5, OneSubscriber

\* The head of a request that goes on is the one it started with.
LEMMA HeadKept ==
    ASSUME CopyInv, NEW r \in Subscribers, NEW s, session'[r] = s,
           UNCHANGED <<channel, messages, changes>>,
           s.head = session[r].head, session[r].pc \in {"find", "save", "list"}
    PROVE  HeadOK(r)' /\ Exists
<1>1. HeadOK(r) /\ Exists
  BY DEF CopyInv, NoChannelNoCopy
<1>2. QED
  BY <1>1 DEF HeadOK, Tells, Latest

\* Subscribing, reporting a position and asking for a page leave the copies
\* alone; the head is what the channel row said.
LEMMA RequestSteps ==
    ASSUME CopyInv, SubInv, OwnerInv, NEW r \in Subscribers,
           \/ \E n \in SeenInputs : SubscribeChannel(r, n)
           \/ Poll(r) \/ FindSubscription(r) \/ SaveSubscription(r)
           \/ SubscriptionConflict(r) \/ RequestLost(r)
    PROVE  CopyInv'
<1>0. /\ session \in [Subscribers -> Session] /\ session[r] \in Session
      /\ channel \in Channel /\ UserOf[r] \in Users
      /\ subscriptions \in [Users -> Subscription]
  BY PublicChannelAssumption DEF CopyInv, OwnerInv, SubInv
<1>1. ASSUME NEW n \in SeenInputs, SubscribeChannel(r, n) PROVE CopyInv'
  <2> DEFINE s == [NoSession EXCEPT !.pc = "find", !.head = channel,
                                    !.seen = ClampSeen(n)]
  <2>1. ClampSeen(n) \in Int
    BY PublicChannelAssumption DEF ClampSeen
  <2>2. s \in Session /\ s.pc = "find" /\ s.head = channel
    BY <1>0, <2>1, NoSessionOK DEF Session
  <2>3. /\ session' = [session EXCEPT ![r] = s] /\ Exists
        /\ UNCHANGED <<channel, messages, changes, copy>>
    BY <1>1 DEF SubscribeChannel, ownerVars
  <2> HIDE DEF s
  <2>4. HeadOK(r)'
    BY <1>0, <2>2, <2>3 DEF HeadOK, Channel
  <2>5. QED
    BY <2>2, <2>3, <2>4, SessionOnly
<1>2. CASE Poll(r)
  <2>1. PICK n \in Limits : ListChannelChanges(r, n)
    BY <1>2 DEF Poll
  <2> DEFINE s == [NoSession EXCEPT !.pc = "changes", !.head = channel,
                                    !.limit = ClampLimit(n)]
  <2>2. ClampLimit(n) \in Nat
    BY PublicChannelAssumption DEF ClampLimit
  <2>3. s \in Session /\ s.pc = "changes"
    BY <1>0, <2>2, NoSessionOK DEF Session
  <2>4. /\ session' = [session EXCEPT ![r] = s]
        /\ UNCHANGED <<channel, messages, changes, copy>>
    BY <2>1 DEF ListChannelChanges, ownerVars
  <2> HIDE DEF s
  <2>5. QED
    BY <2>3, <2>4, SessionOnly
<1>3. CASE FindSubscription(r)
  <2> DEFINE s == [session[r] EXCEPT !.pc = "save", !.found = subscriptions[UserOf[r]]]
  <2>1. s \in Session /\ s.pc = "save" /\ s.head = session[r].head
    BY <1>0 DEF Session
  <2>2. /\ session' = [session EXCEPT ![r] = s] /\ session[r].pc = "find"
        /\ UNCHANGED <<channel, messages, changes, copy>>
    BY <1>3 DEF FindSubscription, ownerVars
  <2> HIDE DEF s
  <2>3. session'[r] = s
    BY <1>0, <2>2
  <2>4. QED
    BY <2>1, <2>2, <2>3, HeadKept, SessionOnly
<1>4. CASE SaveSubscription(r)
  <2> DEFINE s == [session[r] EXCEPT !.pc = "list", !.found = NoSubscription]
  <2>0. NoSubscription \in Subscription
    BY DEF NoSubscription, Subscription
  <2>1. s \in Session /\ s.pc = "list" /\ s.head = session[r].head
    BY <1>0, <2>0 DEF Session
  <2>2. /\ session' = [session EXCEPT ![r] = s] /\ session[r].pc = "save"
        /\ UNCHANGED <<channel, messages, changes, copy>>
    BY <1>4 DEF SaveSubscription, ownerVars
  <2> HIDE DEF s
  <2>3. session'[r] = s
    BY <1>0, <2>2
  <2>4. QED
    BY <2>1, <2>2, <2>3, HeadKept, SessionOnly
<1>5. CASE SubscriptionConflict(r) \/ RequestLost(r)
  <2>1. /\ session' = [session EXCEPT ![r] = NoSession]
        /\ UNCHANGED <<channel, messages, changes, copy>>
    BY <1>5 DEF SubscriptionConflict, RequestLost, ownerVars
  <2>2. QED
    BY <2>1, NoSessionOK, SessionOnly
<1>6. QED
  BY <1>1, <1>2, <1>3, <1>4, <1>5

\* Messages are read at their newest version.
LEMMA ReadMessages ==
    ASSUME messages \in [MessageIDs -> Message], NEW k \in Copy,
           NEW M \in SUBSET MessageIDs
    PROVE  /\ WithMessages(k, M) \in Copy
           /\ WithMessages(k, M).joined = k.joined
           /\ WithMessages(k, M).after = k.after
           /\ WithMessages(k, M).profile = k.profile
           /\ WithMessages(k, M).oldest =
                IF M = {} THEN k.oldest ELSE Min(M \cup {k.oldest})
           /\ \A m \in M : WithMessages(k, M).held[m] = messages[m].version
           /\ \A m \in MessageIDs \ M : WithMessages(k, M).held[m] = k.held[m]
<1> DEFINE held == [m \in MessageIDs |-> IF m \in M THEN messages[m].version
                                         ELSE k.held[m]]
           oldest == IF M = {} THEN k.oldest ELSE Min(M \cup {k.oldest})
           new == [k EXCEPT !.held = held, !.oldest = oldest]
<1>1. WithMessages(k, M) = new
  BY DEF WithMessages
<1>2. held \in [MessageIDs -> Nat]
  BY DEF Copy, Message
<1>3. oldest \in Nat
  <2>1. k.oldest \in Nat /\ M \cup {k.oldest} \in SUBSET Nat /\ M \cup {k.oldest} # {}
    <3>1. k.oldest \in Nat
      BY DEF Copy
    <3>2. MessageIDs \subseteq Nat
      BY DEF MessageIDs
    <3>3. QED
      BY <3>1, <3>2
  <2>2. Min(M \cup {k.oldest}) \in M \cup {k.oldest}
    BY <2>1, LeastOf
  <2>3. QED
    BY <2>1, <2>2
<1>4. \A m \in MessageIDs : held[m] = IF m \in M THEN messages[m].version ELSE k.held[m]
  OBVIOUS
<1> HIDE DEF held, oldest
<1>5. /\ new \in Copy /\ new.joined = k.joined /\ new.after = k.after
      /\ new.profile = k.profile /\ new.oldest = oldest /\ new.held = held
  BY <1>2, <1>3 DEF Copy
<1>6. QED
  BY <1>1, <1>4, <1>5 DEF oldest

\* The first copy: the newest messages, and whatever the log tells after the
\* head that was read first.
LEMMA FinishSubscribeKeeps ==
    ASSUME CopyInv, OwnerInv, HistoryInv, NEW r \in Subscribers, FinishSubscribe(r)
    PROVE  CopyInv'
<1> DEFINE M == ListMessages(0, PageLimit)
           head == session[r].head
           oldest == IF M = {} THEN 1 ELSE Min(M)
           fresh == [NoCopy EXCEPT !.joined = TRUE, !.after = head.lastSeq,
                                   !.profile = head.profile, !.oldest = oldest]
           new == WithMessages(fresh, M)
           rows == {m \in MessageIDs : Stored(m)}
<1>1. /\ session[r].pc = "list" /\ session' = [session EXCEPT ![r] = NoSession]
      /\ UNCHANGED <<channel, messages, changes>>
      /\ copy' = [copy EXCEPT ![r] = IF @.joined \/ r \notin Followers THEN @ ELSE new]
  BY DEF FinishSubscribe, ownerVars
<1>2. /\ session \in [Subscribers -> Session] /\ copy \in [Subscribers -> Copy]
      /\ messages \in [MessageIDs -> Message] /\ head \in Channel /\ Exists
      /\ HeadOK(r)
  BY <1>1 DEF CopyInv, OwnerInv, Session, NoChannelNoCopy
<1>3. CASE copy[r].joined \/ r \notin Followers
  <2>1. copy' = copy
    BY <1>1, <1>2, <1>3
  <2>2. QED
    BY <1>1, <2>1, NoSessionOK, SessionOnly
<1>4. CASE ~(copy[r].joined \/ r \notin Followers)
  <2>1. copy' = [copy EXCEPT ![r] = new]
    BY <1>1, <1>2, <1>4
  <2>2. /\ M \subseteq rows /\ \A m \in M, k \in rows : k >= m => k \in M
        /\ rows # {} => M # {}
    <3>1. {m \in MessageIDs : Stored(m) /\ (0 > 0 => m < 0)} = rows
      OBVIOUS
    <3>2. 0 \in Nat /\ PageLimit \in Nat \ {0}
      BY PublicChannelAssumption
    <3> HIDE DEF rows
    <3>3. QED
      BY <3>1, <3>2, PageOfMessages
  <2>3. M \in SUBSET MessageIDs /\ M \in SUBSET Nat
    BY <2>2 DEF MessageIDs
  <2> HIDE DEF M
  <2>4. M # {} => Min(M) \in M /\ Min(M) >= 1
    <3> SUFFICES ASSUME M # {} PROVE Min(M) \in M /\ Min(M) >= 1
      OBVIOUS
    <3>1. Min(M) \in M
      BY <2>3, LeastOf
    <3>2. \A m \in MessageIDs : m >= 1
      BY DEF MessageIDs
    <3>3. QED
      BY <2>3, <3>1, <3>2
  <2>5. oldest \in Nat /\ oldest >= 1
    <3>1. CASE M = {}
      BY <3>1
    <3>2. CASE M # {}
      BY <2>3, <2>4, <3>2
    <3>3. QED
      BY <3>1, <3>2
  <2>6. head.lastSeq \in Nat /\ head.profile \in Nat
    BY <1>2 DEF Channel
  <2>0. PICK n \in Nat : n = session[r].head.lastSeq
    BY <2>6
  <2> HIDE DEF head, oldest
  <2>7. /\ fresh \in Copy /\ fresh.joined /\ fresh.after = head.lastSeq
        /\ fresh.profile = head.profile /\ fresh.oldest = oldest
        /\ \A m \in MessageIDs : fresh.held[m] = 0
    <3>1. \A m \in MessageIDs : NoCopy.held[m] = 0
      BY DEF NoCopy
    <3> DEFINE made(b) == [NoCopy EXCEPT !.joined = b, !.after = head.lastSeq,
                                         !.profile = head.profile, !.oldest = oldest]
    <3>2. ASSUME NEW b \in BOOLEAN
          PROVE  /\ made(b) \in Copy /\ made(b).joined = b
                 /\ made(b).after = head.lastSeq /\ made(b).profile = head.profile
                 /\ made(b).oldest = oldest /\ made(b).held = NoCopy.held
      <4>1. NoCopy \in Copy /\ head.lastSeq \in Int
        BY <2>6, NoSessionOK
      <4>2. made(b) \in Copy
        BY <2>5, <2>6, <4>1 DEF Copy
      <4>3. /\ made(b).after = head.lastSeq /\ made(b).profile = head.profile
            /\ made(b).oldest = oldest /\ made(b).held = NoCopy.held
        BY <4>1 DEF Copy
      <4>4. made(b).joined = b
        BY <4>1 DEF Copy
      <4>5. QED
        BY <4>2, <4>3, <4>4
    <3>5. fresh = made(TRUE) /\ TRUE \in BOOLEAN
      OBVIOUS
    <3> HIDE DEF made, fresh
    <3>3. /\ fresh \in Copy /\ fresh.joined = TRUE /\ fresh.after = head.lastSeq
          /\ fresh.profile = head.profile /\ fresh.oldest = oldest
          /\ fresh.held = NoCopy.held
      BY <3>2, <3>5, Zenon
    <3>4. QED
      BY <3>1, <3>3
  <2> HIDE DEF fresh
  <2>8. /\ new \in Copy /\ new.joined /\ new.after = head.lastSeq
        /\ new.profile = head.profile
        /\ new.oldest = IF M = {} THEN oldest ELSE Min(M \cup {oldest})
        /\ \A m \in MessageIDs : new.held[m] = IF m \in M THEN messages[m].version
                                               ELSE 0
    <3>1. /\ new \in Copy /\ new.joined = fresh.joined /\ new.after = fresh.after
          /\ new.profile = fresh.profile
          /\ new.oldest = IF M = {} THEN fresh.oldest ELSE Min(M \cup {fresh.oldest})
          /\ \A m \in MessageIDs : new.held[m] = IF m \in M THEN messages[m].version
                                                 ELSE fresh.held[m]
      <4>1. messages \in [MessageIDs -> Message] /\ fresh \in Copy
        BY <1>2, <2>7
      <4>2. QED
        <5>1. new \in Copy /\ new.after = fresh.after /\ new.profile = fresh.profile
          BY <2>3, <4>1, ReadMessages
        <5>2. new.joined = fresh.joined
          BY <2>3, <4>1, ReadMessages
        <5>3. new.oldest = IF M = {} THEN fresh.oldest ELSE Min(M \cup {fresh.oldest})
          BY <2>3, <4>1, ReadMessages
        <5>4. /\ \A m \in M : new.held[m] = messages[m].version
              /\ \A m \in MessageIDs \ M : new.held[m] = fresh.held[m]
          BY <2>3, <4>1, ReadMessages
        <5>5. QED
          BY <5>1, <5>2, <5>3, <5>4
    <3> HIDE DEF new
    <3>2. QED
      BY <2>7, <3>1
  <2>9. new.oldest = oldest
    <3>1. M # {} => M \cup {oldest} = M
      BY <2>4 DEF oldest
    <3>2. QED
      BY <2>8, <3>1 DEF oldest
  <2> HIDE DEF new
  <2>10. session'[r] = NoSession /\ copy'[r] = new
    BY <1>1, <1>2, <2>1
  <2>11. WillLearn(r, n, {})'
    <3> SUFFICES ASSUME NEW x \in Objects, Wants(r, x)', Has(r, x)' # Latest(x)'
                 PROVE  \E c \in changes : Tells(c, x) /\ c.seq > n
      BY <1>1 DEF WillLearn, Tells, Latest
    <3>1. CASE x = 0
      <4>1. head.profile # channel.profile
        BY <1>1, <2>8, <2>10, <3>1 DEF Has, Latest
      <4>2. QED
        BY <1>1, <1>2, <2>0, <3>1, <4>1 DEF HeadOK, head
    <3>2. CASE x # 0
      <4>1. x \in MessageIDs /\ new.held[x] # messages[x].version
        BY <1>1, <2>10, <3>2 DEF Objects, Has, Latest
      <4>2. x \notin M /\ new.held[x] = 0
        BY <2>8, <4>1
      <4>3. x \in rows /\ x >= oldest
        BY <1>1, <2>9, <2>10, <3>2, <4>1, <4>2 DEF Wants, Stored
      <4>4. oldest \in M
        BY <2>2, <2>4, <4>3 DEF oldest
      <4>5. QED
        BY <2>2, <4>2, <4>3, <4>4
    <3>3. QED
      BY <3>1, <3>2
  <2>12. CopyOK(r)'
    BY <1>1, <1>2, <2>0, <2>5, <2>8, <2>9, <2>10, <2>11 DEF CopyOK, HeadOK, head
  <2>13. PageOK(r)' /\ HeadOK(r)'
    BY <2>10, NoSessionOK DEF PageOK, HeadOK
  <2>14. QED
    BY <1>1, <1>2, <2>1, <2>8, <2>12, <2>13, NoSessionOK, OneSubscriber
<1>5. QED
  BY <1>3, <1>4

\* Older messages: everything from the new oldest one to the old one is read.
LEMMA LoadOlderKeeps ==
    ASSUME CopyInv, OwnerInv, NEW r \in Subscribers, LoadOlder(r)
    PROVE  CopyInv'
<1>1. PICK k : k = copy[r]
  OBVIOUS
<1> DEFINE M == ListMessages(k.oldest, PageLimit)
           new == WithMessages(k, M)
           rows == {m \in MessageIDs : Stored(m) /\ (k.oldest > 0 => m < k.oldest)}
<1>2. /\ copy' = [copy EXCEPT ![r] = new] /\ session[r].pc = "idle" /\ k.joined
      /\ UNCHANGED <<channel, messages, changes, session>>
  BY <1>1 DEF LoadOlder, ownerVars, CopyInv
<1>3. /\ session \in [Subscribers -> Session] /\ copy \in [Subscribers -> Copy]
      /\ messages \in [MessageIDs -> Message] /\ Exists
      /\ k \in Copy /\ k.oldest \in Nat /\ k.oldest >= 1 /\ k.after <= channel.lastSeq
      /\ WillLearn(r, k.after, {})
  BY <1>1, <1>2 DEF CopyInv, CopyOK, OwnerInv, NoChannelNoCopy, Copy
<1>4. M \subseteq rows /\ \A m \in M, j \in rows : j >= m => j \in M
  <2>1. PageLimit \in Nat \ {0}
    BY PublicChannelAssumption
  <2>2. QED
    BY <1>3, <2>1, PageOfMessages
<1>5. M \in SUBSET MessageIDs /\ MessageIDs \subseteq Nat /\ \A m \in MessageIDs : m >= 1
  BY <1>4 DEF MessageIDs
<1> HIDE DEF M
<1>6. /\ new \in Copy /\ new.joined = k.joined /\ new.after = k.after
      /\ new.profile = k.profile
      /\ new.oldest = IF M = {} THEN k.oldest ELSE Min(M \cup {k.oldest})
      /\ \A m \in M : new.held[m] = messages[m].version
      /\ \A m \in MessageIDs \ M : new.held[m] = k.held[m]
  BY <1>3, <1>5, ReadMessages
<1> HIDE DEF new
<1>7. /\ new.oldest \in M \cup {k.oldest} /\ new.oldest >= 1
  <2>1. CASE M = {}
    BY <1>3, <1>6, <2>1
  <2>2. CASE M # {}
    <3>1. M \cup {k.oldest} \in SUBSET Nat /\ M \cup {k.oldest} # {}
      BY <1>3, <1>5
    <3>2. Min(M \cup {k.oldest}) \in M \cup {k.oldest}
      BY <3>1, LeastOf
    <3>3. QED
      BY <1>3, <1>5, <1>6, <2>2, <3>2
  <2>3. QED
    BY <2>1, <2>2
<1>8. copy'[r] = new /\ session'[r] = session[r]
  BY <1>2, <1>3
<1>9. WillLearn(r, k.after, {})'
  <2> SUFFICES ASSUME NEW x \in Objects, Wants(r, x)', Has(r, x)' # Latest(x)'
               PROVE  \E c \in changes : Tells(c, x) /\ c.seq > k.after
    BY <1>2 DEF WillLearn, Tells, Latest
  <2>1. Latest(x)' = Latest(x)
    BY <1>2 DEF Latest
  <2>2. ASSUME Wants(r, x), Has(r, x) # Latest(x)
        PROVE  \E c \in changes : Tells(c, x) /\ c.seq > k.after
    BY <1>3, <2>2 DEF WillLearn
  <2>3. CASE x = 0
    BY <1>1, <1>6, <1>8, <2>1, <2>2, <2>3 DEF Has, Wants
  <2>4. CASE x # 0
    <3>1. x \in MessageIDs /\ new.held[x] # messages[x].version
      BY <1>2, <1>8, <2>4 DEF Objects, Has, Latest
    <3>2. x \notin M /\ new.held[x] = k.held[x]
      BY <1>6, <3>1
    <3>3. k.held[x] # 0 \/ (Stored(x) /\ x >= k.oldest)
      <4>1. ASSUME k.held[x] = 0, ~(x >= k.oldest) PROVE FALSE
        <5>1. Stored(x) /\ x >= new.oldest
          BY <1>2, <1>8, <2>4, <3>2, <4>1 DEF Wants, Stored
        <5>2. x \in rows
          BY <1>3, <1>5, <3>1, <4>1, <5>1
        <5>3. new.oldest \in M
          BY <1>7, <4>1, <5>1
        <5>4. QED
          BY <1>4, <3>2, <5>1, <5>2, <5>3
      <4>2. k.held[x] = 0 => Stored(x)
        BY <1>2, <1>8, <2>4, <3>2 DEF Wants, Stored
      <4>3. QED
        BY <4>1, <4>2
    <3>4. QED
      BY <1>1, <2>2, <2>4, <3>1, <3>2, <3>3 DEF Wants, Has, Latest
  <2>5. QED
    BY <2>3, <2>4
<1>10. CopyOK(r)'
  BY <1>2, <1>3, <1>6, <1>7, <1>8, <1>9 DEF CopyOK
<1>11. PageOK(r)' /\ HeadOK(r)'
  BY <1>2, <1>8 DEF PageOK, HeadOK
<1>12. session[r] \in Session /\ session' = [session EXCEPT ![r] = session[r]]
  BY <1>2, <1>3
<1>13. QED
  BY <1>2, <1>3, <1>6, <1>10, <1>11, <1>12, OneSubscriber

\* A page holds everything the log tells between the two numbers.
LEMMA ReadChangesKeeps ==
    ASSUME CopyInv, OwnerInv, HistoryInv, NEW r \in Subscribers, ReadChanges(r)
    PROVE  CopyInv'
<1>1. PICK k, after, limit : /\ k = copy[r] /\ after = copy[r].after
                             /\ limit = session[r].limit
  OBVIOUS
<1> DEFINE rows == ListChanges(after, limit)
           items == {c \in rows : Cardinality({d \in rows : d.seq <= c.seq}) <= limit}
           more == Cardinality(rows) > limit
           next == NextAfterSeq(items, after)
           s == [session[r] EXCEPT !.pc = "apply", !.page = items, !.more = more,
                                   !.next = next]
<1>2. /\ session' = [session EXCEPT ![r] = s]
      /\ UNCHANGED <<channel, messages, changes, copy>>
  BY <1>1 DEF ReadChanges, ownerVars
<1>3. /\ session \in [Subscribers -> Session] /\ session[r] \in Session
      /\ copy \in [Subscribers -> Copy] /\ after \in Int /\ limit \in Nat
      /\ IsFiniteSet(changes) /\ changes \subseteq Change /\ channel.lastSeq \in Nat
      /\ CopyOK(r)
  BY <1>1 DEF CopyInv, HistoryInv, OwnerInv, Channel, Copy, Session
<1>4. /\ items \subseteq rows /\ rows \subseteq changes
      /\ \A d \in items, c \in changes : c.seq > after /\ c.seq <= d.seq => c \in items
  BY <1>3, PageOfChanges
<1>5. more \in BOOLEAN
  OBVIOUS
<1> HIDE DEF items, more
<1>6. items \subseteq changes /\ \A c \in changes : c.seq \in 1 .. channel.lastSeq
  BY <1>4 DEF OwnerInv, ChangesGapFree
<1>7. /\ items = {} => next = after
      /\ items # {} => /\ next \in 0 .. channel.lastSeq
                       /\ \E d \in items : d.seq = next
  <2>1. CASE items = {}
    BY <2>1 DEF NextAfterSeq
  <2>2. CASE items # {}
    <3> DEFINE S == {c.seq : c \in items}
    <3>1. S \in SUBSET (0 .. channel.lastSeq) /\ S # {}
      BY <1>3, <1>6, <2>2
    <3>2. next = Max(S)
      BY <2>2 DEF NextAfterSeq
    <3> HIDE DEF next
    <3>3. next \in S
      BY <1>3, <3>1, <3>2, GreatestOf
    <3>4. QED
      BY <2>2, <3>1, <3>3
  <2>3. QED
    BY <2>1, <2>2
<1> HIDE DEF next
<1>8. next \in Int
  BY <1>3, <1>7
<1>9. items \in SUBSET Change
  BY <1>3, <1>6
<1>10. s \in Session
  BY <1>3, <1>5, <1>8, <1>9 DEF Session
<1>11. s.pc = "apply" /\ s.page = items /\ s.next = next
  BY <1>3 DEF Session
<1> HIDE DEF s
<1>12. session'[r] = s
  BY <1>2, <1>3
<1>13. ASSUME copy[r].joined
       PROVE  next <= channel.lastSeq /\ WillLearn(r, next, items)
  <2>1. after <= channel.lastSeq /\ WillLearn(r, after, {})
    BY <1>1, <1>3, <1>13 DEF CopyOK
  <2>2. next <= channel.lastSeq
    BY <1>3, <1>7, <2>1
  <2>3. ASSUME NEW c \in changes, c.seq > after PROVE c.seq > next \/ c \in items
    BY <1>3, <1>4, <1>6, <1>7, <1>8, <2>3
  <2>4. QED
    BY <2>1, <2>2, <2>3 DEF WillLearn
<1>14. PageOK(r)'
  <2>1. \A n, S : WillLearn(r, n, S)' <=> WillLearn(r, n, S)
    BY <1>2 DEF WillLearn, Has, Wants, Stored, Latest, Tells
  <2>2. QED
    BY <1>2, <1>11, <1>12, <1>13, <2>1 DEF PageOK
<1>15. QED
  BY <1>2, <1>10, <1>11, <1>14, SessionOnly

\* A change applied: the copy gets the newest state of the object, whatever has
\* been written to it since.
LEMMA ApplyChangeKeeps ==
    ASSUME CopyInv, OwnerInv, NEW r \in Subscribers, ApplyChange(r)
    PROVE  CopyInv'
<1>1. PICK c \in session[r].page :
        /\ session' = [session EXCEPT ![r].page = @ \ {c}]
        /\ copy' = [copy EXCEPT ![r] = IF c.msg = 0
                      THEN [@ EXCEPT !.profile = channel.profile]
                      ELSE [@ EXCEPT !.held[c.msg] = messages[c.msg].version]]
        /\ session[r].pc = "apply"
        /\ UNCHANGED <<channel, messages, changes>>
  BY DEF ApplyChange, ownerVars
<1>2. PICK k : k = copy[r]
  OBVIOUS
<1> DEFINE s == [session[r] EXCEPT !.page = @ \ {c}]
           new == IF c.msg = 0 THEN [k EXCEPT !.profile = channel.profile]
                  ELSE [k EXCEPT !.held[c.msg] = messages[c.msg].version]
<1>3. /\ session \in [Subscribers -> Session] /\ session[r] \in Session
      /\ copy \in [Subscribers -> Copy] /\ k \in Copy
      /\ channel \in Channel /\ messages \in [MessageIDs -> Message]
  BY <1>2 DEF CopyInv, OwnerInv
<1>4. session' = [session EXCEPT ![r] = s] /\ copy' = [copy EXCEPT ![r] = new]
  BY <1>1, <1>2, <1>3
<1>5. /\ s \in Session /\ s.pc = "apply" /\ s.page = session[r].page \ {c}
      /\ s.next = session[r].next
  BY <1>1, <1>3 DEF Session
<1>6. /\ new \in Copy /\ new.joined = k.joined /\ new.after = k.after
      /\ new.oldest = k.oldest
      /\ c.msg = 0 => new.profile = channel.profile /\ new.held = k.held
      /\ c.msg # 0 => new.profile = k.profile
      /\ c.msg # 0 => \A m \in MessageIDs :
           new.held[m] = IF m = c.msg THEN messages[m].version ELSE k.held[m]
  <2>1. CASE c.msg = 0
    <3>1. new = [k EXCEPT !.profile = channel.profile] /\ channel.profile \in Nat
      BY <1>3, <2>1 DEF Channel
    <3>2. QED
      BY <1>3, <2>1, <3>1 DEF Copy
  <2>2. CASE c.msg # 0
    <3> DEFINE held == [k.held EXCEPT ![c.msg] = messages[c.msg].version]
    <3>1. new = [k EXCEPT !.held = held]
      BY <1>3, <2>2 DEF Copy
    <3>2. /\ held \in [MessageIDs -> Nat]
          /\ \A m \in MessageIDs :
               held[m] = IF m = c.msg THEN messages[m].version ELSE k.held[m]
      BY <1>3 DEF Copy, Message
    <3> HIDE DEF held, new
    <3>3. /\ new \in Copy /\ new.joined = k.joined /\ new.after = k.after
          /\ new.oldest = k.oldest /\ new.profile = k.profile /\ new.held = held
      BY <1>3, <3>1, <3>2 DEF Copy
    <3>4. QED
      BY <2>2, <3>2, <3>3
  <2>3. QED
    BY <2>1, <2>2
<1> HIDE DEF s, new
<1>7. copy'[r] = new /\ session'[r] = s
  BY <1>3, <1>4
<1>8. ASSUME NEW n, NEW S, WillLearn(r, n, S) PROVE WillLearn(r, n, S \ {c})'
  <2> SUFFICES ASSUME NEW x \in Objects, Wants(r, x)', Has(r, x)' # Latest(x)'
               PROVE  \E d \in changes : Tells(d, x) /\ (d.seq > n \/ d \in S \ {c})
    BY <1>1 DEF WillLearn, Tells, Latest
  <2>1. Latest(x)' = Latest(x)
    BY <1>1 DEF Latest
  <2>2. x # c.msg
    <3>1. CASE x = 0
      BY <1>6, <1>7, <2>1, <3>1 DEF Has, Latest
    <3>2. CASE x # 0
      BY <1>6, <1>7, <2>1, <3>2 DEF Has, Latest, Objects
    <3>3. QED
      BY <3>1, <3>2
  <2>3. Has(r, x)' = Has(r, x)
    BY <1>2, <1>6, <1>7, <2>2 DEF Has, Objects
  <2>4. Wants(r, x)
    <3>1. CASE x = 0
      BY <3>1 DEF Wants
    <3>2. CASE x # 0
      <4>1. new.held[x] = k.held[x]
        BY <1>6, <2>2, <3>2 DEF Objects
      <4>2. QED
        BY <1>1, <1>2, <1>6, <1>7, <4>1 DEF Wants, Stored
    <3>3. QED
      BY <3>1, <3>2
  <2>5. PICK d \in changes : Tells(d, x) /\ (d.seq > n \/ d \in S)
    BY <1>8, <2>1, <2>3, <2>4 DEF WillLearn
  <2>6. d # c
    BY <2>2, <2>5 DEF Tells
  <2>7. QED
    BY <2>5, <2>6
<1>9. CopyOK(r) /\ PageOK(r)
  BY DEF CopyInv
<1>10. CopyOK(r)'
  <2>1. {} \ {c} = {}
    OBVIOUS
  <2>2. WillLearn(r, k.after, {}) => WillLearn(r, k.after, {})'
    BY <1>8, <2>1
  <2>3. QED
    BY <1>1, <1>2, <1>6, <1>7, <1>9, <2>2 DEF CopyOK
<1>11. PageOK(r)'
  <2>1. PICK n, S : n = session[r].next /\ S = session[r].page
    OBVIOUS
  <2>2. WillLearn(r, n, S) => WillLearn(r, n, S \ {c})'
    BY <1>8
  <2>3. QED
    BY <1>1, <1>2, <1>5, <1>6, <1>7, <1>9, <2>1, <2>2 DEF PageOK
<1>12. HeadOK(r)'
  BY <1>5, <1>7 DEF HeadOK
<1>13. Exists \/ ~new.joined
  BY <1>2, <1>6 DEF CopyInv, NoChannelNoCopy
<1>14. QED
  BY <1>1, <1>4, <1>5, <1>6, <1>10, <1>11, <1>12, <1>13, OneSubscriber

\* The page is behind the copy when it is empty.
LEMMA FinishChangesKeeps ==
    ASSUME CopyInv, NEW r \in Subscribers, FinishChanges(r)
    PROVE  CopyInv'
<1>1. PICK k, n : k = copy[r] /\ n = session[r].next
  OBVIOUS
<1> DEFINE new == [k EXCEPT !.after = n]
<1>2. /\ session[r].pc = "apply" /\ session[r].page = {}
      /\ session' = [session EXCEPT ![r] = NoSession]
      /\ UNCHANGED <<channel, messages, changes>>
  BY DEF FinishChanges, ownerVars
<1>3. /\ session \in [Subscribers -> Session] /\ copy \in [Subscribers -> Copy]
      /\ k \in Copy /\ n \in Int
  BY <1>1 DEF CopyInv, Session
<1>4. copy' = [copy EXCEPT ![r] = new]
  BY <1>1, <1>3 DEF FinishChanges
<1>5. /\ new \in Copy /\ new.after = n /\ new.joined = k.joined
      /\ new.oldest = k.oldest /\ new.profile = k.profile /\ new.held = k.held
  BY <1>3 DEF Copy
<1> HIDE DEF new
<1>6. copy'[r] = new /\ session'[r] = NoSession
  BY <1>2, <1>3, <1>4
<1>7. WillLearn(r, n, {})' <=> WillLearn(r, n, {})
  BY <1>1, <1>2, <1>5, <1>6 DEF WillLearn, Has, Wants, Stored, Latest, Tells
<1>8. CopyOK(r)'
  <2>1. CopyOK(r) /\ PageOK(r)
    BY DEF CopyInv
  <2>2. QED
    BY <1>1, <1>2, <1>5, <1>6, <1>7, <2>1 DEF CopyOK, PageOK
<1>9. PageOK(r)' /\ HeadOK(r)'
  BY <1>6, NoSessionOK DEF PageOK, HeadOK
<1>10. Exists \/ ~new.joined
  BY <1>1, <1>5 DEF CopyInv, NoChannelNoCopy
<1>11. QED
  BY <1>2, <1>4, <1>5, <1>8, <1>9, <1>10, NoSessionOK, OneSubscriber

\* Every step keeps the copies on their way to the newest state.
LEMMA CopyStep ==
    ASSUME SubInv, OwnerInv, HistoryInv, CopyInv, [PCNext]_pcVars
    PROVE  CopyInv'
<1>1. CASE UNCHANGED pcVars
  BY <1>1, CopySame DEF pcVars
<1>2. CASE \E u \in Users : CreateChannel(u)
  BY <1>2, CreateKeepsCopies
<1>3. CASE \E h \in Handlers : \/ WriteStep(h) \/ TxFails(h)
                              \/ \E u \in Users : WriteRequest(h, u)
  BY <1>3, OwnerKeepsCopies
<1>4. ASSUME NEW r \in Subscribers,
             \/ \E n \in SeenInputs : SubscribeChannel(r, n)
             \/ LoadOlder(r)
             \/ Poll(r)
             \/ SessionStep(r)
             \/ RequestLost(r)
      PROVE  CopyInv'
  BY <1>4, RequestSteps, LoadOlderKeeps, FinishSubscribeKeeps, ReadChangesKeeps,
     ApplyChangeKeeps, FinishChangesKeeps DEF SessionStep
<1>5. QED
  BY <1>1, <1>2, <1>3, <1>4 DEF PCNext

PCInv == SubInv /\ OwnerInv /\ HistoryInv /\ CopyInv

\* The four parts of the invariant hold in every reachable state.
THEOREM ChannelSafe == PCSpec => []PCInv
<1>1. PCInit => PCInv
  BY SubInit, OwnerInit, HistoryInit, CopyInit DEF PCInv
<1>2. PCInv /\ [PCNext]_pcVars => PCInv'
  BY SubStep, OwnerStep, HistoryStep, CopyStep DEF PCInv
<1>3. QED
  BY <1>1, <1>2, PTL DEF PCSpec

\* The change log tells the whole history of every message: no id is skipped, no
\* version is missing, told twice or out of order, and the last one is what the
\* message row says, for any writes that overlap or fail.
THEOREM LogIsHistory == PCSpec => []LogMatchesMessages
<1>1. PCInv => LogMatchesMessages
  BY DEF PCInv, SubInv, OwnerInv, HistoryInv, CopyInv, StoredIDs, HistoryOf,
         LogMatchesMessages, PCTypeOK
<1>2. QED
  BY <1>1, ChannelSafe, PTL

\* A subscriber that has read the log up to last_seq holds the newest state of
\* the profile and of every message since its oldest page, although it read the
\* head, the messages and the pages of the log at different times and the owner
\* went on writing (SubscribeChannel, ListChannelMessages, ListChannelChanges).
THEOREM FollowersCatchUp == PCSpec => []CaughtUp
<1>1. PCInv => CaughtUp
  <2> SUFFICES ASSUME PCInv, NEW r \in Subscribers, copy[r].joined,
                      copy[r].after = channel.lastSeq
               PROVE  Current(r)
    BY DEF CaughtUp
  <2>1. WillLearn(r, channel.lastSeq, {})
    BY DEF PCInv, CopyInv, CopyOK
  <2>2. \A c \in changes : ~(c.seq > channel.lastSeq)
    BY DEF PCInv, OwnerInv, ChangesGapFree, Channel
  <2>3. \A x \in Objects : Wants(r, x) => Has(r, x) = Latest(x)
    BY <2>1, <2>2 DEF WillLearn
  <2>4. 0 \notin MessageIDs
    BY DEF MessageIDs
  <2>5. QED
    BY <2>3, <2>4 DEF Current, Objects, Wants, Has, Latest, Stored
<1>2. QED
  BY <1>1, ChannelSafe, PTL
=============================================================================
