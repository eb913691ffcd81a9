-------------------------- MODULE Realtime_proofs --------------------------
(***************************************************************************)
(* Proofs about Realtime, for any clients, users, rooms, buffers and       *)
(* bounds: the indexes of the hub agree, nobody is taken back to an older  *)
(* state, and nothing written after a revocation is pushed.                *)
(***************************************************************************)
EXTENDS Realtime, TLAPS, SequenceTheorems

\* The hub: a client with a reader at work is registered, so what the reader
\* subscribes to is in the hub as long as the client is.
HubInv ==
    /\ registered \subseteq Clients
    /\ rooms \in [Rooms -> SUBSET Clients]
    /\ subs \in [Clients -> SUBSET Rooms]
    /\ reader \in [Clients -> Reader]
    /\ \A c \in Clients, r \in Rooms :
          /\ c \in rooms[r] <=> r \in subs[c]
          /\ c \in rooms[r] => c \in registered
    /\ \A c \in Clients : reader[c].pc \notin {"none", "done"} => c \in registered
-----------------------------------------------------------------------------
\* The hub is empty.
LEMMA InitHub == RTInit => HubInv
  BY DEF RTInit, HubInv, Reader, NoReader

\* A connection without a reader.
LEMMA NoReaderOK == NoReader \in Reader /\ NoReader.pc = "none"
  BY DEF NoReader, Reader

\* A step of a registered client's reader that leaves the hub alone.
LEMMA ReaderMoves ==
    ASSUME HubInv, NEW c \in Clients, NEW new \in Reader,
           reader' = [reader EXCEPT ![c] = new],
           new.pc \notin {"none", "done"} => c \in registered',
           UNCHANGED <<rooms, subs>>, registered \subseteq registered',
           registered' \subseteq Clients
    PROVE  HubInv'
  BY DEF HubInv

\* What readers do without the hub.
LEMMA ReaderKeepsHub ==
    ASSUME HubInv, NEW c \in Clients,
           \/ Connect(c) \/ PeerGone(c) \/ ReadClosed(c) \/ SubscribeNone(c)
           \/ BeginAck(c) \/ EndAck(c) \/ AckPanics(c) \/ CloseOnReturn(c)
           \/ \E R \in SUBSET Rooms : ReadSubscribe(c, R)
           \/ \E r \in Rooms : CheckAccess(c, r)
    PROVE  HubInv'
<1>0. reader[c] \in Reader /\ reader \in [Clients -> Reader]
  BY DEF HubInv
<1>1. CASE Connect(c)
  <2> DEFINE new == [reader[c] EXCEPT !.pc = "reading"]
  <2>1. new \in Reader /\ reader' = [reader EXCEPT ![c] = new]
    BY <1>0, <1>1 DEF Connect, Reader
  <2> HIDE DEF new
  <2>2. QED
    BY <1>1, <2>1, ReaderMoves DEF Connect, HubInv
<1>2. ASSUME UNCHANGED hubVars, reader[c].pc \notin {"none", "done"},
             NEW new \in Reader, reader' = [reader EXCEPT ![c] = new]
      PROVE  HubInv'
  BY <1>2, ReaderMoves DEF HubInv, hubVars
<1>3. ASSUME UNCHANGED hubVars, reader[c].pc \notin {"none", "done"},
             NEW pc \in {"reading", "close", "acking", "unregister"},
             reader' = [reader EXCEPT ![c].pc = pc]
      PROVE  HubInv'
  <2> DEFINE new == [reader[c] EXCEPT !.pc = pc]
  <2>1. new \in Reader /\ reader' = [reader EXCEPT ![c] = new]
    BY <1>0, <1>3 DEF Reader
  <2> HIDE DEF new
  <2>2. QED
    BY <1>2, <1>3, <2>1
<1>4. CASE PeerGone(c)
  BY <1>3, <1>4 DEF PeerGone, ReaderOnly
<1>5. CASE ReadClosed(c)
  BY <1>3, <1>5 DEF ReadClosed, ReaderOnly
<1>6. CASE SubscribeNone(c)
  BY <1>3, <1>6 DEF SubscribeNone, ReaderOnly
<1>7. CASE BeginAck(c) \/ EndAck(c)
  BY <1>3, <1>7 DEF BeginAck, EndAck, ReaderOnly
<1>8. CASE AckPanics(c)
  BY <1>3, <1>8 DEF AckPanics, ReaderOnly
<1>9. CASE CloseOnReturn(c)
  BY <1>3, <1>9 DEF CloseOnReturn
<1>10. ASSUME NEW R \in SUBSET Rooms, ReadSubscribe(c, R) PROVE HubInv'
  <2> DEFINE new == [reader[c] EXCEPT !.pc = "check", !.todo = R]
  <2>1. new \in Reader /\ reader' = [reader EXCEPT ![c] = new]
    BY <1>0, <1>10 DEF Reader, ReadSubscribe
  <2> HIDE DEF new
  <2>2. QED
    BY <1>2, <1>10, <2>1 DEF ReadSubscribe, ReaderOnly
<1>11. ASSUME NEW r \in Rooms, CheckAccess(c, r) PROVE HubInv'
  <2>1. PICK A \in SUBSET Rooms :
          reader' = [reader EXCEPT ![c].todo = @ \ {r}, ![c].allowed = A]
    <3>1. reader[c].allowed \in SUBSET Rooms
          /\ reader[c].allowed \cup {r} \in SUBSET Rooms
      BY <1>0 DEF Reader
    <3>2. QED
      BY <1>0, <1>11, <3>1 DEF CheckAccess
  <2> DEFINE new == [reader[c] EXCEPT !.todo = @ \ {r}, !.allowed = A]
  <2>2. new \in Reader /\ reader' = [reader EXCEPT ![c] = new]
    BY <1>0, <2>1 DEF Reader
  <2> HIDE DEF new
  <2>3. QED
    BY <1>2, <1>11, <2>2 DEF CheckAccess, ReaderOnly
<1>12. QED
  BY <1>1, <1>4, <1>5, <1>6, <1>7, <1>8, <1>9, <1>10, <1>11

\* The methods of the hub change both indexes together.
LEMMA HubMethods ==
    ASSUME HubInv, NEW c \in Clients,
           \/ Subscribe(c) \/ Unregister(c)
           \/ \E R \in SUBSET Rooms : Unsubscribe(c, R)
    PROVE  HubInv'
<1>0. reader[c] \in Reader /\ reader \in [Clients -> Reader]
  BY DEF HubInv
<1>1. CASE Subscribe(c)
  <2> DEFINE R == reader[c].allowed
             new == [reader[c] EXCEPT !.pc = "ack", !.allowed = {}]
  <2>1. new \in Reader /\ reader' = [reader EXCEPT ![c] = new]
        /\ R \in SUBSET Rooms /\ c \in registered
    BY <1>0, <1>1 DEF Reader, Subscribe, HubInv
  <2>2. /\ rooms' = [r \in Rooms |-> IF r \in R THEN rooms[r] \cup {c} ELSE rooms[r]]
        /\ subs' = [subs EXCEPT ![c] = @ \cup R] /\ registered' = registered
    BY <1>1 DEF Subscribe
  <2> HIDE DEF new, R
  <2>3. QED
    BY <2>1, <2>2 DEF HubInv
<1>2. ASSUME NEW R \in SUBSET Rooms, Unsubscribe(c, R) PROVE HubInv'
  <2> DEFINE new == [reader[c] EXCEPT !.pc = "ack"]
  <2>1. new \in Reader /\ reader' = [reader EXCEPT ![c] = new] /\ c \in registered
    BY <1>0, <1>2 DEF Reader, Unsubscribe, HubInv
  <2>2. /\ rooms' = [r \in Rooms |-> IF r \in R THEN rooms[r] \ {c} ELSE rooms[r]]
        /\ subs' = [subs EXCEPT ![c] = @ \ R] /\ registered' = registered
    BY <1>2 DEF Unsubscribe
  <2> HIDE DEF new
  <2>3. QED
    BY <2>1, <2>2 DEF HubInv
<1>3. CASE Unregister(c)
  <2> DEFINE new == [NoReader EXCEPT !.pc = "done"]
  <2>1. new \in Reader /\ new.pc = "done"
    BY NoReaderOK DEF Reader
  <2>2. reader' = [reader EXCEPT ![c] = new]
    BY <1>3 DEF Unregister
  <2>3. /\ rooms' = [r \in Rooms |-> IF r \in subs[c] THEN rooms[r] \ {c}
                                     ELSE rooms[r]]
        /\ subs' = [subs EXCEPT ![c] = {}] /\ registered' = registered \ {c}
    BY <1>3 DEF Unregister
  <2> HIDE DEF new
  <2>4. QED
    BY <2>1, <2>2, <2>3 DEF HubInv
<1>4. QED
  BY <1>1, <1>2, <1>3

\* Every step keeps the hub consistent.
LEMMA StepHub ==
    ASSUME HubInv, [RTNext]_rtVars
    PROVE  HubInv'
<1>1. CASE UNCHANGED <<registered, rooms, subs, reader>>
  BY <1>1 DEF HubInv
<1>2. CASE UNCHANGED rtVars
  BY <1>1, <1>2 DEF rtVars
<1>3. CASE Services
  BY <1>1, <1>3 DEF Services, Write, ChangeAccess, Publish, PublishFails,
                    DropEvent, hubVars
<1>4. CASE ConsumerStep
  BY <1>1, <1>4 DEF ConsumerStep, Receive, BroadcastDone, PickClient, Render, Send,
                    SendFull, SendPanics, ConsumerOnly, hubVars
<1>5. ASSUME NEW c \in Clients, WriterStep(c) PROVE HubInv'
  BY <1>1, <1>5 DEF WriterStep, WriterStops, Ping, BeginWrite, WriteDone,
                    WriteFails, Step, hubVars
<1>6. ASSUME NEW c \in Clients, ReaderStep(c) \/ Peer(c) PROVE HubInv'
  BY <1>6, ReaderKeepsHub, HubMethods DEF ReaderStep, Peer
<1>7. ASSUME NEW c \in Clients, AckPanics(c) \/ WritePanics(c) PROVE HubInv'
  BY <1>1, <1>7, ReaderKeepsHub DEF WritePanics, hubVars
<1>8. QED
  BY <1>2, <1>3, <1>4, <1>5, <1>6, <1>7 DEF RTNext, SecondWriterNoticed
-----------------------------------------------------------------------------
(***************************************************************************)
(* Delivery.  A version may be shown to a user if it has been written, and *)
(* not after the user was last shut out.                                   *)
(***************************************************************************)
MayHold(u, r, v) ==
    /\ v <= version[r]
    /\ r \notin access[u] => v <= revokedAt[u][r]

\* Nothing pushed to c for room r is newer than v.
AtMost(c, r, v) ==
    \A i \in DOMAIN Pushed(c) : Pushed(c)[i].room = r => Pushed(c)[i].version <= v

DeliveryType ==
    /\ version \in [Rooms -> Nat]
    /\ access \in [Users -> SUBSET Rooms]
    /\ revokedAt \in [Users -> [Rooms -> Nat]]
    /\ unpublished \subseteq Event
    /\ bus \in Seq(Event)
    /\ queue \in [Clients -> Seq(Event)]
    /\ inbox \in [Clients -> Seq(Event)]
    /\ \A c \in Clients : Len(queue[c]) <= Buffer
    /\ consumer \in Consumer

\* What is in the consumer's cache may be shown to its user; the client at hand
\* is no longer to do, and gets what the cache holds.
ConsumerOK ==
    /\ consumer.pc # "receive" =>
         /\ consumer.event \in Event
         /\ \A u \in Users : MayHold(u, consumer.event.room, consumer.cache[u])
    /\ consumer.pc \in {"check", "send"} =>
         /\ consumer.cur \in Clients \ consumer.todo
         /\ consumer.read <= version[consumer.event.room]
    /\ consumer.pc = "send" => consumer.read = consumer.cache[UserOf[consumer.cur]]

PushedOK ==
    \A c \in Clients : \A i \in DOMAIN Pushed(c) :
        MayHold(UserOf[c], Pushed(c)[i].room, Pushed(c)[i].version)

\* The clients still to do hold nothing newer than what is about to be sent.
PendingOK ==
    /\ consumer.pc # "receive" =>
         \A c \in consumer.todo, u \in Users :
            consumer.cache[u] # 0 => AtMost(c, consumer.event.room, consumer.cache[u])
    /\ consumer.pc \in {"check", "send"} =>
         \A c \in consumer.todo \cup {consumer.cur} :
            AtMost(c, consumer.event.room, consumer.read)

DeliveryInv ==
    DeliveryType /\ ConsumerOK /\ PushedOK /\ NeverBackwards /\ PendingOK
-----------------------------------------------------------------------------
\* A consumer between two events has an empty cache.
LEMMA ReceivingOK ==
    /\ Receiving \in Consumer
    /\ Receiving.pc = "receive"
    /\ \A u \in Users : Receiving.cache[u] = 0
  BY DEF Receiving, Consumer

\* What is pushed to a client are events of rooms.
LEMMA PushedType ==
    ASSUME DeliveryType, NEW c \in Clients
    PROVE  /\ Pushed(c) \in Seq(Event)
           /\ \A i \in DOMAIN Pushed(c) : Pushed(c)[i] \in Event
                /\ Pushed(c)[i].room \in Rooms /\ Pushed(c)[i].version \in Nat
<1>1. Pushed(c) \in Seq(Event)
  BY DEF DeliveryType, Pushed
<1> DEFINE s == Pushed(c)
<1>2. s \in Seq(Event) /\ DOMAIN s = 1 .. Len(s)
  BY <1>1
<1> HIDE DEF s
<1>3. \A i \in DOMAIN s : s[i] \in Event
  BY <1>2, ElementOfSeq
<1>4. \A i \in DOMAIN s : s[i].room \in Rooms /\ s[i].version \in Nat
  BY <1>3 DEF Event
<1>5. QED
  BY <1>2, <1>3, <1>4 DEF s

\* Nothing has been pushed.
LEMMA InitDelivery == RTInit => DeliveryInv
<1> SUFFICES ASSUME RTInit PROVE DeliveryInv
  OBVIOUS
<1>1. DeliveryType
  BY ReceivingOK, RealtimeAssumption DEF RTInit, DeliveryType
<1>2. \A c \in Clients : DOMAIN Pushed(c) = {}
  <2>1. <<>> \o <<>> = <<>> /\ DOMAIN <<>> = {}
    OBVIOUS
  <2>2. \A c \in Clients : Pushed(c) = <<>> \o <<>>
    BY DEF RTInit, Pushed
  <2>3. QED
    BY <2>1, <2>2
<1>3. QED
  BY <1>1, <1>2, ReceivingOK DEF RTInit, DeliveryInv, ConsumerOK, PushedOK,
                                 NeverBackwards, PendingOK

\* Pushed is queue and inbox, and nothing else.
LEMMA PushedSame ==
    ASSUME UNCHANGED <<queue, inbox>>
    PROVE  \A c : Pushed(c)' = Pushed(c)
  BY DEF Pushed

\* Events move between handlers and Redis: nothing is pushed.
LEMMA EventsMove ==
    ASSUME DeliveryInv,
           UNCHANGED <<version, access, revokedAt, queue, inbox, consumer>>,
           bus' \in Seq(Event), unpublished' \subseteq Event
    PROVE  DeliveryInv'
<1>1. DeliveryType'
  BY DEF DeliveryInv, DeliveryType
<1>2. ConsumerOK'
  BY DEF DeliveryInv, ConsumerOK, MayHold
<1>3. PushedOK' /\ NeverBackwards'
  <2>1. \A c : Pushed(c)' = Pushed(c)
    BY PushedSame
  <2>2. \A u, r, v : MayHold(u, r, v)' <=> MayHold(u, r, v)
    BY DEF MayHold
  <2>3. QED
    BY <2>1, <2>2 DEF DeliveryInv, PushedOK, NeverBackwards
<1>4. PendingOK'
  BY DEF DeliveryInv, PendingOK, AtMost, Pushed
<1>5. QED
  BY <1>1, <1>2, <1>3, <1>4 DEF DeliveryInv

\* A write or a change of access takes no version from anyone who may hold it.
LEMMA DatabaseMoves ==
    ASSUME DeliveryInv, DeliveryType', UNCHANGED <<queue, inbox, consumer>>,
           \A u \in Users, r \in Rooms, v \in Nat :
              MayHold(u, r, v) => MayHold(u, r, v)',
           \A r \in Rooms : version[r] <= version'[r]
    PROVE  DeliveryInv'
<1> USE RealtimeAssumption
<1>1. \A c \in Clients : UserOf[c] \in Users /\ Pushed(c)' = Pushed(c)
  BY PushedSame
<1>2. ConsumerOK'
  <2>1. /\ consumer \in Consumer
        /\ version \in [Rooms -> Nat] /\ version' \in [Rooms -> Nat]
    BY DEF DeliveryInv, DeliveryType
  <2>2. consumer.pc # "receive" =>
          /\ consumer.event \in Event
          /\ \A u \in Users : MayHold(u, consumer.event.room, consumer.cache[u])'
    <3>1. ASSUME consumer.pc # "receive"
          PROVE  consumer.event \in Event /\ consumer.event.room \in Rooms
      BY <3>1 DEF DeliveryInv, ConsumerOK, Event
    <3>2. ASSUME NEW u \in Users PROVE consumer.cache[u] \in Nat
      BY <2>1, <3>2 DEF Consumer
    <3>3. QED
      BY <3>1, <3>2 DEF DeliveryInv, ConsumerOK
  <2>3. consumer.pc \in {"check", "send"} =>
          consumer.read <= version'[consumer.event.room]
    BY <2>1 DEF DeliveryInv, ConsumerOK, Consumer, Event
  <2>4. QED
    BY <2>2, <2>3 DEF DeliveryInv, ConsumerOK
<1>3. PushedOK'
  <2> SUFFICES ASSUME NEW c \in Clients, NEW i \in DOMAIN Pushed(c)
               PROVE  MayHold(UserOf[c], Pushed(c)[i].room, Pushed(c)[i].version)'
    BY <1>1 DEF PushedOK
  <2>1. Pushed(c)[i].room \in Rooms /\ Pushed(c)[i].version \in Nat
    BY PushedType DEF DeliveryInv
  <2>2. MayHold(UserOf[c], Pushed(c)[i].room, Pushed(c)[i].version)
    BY DEF DeliveryInv, PushedOK
  <2>3. QED
    BY <1>1, <2>1, <2>2
<1>4. NeverBackwards'
  BY <1>1 DEF DeliveryInv, NeverBackwards
<1>5. PendingOK'
  BY DEF DeliveryInv, PendingOK, AtMost, Pushed
<1>6. QED
  BY <1>2, <1>3, <1>4, <1>5 DEF DeliveryInv

\* A write makes newer states, and no pushed one newer.
LEMMA WriteKeeps ==
    ASSUME DeliveryInv, NEW r \in Rooms, Write(r)
    PROVE  DeliveryInv'
<1>1. version \in [Rooms -> Nat] /\ version' = [version EXCEPT ![r] = @ + 1]
      /\ version' \in [Rooms -> Nat] /\ access' = access /\ revokedAt' = revokedAt
  BY DEF DeliveryInv, DeliveryType, Write
<1>2. [room |-> r, version |-> version[r] + 1] \in Event
  BY <1>1 DEF Event
<1>3. DeliveryType'
  BY <1>1, <1>2 DEF DeliveryInv, DeliveryType, Write, connVars
<1>4. \A s \in Rooms : version[s] <= version'[s]
  BY <1>1
<1>5. \A u \in Users, s \in Rooms, v \in Nat : MayHold(u, s, v) => MayHold(u, s, v)'
  BY <1>1, <1>4 DEF MayHold
<1>6. QED
  BY <1>3, <1>4, <1>5, DatabaseMoves DEF Write, connVars

\* What a user who loses access holds is at most what the room is then.
LEMMA AccessKeeps ==
    ASSUME DeliveryInv, NEW u \in Users, NEW r \in Rooms, ChangeAccess(u, r)
    PROVE  DeliveryInv'
<1>1. /\ version \in [Rooms -> Nat] /\ access \in [Users -> SUBSET Rooms]
      /\ revokedAt \in [Users -> [Rooms -> Nat]] /\ version' = version
  BY DEF DeliveryInv, DeliveryType, ChangeAccess
<1>2. ASSUME access' \in [Users -> SUBSET Rooms],
             revokedAt' \in [Users -> [Rooms -> Nat]]
      PROVE  DeliveryType'
  BY <1>2 DEF DeliveryInv, DeliveryType, ChangeAccess, connVars, busVars
<1>3. ASSUME DeliveryType', NEW w \in Users, NEW s \in Rooms, NEW v \in Nat,
             MayHold(w, s, v)
      PROVE  MayHold(w, s, v)'
  BY <1>1, <1>3 DEF MayHold, ChangeAccess
<1>4. access' \in [Users -> SUBSET Rooms] /\ revokedAt' \in [Users -> [Rooms -> Nat]]
  <2>1. CASE access' = [access EXCEPT ![u] = @ \cup {r}] /\ UNCHANGED revokedAt
    BY <1>1, <2>1
  <2>2. CASE /\ access' = [access EXCEPT ![u] = @ \ {r}]
             /\ revokedAt' = [revokedAt EXCEPT ![u][r] = version[r]]
    <3>1. access' \in [Users -> SUBSET Rooms]
      BY <1>1, <2>2
    <3>2. version[r] \in Nat /\ revokedAt[u] \in [Rooms -> Nat]
      BY <1>1
    <3>3. [revokedAt[u] EXCEPT ![r] = version[r]] \in [Rooms -> Nat]
      BY <3>2
    <3>4. revokedAt' = [revokedAt EXCEPT ![u] = [revokedAt[u] EXCEPT ![r] = version[r]]]
      BY <2>2
    <3>5. revokedAt' \in [Users -> [Rooms -> Nat]]
      BY <1>1, <3>3, <3>4
    <3>6. QED
      BY <3>1, <3>5
  <2>3. QED
    BY <2>1, <2>2 DEF ChangeAccess
<1>5. \A s \in Rooms : version[s] <= version'[s]
  BY <1>1
<1>6. QED
  BY <1>2, <1>3, <1>4, <1>5, DatabaseMoves DEF ChangeAccess, connVars

\* new is old without some of its events: f tells where each of them was.
Thins(new, old) ==
    \E f \in [DOMAIN new -> DOMAIN old] :
       /\ \A i \in DOMAIN new : new[i] = old[f[i]]
       /\ \A i, j \in DOMAIN new : i < j => f[i] < f[j]

\* The writer takes the head of the channel: the peer gets it, or nobody does.
LEMMA HeadTaken ==
    ASSUME NEW s \in Seq(Event), NEW t \in Seq(Event), t # <<>>,
           NEW s2 \in {s, Append(s, Head(t))}
    PROVE  Thins(s2 \o Tail(t), s \o t)
<1> DEFINE new == s2 \o Tail(t)
           old == s \o t
           k == IF s2 = s THEN 1 ELSE 0
           f == [i \in DOMAIN new |-> IF i <= Len(s) THEN i ELSE i + k]
<1>1. /\ Tail(t) \in Seq(Event) /\ Len(Tail(t)) = Len(t) - 1 /\ Len(t) \in Nat \ {0}
      /\ Head(t) = t[1] /\ Head(t) \in Event
      /\ \A i \in 1 .. Len(t) - 1 : Tail(t)[i] = t[i + 1]
  BY HeadTailProperties, EmptySeq
<1>2. /\ DOMAIN old = 1 .. Len(s) + Len(t) /\ Len(s) \in Nat
      /\ \A i \in 1 .. Len(s) : old[i] = s[i]
      /\ \A i \in Len(s) + 1 .. Len(s) + Len(t) : old[i] = t[i - Len(s)]
  BY ConcatProperties
<1> HIDE DEF old, new
<1>3. CASE s2 = s
  <2>1. /\ DOMAIN new = 1 .. Len(s) + Len(t) - 1
        /\ \A i \in 1 .. Len(s) : new[i] = s[i]
        /\ \A i \in Len(s) + 1 .. Len(s) + Len(t) - 1 : new[i] = t[i + 1 - Len(s)]
    BY <1>1, <1>2, <1>3, ConcatProperties DEF new
  <2>2. \A i \in DOMAIN new : f[i] = IF i <= Len(s) THEN i ELSE i + 1
    BY <1>3
  <2>3. f \in [DOMAIN new -> DOMAIN old]
    BY <1>1, <1>2, <1>3, <2>1
  <2> HIDE DEF f
  <2>4. ASSUME NEW i \in DOMAIN new PROVE new[i] = old[f[i]]
    <3>1. CASE i <= Len(s)
      BY <1>2, <2>1, <2>2, <3>1
    <3>2. CASE ~(i <= Len(s))
      <4>1. /\ i \in Len(s) + 1 .. Len(s) + Len(t) - 1 /\ f[i] = i + 1
            /\ i + 1 \in Len(s) + 1 .. Len(s) + Len(t)
        BY <1>1, <1>2, <2>1, <2>2, <3>2
      <4>2. QED
        BY <1>2, <2>1, <4>1
    <3>3. QED
      BY <3>1, <3>2
  <2>5. \A i, j \in DOMAIN new : i < j => f[i] < f[j]
    BY <1>1, <1>2, <2>1, <2>2
  <2>6. QED
    BY <2>3, <2>4, <2>5 DEF Thins, old, new
<1>4. CASE s2 = Append(s, Head(t)) /\ s2 # s
  <2>1. s2 \in Seq(Event) /\ Len(s2) = Len(s) + 1
        /\ \A i \in 1 .. Len(s) : s2[i] = s[i]
        /\ s2[Len(s) + 1] = t[1]
    BY <1>1, <1>2, <1>4, AppendProperties
  <2>2. /\ DOMAIN new = 1 .. Len(s) + Len(t)
        /\ \A i \in 1 .. Len(s) + 1 : new[i] = s2[i]
        /\ \A i \in Len(s) + 2 .. Len(s) + Len(t) : new[i] = Tail(t)[i - (Len(s) + 1)]
    <3> DEFINE t2 == Tail(t)
    <3>1. /\ t2 \in Seq(Event) /\ Len(t2) = Len(t) - 1 /\ new = s2 \o t2
      BY <1>1 DEF new
    <3> HIDE DEF t2
    <3>2. /\ Len(new) = Len(s2) + Len(t2) /\ new \in Seq(Event)
          /\ \A i \in 1 .. Len(s2) + Len(t2) :
                new[i] = IF i <= Len(s2) THEN s2[i] ELSE t2[i - Len(s2)]
      <4>1. /\ Len(s2 \o t2) = Len(s2) + Len(t2) /\ s2 \o t2 \in Seq(Event)
            /\ \A i \in 1 .. Len(s2) + Len(t2) :
                  (s2 \o t2)[i] = IF i <= Len(s2) THEN s2[i] ELSE t2[i - Len(s2)]
        BY <2>1, <3>1, ConcatProperties
      <4>2. QED
        BY <3>1, <4>1
    <3>3. Len(s2) + Len(t2) = Len(s) + Len(t)
      BY <1>1, <1>2, <2>1, <3>1
    <3>4. DOMAIN new = 1 .. Len(s) + Len(t)
      BY <3>2, <3>3
    <3>5. \A i \in 1 .. Len(s) + Len(t) :
            new[i] = IF i <= Len(s) + 1 THEN s2[i] ELSE t2[i - (Len(s) + 1)]
      BY <2>1, <3>2, <3>3
    <3>6. QED
      BY <1>1, <1>2, <3>4, <3>5 DEF t2
  <2>3. \A i \in DOMAIN new : f[i] = i
    BY <1>1, <1>2, <1>4, <2>2
  <2>4. f \in [DOMAIN new -> DOMAIN old]
    BY <1>1, <1>2, <1>4, <2>2
  <2> HIDE DEF f
  <2>5. ASSUME NEW i \in DOMAIN new PROVE new[i] = old[f[i]]
    <3>1. CASE i <= Len(s)
      BY <1>2, <2>1, <2>2, <2>3, <3>1
    <3>2. CASE i = Len(s) + 1
      <4>1. Len(s) + 1 \in Len(s) + 1 .. Len(s) + Len(t) /\ Len(s) + 1 \in 1 .. Len(s) + 1
            /\ (Len(s) + 1) - Len(s) = 1
        BY <1>1, <1>2
      <4>2. new[Len(s) + 1] = t[1] /\ old[Len(s) + 1] = t[1]
        BY <1>2, <2>1, <2>2, <4>1
      <4>3. QED
        BY <2>3, <3>2, <4>2
    <3>3. CASE ~(i <= Len(s) + 1)
      <4>1. i \in Len(s) + 2 .. Len(s) + Len(t) /\ i \in Len(s) + 1 .. Len(s) + Len(t)
        BY <1>1, <1>2, <2>2, <3>3
      <4>2. i - (Len(s) + 1) \in 1 .. Len(t) - 1
            /\ (i - (Len(s) + 1)) + 1 = i - Len(s)
        BY <1>1, <1>2, <4>1
      <4>3. new[i] = t[i - Len(s)]
        BY <1>1, <2>2, <4>1, <4>2
      <4>4. QED
        BY <1>2, <2>3, <4>1, <4>3
    <3>4. QED
      <4>1. i \in Nat /\ Len(s) \in Nat
        BY <1>1, <1>2, <2>2
      <4>2. i <= Len(s) \/ i = Len(s) + 1 \/ ~(i <= Len(s) + 1)
        BY <4>1
      <4>3. QED
        BY <3>1, <3>2, <3>3, <4>2
  <2>6. \A i, j \in DOMAIN new : i < j => f[i] < f[j]
    BY <2>3
  <2>7. QED
    BY <2>4, <2>5, <2>6 DEF Thins, old, new
<1>5. QED
  BY <1>3, <1>4

\* The writer goroutine takes the head of the channel and writes it, or loses it
\* with the connection.
LEMMA WriterKeeps ==
    ASSUME DeliveryInv, NEW c \in Clients, BeginWrite(c)
    PROVE  DeliveryInv'
<1>1. /\ queue \in [Clients -> Seq(Event)] /\ inbox \in [Clients -> Seq(Event)]
      /\ queue[c] \in Seq(Event) /\ inbox[c] \in Seq(Event) /\ queue[c] # <<>>
  BY DEF DeliveryInv, DeliveryType, BeginWrite
<1>2. /\ Tail(queue[c]) \in Seq(Event) /\ Len(Tail(queue[c])) <= Buffer
      /\ Head(queue[c]) \in Event
  <2>1. Len(Tail(queue[c])) = Len(queue[c]) - 1 /\ Len(queue[c]) \in Nat
    BY <1>1
  <2>2. QED
    BY <1>1, <2>1, HeadTailProperties, RealtimeAssumption DEF DeliveryInv, DeliveryType
<1>3. /\ queue' = [queue EXCEPT ![c] = Tail(queue[c])]
      /\ UNCHANGED <<version, access, revokedAt, unpublished, bus, consumer>>
  BY DEF BeginWrite, Step, dbVars, busVars
<1>4. PICK b \in {inbox[c], Append(inbox[c], Head(queue[c]))} :
        inbox' = [inbox EXCEPT ![c] = b]
  BY <1>1 DEF BeginWrite
<1>5. b \in Seq(Event)
  <2>1. Append(inbox[c], Head(queue[c])) \in Seq(Event)
    BY <1>1, <1>2, AppendProperties
  <2>2. QED
    BY <1>1, <1>4, <2>1
<1>6. DeliveryType'
  BY <1>1, <1>2, <1>3, <1>4, <1>5 DEF DeliveryInv, DeliveryType
<1>7. /\ \A d \in Clients \ {c} : Pushed(d)' = Pushed(d)
      /\ Pushed(c)' = b \o Tail(queue[c]) /\ Pushed(c) = inbox[c] \o queue[c]
  BY <1>1, <1>3, <1>4 DEF Pushed
<1>8. PICK f \in [DOMAIN Pushed(c)' -> DOMAIN Pushed(c)] :
        /\ \A i \in DOMAIN Pushed(c)' : Pushed(c)'[i] = Pushed(c)[f[i]]
        /\ \A i, j \in DOMAIN Pushed(c)' : i < j => f[i] < f[j]
  <2> DEFINE new == b \o Tail(queue[c])
             old == inbox[c] \o queue[c]
  <2>1. Thins(new, old)
    BY <1>1, HeadTaken
  <2>2. Pushed(c)' = new /\ Pushed(c) = old
    BY <1>7
  <2> HIDE DEF new, old
  <2>3. QED
    BY <2>1, <2>2 DEF Thins
<1>9. \A u, r, v : MayHold(u, r, v)' <=> MayHold(u, r, v)
  BY <1>3 DEF MayHold
<1>10. \A d \in Clients : \A r, v : AtMost(d, r, v) => AtMost(d, r, v)'
  BY <1>7, <1>8 DEF AtMost
<1>11. ConsumerOK'
  BY <1>3, <1>9 DEF DeliveryInv, ConsumerOK
<1>12. PushedOK'
  BY <1>7, <1>8, <1>9 DEF DeliveryInv, PushedOK
<1>13. NeverBackwards'
  <2> SUFFICES ASSUME NEW d \in Clients, NEW i \in DOMAIN Pushed(d)',
                      NEW j \in DOMAIN Pushed(d)', i < j,
                      Pushed(d)'[i].room = Pushed(d)'[j].room
               PROVE  Pushed(d)'[i].version <= Pushed(d)'[j].version
    BY DEF NeverBackwards
  <2>1. CASE d # c
    BY <1>7, <2>1 DEF DeliveryInv, NeverBackwards
  <2>2. CASE d = c
    BY <1>8, <2>2 DEF DeliveryInv, NeverBackwards
  <2>3. QED
    BY <2>1, <2>2
<1>14. PendingOK'
  <2>1. consumer.pc # "receive" => consumer.todo \subseteq Clients
    BY DEF DeliveryInv, DeliveryType, Consumer
  <2>2. consumer.pc \in {"check", "send"} => consumer.cur \in Clients
    BY DEF DeliveryInv, ConsumerOK
  <2>3. QED
    BY <1>3, <1>10, <2>1, <2>2 DEF DeliveryInv, PendingOK
<1>15. QED
  BY <1>6, <1>11, <1>12, <1>13, <1>14 DEF DeliveryInv
-----------------------------------------------------------------------------
\* The consumer between two sends: nothing is pushed.
LEMMA ConsumerMoves ==
    ASSUME DeliveryInv, ConsumerOnly, UNCHANGED unpublished, bus' \in Seq(Event),
           consumer' \in Consumer, ConsumerOK', PendingOK'
    PROVE  DeliveryInv'
<1>1. UNCHANGED <<version, access, revokedAt, queue, inbox>>
  BY DEF ConsumerOnly, dbVars, connVars
<1>2. DeliveryType'
  BY <1>1 DEF DeliveryInv, DeliveryType
<1>3. \A c : Pushed(c)' = Pushed(c)
  BY <1>1, PushedSame
<1>4. \A u, r, v : MayHold(u, r, v)' <=> MayHold(u, r, v)
  BY <1>1 DEF MayHold
<1>5. PushedOK' /\ NeverBackwards'
  BY <1>3, <1>4 DEF DeliveryInv, PushedOK, NeverBackwards
<1>6. QED
  BY <1>2, <1>5 DEF DeliveryInv

\* Steps of the consumer alone change neither the database nor what is pushed.
LEMMA SameDatabase ==
    ASSUME ConsumerOnly
    PROVE  /\ version' = version /\ access' = access
           /\ \A c : Pushed(c)' = Pushed(c)
           /\ \A u, r, v : MayHold(u, r, v)' <=> MayHold(u, r, v)
           /\ \A c, r, v : AtMost(c, r, v)' <=> AtMost(c, r, v)
<1>1. UNCHANGED <<version, access, revokedAt, queue, inbox>>
  BY DEF ConsumerOnly, dbVars, connVars
<1>2. QED
  BY <1>1 DEF MayHold, AtMost, Pushed

\* Taking an event starts a broadcast to the clients of its room, with nothing
\* rendered.
LEMMA ReceiveKeeps ==
    ASSUME DeliveryInv, HubInv, Receive
    PROVE  DeliveryInv'
<1>1. Head(bus) \in Event /\ Head(bus).room \in Rooms /\ bus' \in Seq(Event)
  <2>1. bus \in Seq(Event) /\ bus # <<>> /\ bus' = Tail(bus)
    BY DEF Receive, DeliveryInv, DeliveryType
  <2>2. Head(bus) \in Event /\ Tail(bus) \in Seq(Event)
    BY <2>1, HeadTailProperties
  <2>3. QED
    BY <2>1, <2>2 DEF Event
<1>2. rooms[Head(bus).room] \in SUBSET Clients
  BY <1>1 DEF HubInv
<1>3. consumer' = [Receiving EXCEPT !.pc = "pick", !.event = Head(bus),
                                    !.todo = rooms[Head(bus).room]]
      /\ ConsumerOnly /\ UNCHANGED unpublished
  BY DEF Receive
<1> DEFINE e == Head(bus)
           R == rooms[Head(bus).room]
<1> HIDE DEF e, R
<1>4. /\ consumer' \in Consumer /\ consumer'.pc = "pick" /\ consumer'.event = Head(bus)
      /\ \A u \in Users : consumer'.cache[u] = 0
  BY <1>1, <1>2, <1>3, ReceivingOK DEF Consumer
<1>5. ConsumerOK'
  <2>1. \A u \in Users, r \in Rooms : MayHold(u, r, 0)
    BY DEF MayHold, DeliveryInv, DeliveryType
  <2>2. ASSUME NEW u \in Users
        PROVE  MayHold(u, consumer.event.room, consumer.cache[u])'
    <3>1. \A r \in Rooms : MayHold(u, r, 0)'
      BY <1>3, <2>1, SameDatabase
    <3>2. consumer'.event.room \in Rooms /\ consumer'.cache[u] = 0
      BY <1>1, <1>4
    <3>3. QED
      BY <3>1, <3>2 DEF MayHold
  <2>3. QED
    BY <1>1, <1>4, <2>2 DEF ConsumerOK
<1>6. PendingOK'
  BY <1>4, <1>2 DEF PendingOK, Consumer
<1>7. QED
  BY <1>1, <1>3, <1>4, <1>5, <1>6, ConsumerMoves

\* The end of a broadcast drops the cache.
LEMMA BroadcastDoneKeeps ==
    ASSUME DeliveryInv, BroadcastDone
    PROVE  DeliveryInv'
<1>1. /\ consumer' \in Consumer /\ consumer'.pc = "receive"
  BY ReceivingOK DEF BroadcastDone
<1>2. ConsumerOK' /\ PendingOK'
  BY <1>1 DEF ConsumerOK, PendingOK
<1>3. QED
  BY <1>1, <1>2, ConsumerMoves DEF BroadcastDone, busVars, DeliveryInv, DeliveryType

\* The next client gets what its user has in the cache, or has it read now.
LEMMA PickKeeps ==
    ASSUME DeliveryInv, NEW c \in Clients, PickClient(c)
    PROVE  DeliveryInv'
<1> DEFINE u == UserOf[c]
           cached == consumer.cache[u]
           r == consumer.event.room
<1>1. /\ consumer \in Consumer /\ consumer.pc = "pick" /\ c \in consumer.todo
      /\ consumer.event \in Event /\ r \in Rooms /\ u \in Users /\ cached \in Nat
      /\ version[r] \in Nat /\ consumer.todo \in SUBSET Clients
      /\ \A w \in Users : MayHold(w, r, consumer.cache[w])
  BY RealtimeAssumption
     DEF PickClient, DeliveryInv, DeliveryType, ConsumerOK, Consumer, Event
<1>2. PICK pc \in {"check", "send"}, v \in Nat :
        /\ consumer' = [consumer EXCEPT !.todo = @ \ {c}, !.cur = c, !.pc = pc,
                                        !.read = v]
        /\ pc = "send" => v = cached /\ cached # 0
        /\ pc = "check" => v = version[r]
  <2>1. CASE cached # 0
    BY <1>1, <2>1 DEF PickClient
  <2>2. CASE cached = 0
    BY <1>1, <2>2 DEF PickClient, ReadMessage
  <2>3. QED
    BY <2>1, <2>2
<1>3. ConsumerOnly /\ UNCHANGED busVars
  BY DEF PickClient
<1>4. /\ consumer' \in Consumer /\ consumer'.pc = pc /\ consumer'.event = consumer.event
      /\ consumer'.todo = consumer.todo \ {c} /\ consumer'.cur = c
      /\ consumer'.read = v /\ consumer'.cache = consumer.cache
  BY <1>1, <1>2 DEF Consumer
<1>5. v <= version[r]
  BY <1>1, <1>2 DEF MayHold
<1>6. ConsumerOK'
  <2>1. \A w \in Users : MayHold(w, r, consumer.cache[w])'
    <3>1. \A w, s, x : MayHold(w, s, x)' <=> MayHold(w, s, x)
      BY <1>3, SameDatabase
    <3>2. ASSUME NEW w \in Users PROVE MayHold(w, r, consumer.cache[w])'
      BY <1>1, <1>4, <3>1, <3>2 DEF MayHold
    <3>3. QED
      BY <3>2
  <2>2. version' = version
    BY <1>3, SameDatabase
  <2>3. QED
    BY <1>1, <1>2, <1>4, <1>5, <2>1, <2>2 DEF ConsumerOK
<1>7. PendingOK'
  <2>1. \A d \in consumer.todo : AtMost(d, r, v)
    <3>1. CASE pc = "send"
      BY <1>1, <1>2, <3>1 DEF DeliveryInv, PendingOK
    <3>2. CASE pc = "check"
      <4> SUFFICES ASSUME NEW d \in Clients, NEW i \in DOMAIN Pushed(d),
                          Pushed(d)[i].room = r
                   PROVE  Pushed(d)[i].version <= v
        BY <1>1 DEF AtMost
      <4>1. MayHold(UserOf[d], Pushed(d)[i].room, Pushed(d)[i].version)
        BY DEF DeliveryInv, PushedOK
      <4>2. QED
        BY <1>2, <3>2, <4>1 DEF MayHold
    <3>3. QED
      BY <3>1, <3>2
  <2>2. \A d, s, x : AtMost(d, s, x)' <=> AtMost(d, s, x)
    BY <1>3, SameDatabase
  <2>3. \A d \in consumer'.todo, w \in Users :
          consumer'.cache[w] # 0
            => AtMost(d, consumer'.event.room, consumer'.cache[w])
    BY <1>1, <1>4 DEF DeliveryInv, PendingOK
  <2>4. \A d \in consumer'.todo \cup {consumer'.cur} :
          AtMost(d, consumer'.event.room, consumer'.read)
    BY <1>1, <1>4, <2>1
  <2>5. QED
    BY <2>2, <2>3, <2>4 DEF PendingOK, AtMost
<1>8. QED
  BY <1>3, <1>4, <1>6, <1>7, ConsumerMoves DEF busVars, DeliveryInv, DeliveryType

\* A rendering for one user holds what the room was when it was read.
LEMMA RenderKeeps ==
    ASSUME DeliveryInv, Render
    PROVE  DeliveryInv'
<1> DEFINE c == consumer.cur
           u == UserOf[c]
           r == consumer.event.room
           v == consumer.read
<1>1. /\ consumer \in Consumer /\ consumer.pc = "check" /\ c \in Clients
      /\ consumer.event \in Event /\ r \in Rooms /\ u \in Users /\ v \in Nat
      /\ v <= version[r] /\ version[r] \in Nat /\ c \notin consumer.todo
      /\ consumer.todo \in SUBSET Clients
      /\ consumer.cache \in [Users -> Nat]
      /\ \A w \in Users : MayHold(w, r, consumer.cache[w])
  BY RealtimeAssumption
     DEF Render, DeliveryInv, DeliveryType, ConsumerOK, Consumer, Event
<1>2. ConsumerOnly /\ UNCHANGED busVars
  BY DEF Render
<1>3. /\ version' = version
      /\ \A w, s, x : MayHold(w, s, x)' <=> MayHold(w, s, x)
      /\ \A d, s, x : AtMost(d, s, x)' <=> AtMost(d, s, x)
  BY <1>2, SameDatabase
<1>4. /\ \A d \in consumer.todo, w \in Users :
            consumer.cache[w] # 0 => AtMost(d, r, consumer.cache[w])
      /\ \A d \in consumer.todo \cup {c} : AtMost(d, r, v)
  BY <1>1 DEF DeliveryInv, PendingOK
<1>5. CASE r \in access[u]
  <2>1. consumer' = [consumer EXCEPT !.pc = "send", !.cache = [@ EXCEPT ![u] = v]]
    BY <1>5 DEF Render, RenderAllowed
  <2>2. [consumer.cache EXCEPT ![u] = v] \in [Users -> Nat]
    BY <1>1
  <2>3. /\ consumer' \in Consumer /\ consumer'.pc = "send"
        /\ consumer'.event = consumer.event /\ consumer'.todo = consumer.todo
        /\ consumer'.cur = c /\ consumer'.read = v
        /\ consumer'.cache = [consumer.cache EXCEPT ![u] = v]
    BY <1>1, <2>1, <2>2 DEF Consumer
  <2>4. MayHold(u, r, v)
    BY <1>1, <1>5 DEF MayHold
  <2>5. \A w \in Users : MayHold(w, r, consumer'.cache[w])
    BY <1>1, <2>3, <2>4
  <2>6. ConsumerOK'
    <3>1. \A w \in Users : MayHold(w, consumer.event.room, consumer.cache[w])'
      BY <1>3, <2>3, <2>5 DEF MayHold
    <3>2. QED
      BY <1>1, <1>3, <2>3, <3>1 DEF ConsumerOK
  <2>7. PendingOK'
    <3>1. \A d \in consumer'.todo, w \in Users :
            consumer'.cache[w] # 0
              => AtMost(d, consumer'.event.room, consumer'.cache[w])
      BY <1>1, <1>4, <2>3
    <3>2. \A d \in consumer'.todo \cup {consumer'.cur} :
            AtMost(d, consumer'.event.room, consumer'.read)
      BY <1>4, <2>3
    <3>3. QED
      BY <1>3, <3>1, <3>2 DEF PendingOK, AtMost
  <2>8. QED
    BY <1>2, <2>3, <2>6, <2>7, ConsumerMoves DEF busVars, DeliveryInv, DeliveryType
<1>6. CASE r \notin access[u]
  <2>1. consumer' = [consumer EXCEPT !.pc = "pick", !.cur = NoClient, !.read = 0]
    BY <1>6 DEF Render, RenderAllowed
  <2>2. /\ consumer' \in Consumer /\ consumer'.pc = "pick"
        /\ consumer'.event = consumer.event /\ consumer'.todo = consumer.todo
        /\ consumer'.cache = consumer.cache
    BY <1>1, <2>1 DEF Consumer
  <2>3. ConsumerOK'
    <3>1. \A w \in Users : MayHold(w, consumer.event.room, consumer.cache[w])'
      BY <1>1, <1>3, <2>2 DEF MayHold
    <3>2. QED
      BY <1>1, <2>2, <3>1 DEF ConsumerOK
  <2>4. PendingOK'
    <3>1. \A d \in consumer'.todo, w \in Users :
            consumer'.cache[w] # 0
              => AtMost(d, consumer'.event.room, consumer'.cache[w])
      BY <1>4, <2>2
    <3>2. QED
      BY <1>3, <2>2, <3>1 DEF PendingOK, AtMost
  <2>5. QED
    BY <1>2, <2>2, <2>3, <2>4, ConsumerMoves DEF busVars, DeliveryInv, DeliveryType
<1>7. QED
  BY <1>5, <1>6

\* After a send, whether it was pushed or the client was closed, the next client
\* is picked.
LEMMA NextClientOK ==
    ASSUME DeliveryInv, consumer.pc = "send", NextClient,
           UNCHANGED <<version, access, revokedAt>>,
           \A d \in consumer.todo : Pushed(d)' = Pushed(d)
    PROVE  consumer' \in Consumer /\ ConsumerOK' /\ PendingOK'
<1>1. /\ consumer \in Consumer /\ consumer.event \in Event
      /\ consumer' = [consumer EXCEPT !.pc = "pick", !.cur = NoClient, !.read = 0]
  BY DEF DeliveryInv, DeliveryType, ConsumerOK, NextClient
<1>2. /\ consumer' \in Consumer /\ consumer'.pc = "pick"
      /\ consumer'.event = consumer.event /\ consumer'.todo = consumer.todo
      /\ consumer'.cache = consumer.cache
  BY <1>1 DEF Consumer
<1>3. ConsumerOK'
  <2>1. \A w \in Users : MayHold(w, consumer.event.room, consumer.cache[w])
    BY DEF DeliveryInv, ConsumerOK
  <2>2. \A w \in Users : MayHold(w, consumer.event.room, consumer.cache[w])'
    BY <1>2, <2>1 DEF MayHold
  <2>3. QED
    BY <1>1, <1>2, <2>2 DEF ConsumerOK
<1>4. PendingOK'
  <2>1. \A d \in consumer.todo, w \in Users :
          consumer.cache[w] # 0 => AtMost(d, consumer.event.room, consumer.cache[w])
    BY DEF DeliveryInv, PendingOK
  <2>2. \A d \in consumer'.todo, w \in Users :
          consumer'.cache[w] # 0
            => AtMost(d, consumer.event.room, consumer.cache[w])'
    BY <1>2, <2>1 DEF AtMost
  <2>3. QED
    BY <1>2, <2>2 DEF PendingOK
<1>5. QED
  BY <1>2, <1>3, <1>4

\* A full channel: the client is closed and gets nothing.
LEMMA SendFullKeeps ==
    ASSUME DeliveryInv, SendFull
    PROVE  DeliveryInv'
<1>1. UNCHANGED <<version, access, revokedAt, unpublished, bus, queue, inbox>>
      /\ NextClient /\ consumer.pc = "send"
  BY DEF SendFull, dbVars, busVars
<1>2. \A d : Pushed(d)' = Pushed(d)
  BY <1>1, PushedSame
<1>3. consumer' \in Consumer /\ ConsumerOK' /\ PendingOK'
  BY <1>1, <1>2, NextClientOK
<1>4. DeliveryType'
  BY <1>1, <1>3 DEF DeliveryInv, DeliveryType
<1>5. \A u, r, v : MayHold(u, r, v)' <=> MayHold(u, r, v)
  BY <1>1 DEF MayHold
<1>6. PushedOK' /\ NeverBackwards'
  BY <1>2, <1>5 DEF DeliveryInv, PushedOK, NeverBackwards
<1>7. QED
  BY <1>3, <1>4, <1>6 DEF DeliveryInv

\* A payload goes to the end of a send channel whose client has nothing newer.
LEMMA SendKeeps ==
    ASSUME DeliveryInv, Send
    PROVE  DeliveryInv'
<1>0. PICK c \in Clients, p \in {Payload} : c = consumer.cur /\ p = Payload
  BY DEF Send, DeliveryInv, ConsumerOK
<1>1. /\ consumer.pc = "send" /\ c \in Clients \ consumer.todo
      /\ consumer.event \in Event /\ consumer \in Consumer
      /\ queue \in [Clients -> Seq(Event)] /\ inbox \in [Clients -> Seq(Event)]
      /\ consumer.todo \subseteq Clients
  BY <1>0 DEF Send, DeliveryInv, DeliveryType, ConsumerOK, Consumer
<1>2. /\ p \in Event /\ p.room = consumer.event.room /\ p.version = consumer.read
      /\ MayHold(UserOf[c], p.room, p.version) /\ AtMost(c, p.room, p.version)
  <2>1. p \in Event /\ p.room = consumer.event.room /\ p.version = consumer.read
    BY <1>0, <1>1 DEF Payload, Event, Consumer
  <2>2. consumer.read = consumer.cache[UserOf[c]] /\ UserOf[c] \in Users
    BY <1>0, <1>1, RealtimeAssumption DEF DeliveryInv, ConsumerOK
  <2>3. MayHold(UserOf[c], p.room, p.version)
    BY <1>1, <2>1, <2>2 DEF DeliveryInv, ConsumerOK
  <2>4. AtMost(c, p.room, p.version)
    BY <1>0, <1>1, <2>1 DEF DeliveryInv, PendingOK
  <2>5. QED
    BY <2>1, <2>3, <2>4
<1>3. /\ UNCHANGED <<version, access, revokedAt, unpublished, bus, inbox>>
      /\ NextClient /\ queue' = [queue EXCEPT ![c] = Append(queue[c], p)]
      /\ Len(queue[c]) < Buffer
  BY <1>0 DEF Send, dbVars, busVars
<1>4. /\ \A d \in Clients \ {c} : Pushed(d)' = Pushed(d)
      /\ Pushed(c) = inbox[c] \o queue[c]
      /\ Pushed(c)' = inbox[c] \o Append(queue[c], p)
  BY <1>1, <1>3 DEF Pushed
<1>5. /\ Pushed(c) \in Seq(Event)
      /\ Pushed(c)' = Append(Pushed(c), p)
  BY <1>1, <1>2, <1>4
<1>6. /\ DOMAIN Pushed(c)' = DOMAIN Pushed(c) \cup {Len(Pushed(c)) + 1}
      /\ DOMAIN Pushed(c) = 1 .. Len(Pushed(c)) /\ Len(Pushed(c)) \in Nat
      /\ \A i \in DOMAIN Pushed(c) : Pushed(c)'[i] = Pushed(c)[i]
      /\ Pushed(c)'[Len(Pushed(c)) + 1] = p
  BY <1>2, <1>5
<1>7. consumer' \in Consumer /\ ConsumerOK' /\ PendingOK'
  <2>1. \A d \in consumer.todo : Pushed(d)' = Pushed(d)
    BY <1>1, <1>4
  <2>2. QED
    BY <1>1, <1>3, <2>1, NextClientOK
<1>8. DeliveryType'
  <2>1. Append(queue[c], p) \in Seq(Event) /\ Len(Append(queue[c], p)) <= Buffer
    BY <1>1, <1>2, <1>3, RealtimeAssumption
  <2>2. QED
    BY <1>1, <1>3, <1>7, <2>1 DEF DeliveryInv, DeliveryType
<1>9. \A u, r, v : MayHold(u, r, v)' <=> MayHold(u, r, v)
  BY <1>3 DEF MayHold
<1>10. PushedOK'
  <2> SUFFICES ASSUME NEW d \in Clients, NEW i \in DOMAIN Pushed(d)'
               PROVE  MayHold(UserOf[d], Pushed(d)[i].room, Pushed(d)[i].version)'
    BY DEF PushedOK
  <2>1. MayHold(UserOf[d], Pushed(d)'[i].room, Pushed(d)'[i].version)
    BY <1>2, <1>4, <1>6 DEF DeliveryInv, PushedOK
  <2>2. QED
    BY <1>9, <2>1 DEF MayHold
<1>11. NeverBackwards'
  <2> SUFFICES ASSUME NEW d \in Clients, NEW i \in DOMAIN Pushed(d)',
                      NEW j \in DOMAIN Pushed(d)', i < j,
                      Pushed(d)'[i].room = Pushed(d)'[j].room
               PROVE  Pushed(d)'[i].version <= Pushed(d)'[j].version
    BY DEF NeverBackwards
  <2>1. CASE d # c
    BY <1>4, <2>1 DEF DeliveryInv, NeverBackwards
  <2>2. CASE d = c /\ j \in DOMAIN Pushed(c)
    <3>1. i \in DOMAIN Pushed(c)
      BY <1>6, <2>2
    <3>2. QED
      BY <1>6, <2>2, <3>1 DEF DeliveryInv, NeverBackwards
  <2>3. CASE d = c /\ j = Len(Pushed(c)) + 1
    <3>1. i \in DOMAIN Pushed(c)
      BY <1>6, <2>3
    <3>2. QED
      BY <1>2, <1>6, <2>3, <3>1 DEF AtMost
  <2>4. QED
    BY <1>6, <2>1, <2>2, <2>3
<1>12. QED
  BY <1>7, <1>8, <1>10, <1>11 DEF DeliveryInv
-----------------------------------------------------------------------------
\* Every step keeps the deliveries in order and within what users may see.
LEMMA StepDelivery ==
    ASSUME DeliveryInv, HubInv, [RTNext]_rtVars
    PROVE  DeliveryInv'
<1>1. bus \in Seq(Event) /\ unpublished \subseteq Event
  BY DEF DeliveryInv, DeliveryType
<1>2. CASE /\ UNCHANGED <<version, access, revokedAt, queue, inbox, consumer>>
           /\ UNCHANGED <<bus, unpublished>>
  BY <1>1, <1>2, EventsMove
<1>3. CASE UNCHANGED rtVars
  BY <1>2, <1>3 DEF rtVars
<1>4. CASE Services
  <2>1. ASSUME NEW e \in unpublished, Publish(e) PROVE DeliveryInv'
    <3>1. bus' \in Seq(Event) /\ unpublished' \subseteq Event
      BY <1>1, <2>1 DEF Publish
    <3>2. QED
      BY <2>1, <3>1, EventsMove DEF Publish, dbVars, connVars
  <2>2. ASSUME NEW e \in unpublished, PublishFails(e) PROVE DeliveryInv'
    <3>1. bus' \in Seq(Event) /\ unpublished' \subseteq Event
      BY <1>1, <2>2 DEF PublishFails
    <3>2. QED
      BY <2>2, <3>1, EventsMove DEF PublishFails, dbVars, connVars
  <2>3. CASE DropEvent
    <3>1. bus' \in Seq(Event) /\ unpublished' \subseteq Event
      BY <1>1, <2>3, HeadTailProperties DEF DropEvent
    <3>2. QED
      BY <2>3, <3>1, EventsMove DEF DropEvent, dbVars, connVars
  <2>4. QED
    BY <1>4, <2>1, <2>2, <2>3, WriteKeeps, AccessKeeps DEF Services
<1>5. CASE ConsumerStep
  <2>1. CASE SendPanics
    BY <1>2, <2>1 DEF SendPanics, dbVars, busVars, connVars
  <2>2. QED
    BY <1>5, <2>1, ReceiveKeeps, BroadcastDoneKeeps, PickKeeps, RenderKeeps,
       SendKeeps, SendFullKeeps DEF ConsumerStep
<1>6. ASSUME NEW c \in Clients, WriterStep(c) PROVE DeliveryInv'
  <2>1. CASE BeginWrite(c)
    BY <2>1, WriterKeeps
  <2>2. CASE WriterStops(c) \/ Ping(c) \/ WriteDone(c) \/ WriteFails(c)
    BY <1>2, <2>2 DEF WriterStops, Ping, WriteDone, WriteFails, Step, dbVars, busVars
  <2>3. QED
    BY <1>6, <2>1, <2>2 DEF WriterStep
<1>7. ASSUME NEW c \in Clients, ReaderStep(c) PROVE DeliveryInv'
  BY <1>2, <1>7 DEF ReaderStep, ReadClosed, CheckAccess, SubscribeNone, Subscribe,
       BeginAck, EndAck, CloseOnReturn, Unregister, ReaderOnly, dbVars, busVars,
       connVars
<1>8. ASSUME NEW c \in Clients, Peer(c) PROVE DeliveryInv'
  BY <1>2, <1>8 DEF Peer, Connect, PeerGone, ReadSubscribe, Unsubscribe, ReaderOnly,
       dbVars, busVars, connVars
<1>9. ASSUME NEW c \in Clients, AckPanics(c) \/ WritePanics(c) PROVE DeliveryInv'
  BY <1>2, <1>9 DEF AckPanics, WritePanics, ReaderOnly, dbVars, busVars, connVars
<1>10. QED
  BY <1>3, <1>4, <1>5, <1>6, <1>7, <1>8, <1>9 DEF RTNext, SecondWriterNoticed

\* Both halves of the invariant hold in every reachable state.
THEOREM RealtimeSafe == RTSpec => [](HubInv /\ DeliveryInv)
<1>1. RTInit => HubInv /\ DeliveryInv
  BY InitHub, InitDelivery
<1>2. HubInv /\ DeliveryInv /\ [RTNext]_rtVars => (HubInv /\ DeliveryInv)'
  BY StepHub, StepDelivery
<1>3. QED
  BY <1>1, <1>2, PTL DEF RTSpec

\* The two indexes of the hub agree and hold registered clients only, whatever
\* readers, peers and connections do (ws/hub.go Subscribe*, Unregister); no send
\* channel holds more than its capacity.
THEOREM HubAgrees == RTSpec => []HubConsistent
<1>1. HubInv /\ DeliveryInv => HubConsistent
  BY DEF HubInv, DeliveryInv, DeliveryType, HubConsistent, RTTypeOK
<1>2. QED
  BY <1>1, RealtimeSafe, PTL

\* No client is taken back to an older state of a room, although handlers publish
\* in any order and Redis loses events: every payload is rendered from the
\* database after its event was taken (internal/app/app.go handleEvent).
THEOREM StatesGoForward == RTSpec => []NeverBackwards
<1>1. DeliveryInv => NeverBackwards
  BY DEF DeliveryInv
<1>2. QED
  BY <1>1, RealtimeSafe, PTL

\* A user that has lost access to a room is pushed nothing written since, although
\* hub and channels still know the client (BuildMessageEventForUser).
THEOREM RevokedSeeNothing == RTSpec => []NothingAfterRevocation
<1>1. DeliveryInv => NothingAfterRevocation
  BY DEF DeliveryInv, PushedOK, MayHold, NothingAfterRevocation
<1>2. QED
  BY <1>1, RealtimeSafe, PTL
=============================================================================
