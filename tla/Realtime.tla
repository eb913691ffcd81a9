------------------------------ MODULE Realtime ------------------------------
(***************************************************************************)
(* Real-time delivery in one server process: services publish an event     *)
(* after each write, Redis carries it to the consumer goroutine, and the   *)
(* hub pushes it into the send channel of every websocket client that      *)
(* subscribed to the room (internal/events/redis_bus.go,                   *)
(* internal/app/app.go, internal/transport/ws/hub.go and handler.go).      *)
(*                                                                         *)
(* Groups, DM conversations and public channels are rooms alike: the hub   *)
(* has the same code for each.  A room has one object in it, a message or  *)
(* its settings, and version counts the writes to it: the property of two  *)
(* events of one object is of interest, those of different objects are     *)
(* independent.  The goroutines are the consumer, and for each client its  *)
(* reader (the HTTP handler) and its writer.  A hub method holds the hub's *)
(* mutex and is one step.  Each Client connects once: a new connection is  *)
(* a new Client.                                                           *)
(***************************************************************************)
EXTENDS Naturals, Sequences

CONSTANTS
    Clients,        \* websocket connections
    Users,
    UserOf,         \* the user each connection authenticated as
    Rooms,
    Buffer,         \* capacity of a send channel (WS_SEND_BUFFER)
    MaxVersion,     \* bound on writes to a room
    MaxChanges,     \* bound on changes of access
    NoClient, NoRoom

ASSUME RealtimeAssumption ==
    /\ UserOf \in [Clients -> Users]
    /\ Buffer \in Nat \ {0}
    /\ MaxVersion \in Nat
    /\ MaxChanges \in Nat
    /\ NoClient \notin Clients
    /\ NoRoom \notin Rooms

VARIABLES
    version,        \* database: the state of each room, counted
    access,         \* database: the rooms each user may read
    revokedAt,      \* version a room had when a user last lost access to it
    changes,
    unpublished,    \* events of handlers that have committed, not published
    bus,            \* events on their way through Redis
    registered,     \* hub.clients
    rooms,          \* hub.groups / dmConversations / publicChannels
    subs,           \* client.groups / dmRooms / publicChannels
    queue,          \* client.Send: what is buffered in the channel
    shut,           \* clients whose Send channel is closed
    conn,           \* the websocket connection
    cancelled,      \* clients whose context is cancelled
    reader,         \* the readPump of each client
    writer,         \* the writePump of each client
    inbox,          \* what the peer of each connection has received
    consumer,       \* the goroutine that runs RedisBus.Consume
    crash           \* why the process died, or "no"

dbVars == <<version, access, revokedAt, changes>>
busVars == <<unpublished, bus>>
hubVars == <<registered, rooms, subs>>
connVars == <<queue, shut, conn, cancelled, inbox>>
rtVars == <<version, access, revokedAt, changes, unpublished, bus, registered,
            rooms, subs, queue, shut, conn, cancelled, reader, writer, inbox,
            consumer, crash>>

Event == [room : Rooms, version : Nat]

Reader == [pc : {"none", "reading", "check", "ack", "acking", "close",
                 "unregister", "done"},
           todo : SUBSET Rooms, allowed : SUBSET Rooms]

NoReader == [pc |-> "none", todo |-> {}, allowed |-> {}]

\* cache holds what has been rendered for each user, 0 if nothing.
Consumer == [pc : {"receive", "pick", "check", "send"},
             event : Event \cup {NoRoom}, todo : SUBSET Clients,
             cur : Clients \cup {NoClient}, read : Nat, cache : [Users -> Nat]]

Receiving == [pc |-> "receive", event |-> NoRoom, todo |-> {},
              cur |-> NoClient, read |-> 0, cache |-> [u \in Users |-> 0]]

RTInit ==
    /\ version = [r \in Rooms |-> 0]
    /\ access \in [Users -> SUBSET Rooms]
    /\ revokedAt = [u \in Users |-> [r \in Rooms |-> 0]]
    /\ changes = 0
    /\ unpublished = {}
    /\ bus = <<>>
    /\ registered = {}
    /\ rooms = [r \in Rooms |-> {}]
    /\ subs = [c \in Clients |-> {}]
    /\ queue = [c \in Clients |-> <<>>]
    /\ shut = {}
    /\ conn = [c \in Clients |-> "none"]
    /\ cancelled = {}
    /\ reader = [c \in Clients |-> NoReader]
    /\ writer = [c \in Clients |-> "none"]
    /\ inbox = [c \in Clients |-> <<>>]
    /\ consumer = Receiving
    /\ crash = "no"
-----------------------------------------------------------------------------
(***************************************************************************)
(* The services: a write commits, and its handler publishes it later, so   *)
(* events may be published in another order than their writes.             *)
(***************************************************************************)
Write(r) ==
    /\ version[r] < MaxVersion
    /\ version' = [version EXCEPT ![r] = @ + 1]
    /\ unpublished' = unpublished \cup {[room |-> r, version |-> version[r] + 1]}
    /\ UNCHANGED <<access, revokedAt, changes, bus, hubVars, connVars, reader,
                   writer, consumer, crash>>

\* A user joins, leaves or is banned.
ChangeAccess(u, r) ==
    /\ changes < MaxChanges
    /\ changes' = changes + 1
    /\ \/ r \notin access[u] /\ access' = [access EXCEPT ![u] = @ \cup {r}]
                             /\ UNCHANGED revokedAt
       \/ r \in access[u] /\ access' = [access EXCEPT ![u] = @ \ {r}]
                          /\ revokedAt' = [revokedAt EXCEPT ![u][r] = version[r]]
    /\ UNCHANGED <<version, busVars, hubVars, connVars, reader, writer, consumer,
                   crash>>

Publish(e) ==
    /\ e \in unpublished
    /\ unpublished' = unpublished \ {e}
    /\ bus' = Append(bus, e)
    /\ UNCHANGED <<dbVars, hubVars, connVars, reader, writer, consumer, crash>>

\* The handler fails before it publishes, or Publish fails and nobody looks.
PublishFails(e) ==
    /\ e \in unpublished
    /\ unpublished' = unpublished \ {e}
    /\ UNCHANGED <<dbVars, bus, hubVars, connVars, reader, writer, consumer, crash>>

\* Redis Pub/Sub keeps nothing for a subscriber that is away.
DropEvent ==
    /\ bus # <<>>
    /\ bus' = Tail(bus)
    /\ UNCHANGED <<dbVars, unpublished, hubVars, connVars, reader, writer,
                   consumer, crash>>
-----------------------------------------------------------------------------
(***************************************************************************)
(* A client's life: ServeHTTP                                              *)
(***************************************************************************)
\* Upgrade, Register, start of the writer.
Connect(c) ==
    /\ reader[c].pc = "none"
    /\ registered' = registered \cup {c}
    /\ conn' = [conn EXCEPT ![c] = "open"]
    /\ reader' = [reader EXCEPT ![c].pc = "reading"]
    /\ writer' = [writer EXCEPT ![c] = "select"]
    /\ UNCHANGED <<dbVars, busVars, rooms, subs, queue, shut, cancelled, inbox,
                   consumer, crash>>

\* Fault: the connection is left open.
closeClient_KeepsConn(c) == cancelled' = cancelled \cup {c} /\ UNCHANGED conn

\* Client.close: cancels the context and closes the connection, once.
closeClient(c) ==
    /\ cancelled' = cancelled \cup {c}
    /\ conn' = [conn EXCEPT ![c] = "closed"]

\* The first deferred call when readPump has returned ...
CloseOnReturn(c) ==
    /\ reader[c].pc = "close"
    /\ closeClient(c)
    /\ reader' = [reader EXCEPT ![c].pc = "unregister"]
    /\ UNCHANGED <<dbVars, busVars, hubVars, queue, shut, inbox, writer, consumer,
                   crash>>

\* Fault: the rooms keep the client.
Unregister_KeepsRooms(c) ==
    /\ reader[c].pc = "unregister"
    /\ registered' = registered \ {c}
    /\ subs' = [subs EXCEPT ![c] = {}]
    /\ shut' = shut \cup {c}
    /\ reader' = [reader EXCEPT ![c] = [NoReader EXCEPT !.pc = "done"]]
    /\ UNCHANGED <<dbVars, busVars, rooms, queue, conn, cancelled, inbox, writer,
                   consumer, crash>>

\* ... and the second: the hub forgets the client and closes its channel.
Unregister(c) ==
    /\ reader[c].pc = "unregister"
    /\ registered' = registered \ {c}
    /\ rooms' = [r \in Rooms |-> IF r \in subs[c] THEN rooms[r] \ {c} ELSE rooms[r]]
    /\ subs' = [subs EXCEPT ![c] = {}]
    /\ shut' = shut \cup {c}
    /\ reader' = [reader EXCEPT ![c] = [NoReader EXCEPT !.pc = "done"]]
    /\ UNCHANGED <<dbVars, busVars, queue, conn, cancelled, inbox, writer,
                   consumer, crash>>
-----------------------------------------------------------------------------
(***************************************************************************)
(* readPump                                                                *)
(***************************************************************************)
ReaderOnly == UNCHANGED <<dbVars, busVars, hubVars, connVars, writer, consumer,
                          crash>>

\* ReadJSON fails because the connection is closed, or ctx.Done is seen.
ReadClosed(c) ==
    /\ reader[c].pc = "reading"
    /\ conn[c] = "closed"
    /\ reader' = [reader EXCEPT ![c].pc = "close"]
    /\ ReaderOnly

\* The peer goes away or misses its pongs.
PeerGone(c) ==
    /\ reader[c].pc = "reading"
    /\ conn[c] = "open"
    /\ reader' = [reader EXCEPT ![c].pc = "close"]
    /\ ReaderOnly

ReadSubscribe(c, R) ==
    /\ reader[c].pc = "reading"
    /\ conn[c] = "open"
    /\ R # {}
    /\ reader' = [reader EXCEPT ![c].pc = "check", ![c].todo = R]
    /\ ReaderOnly

\* CanAccessGroup, CanAccessConversation or CanAccessChannel, room by room; a
\* query under a cancelled context fails, which refuses.
CheckAccess(c, r) ==
    /\ reader[c].pc = "check"
    /\ r \in reader[c].todo
    /\ reader' = [reader EXCEPT
         ![c].todo = @ \ {r},
         ![c].allowed = IF r \in access[UserOf[c]] /\ c \notin cancelled
                        THEN @ \cup {r} ELSE @]
    /\ ReaderOnly

SubscribeNone(c) ==
    /\ reader[c].pc = "check"
    /\ reader[c].todo = {}
    /\ reader[c].allowed = {}
    /\ reader' = [reader EXCEPT ![c].pc = "reading"]
    /\ ReaderOnly

Subscribe(c) ==
    LET R == reader[c].allowed IN
    /\ reader[c].pc = "check"
    /\ reader[c].todo = {}
    /\ R # {}
    /\ rooms' = [r \in Rooms |-> IF r \in R THEN rooms[r] \cup {c} ELSE rooms[r]]
    /\ subs' = [subs EXCEPT ![c] = @ \cup R]
    /\ reader' = [reader EXCEPT ![c].pc = "ack", ![c].allowed = {}]
    /\ UNCHANGED <<dbVars, busVars, registered, connVars, writer, consumer, crash>>

Unsubscribe(c, R) ==
    /\ reader[c].pc = "reading"
    /\ conn[c] = "open"
    /\ rooms' = [r \in Rooms |-> IF r \in R THEN rooms[r] \ {c} ELSE rooms[r]]
    /\ subs' = [subs EXCEPT ![c] = @ \ R]
    /\ reader' = [reader EXCEPT ![c].pc = "ack"]
    /\ UNCHANGED <<dbVars, busVars, registered, connVars, writer, consumer, crash>>

\* The reader writes subscription.updated to the connection itself.
BeginAck(c) ==
    /\ reader[c].pc = "ack"
    /\ reader' = [reader EXCEPT ![c].pc = "acking"]
    /\ ReaderOnly

\* The websocket library panics when it notices a second writer; the HTTP
\* server's Recoverer catches it, and the deferred calls run.
AckPanics(c) ==
    /\ reader[c].pc = "ack"
    /\ writer[c] = "writing"
    /\ reader' = [reader EXCEPT ![c].pc = "close"]
    /\ ReaderOnly

EndAck(c) ==
    /\ reader[c].pc = "acking"
    /\ reader' = [reader EXCEPT ![c].pc = "reading"]
    /\ ReaderOnly
-----------------------------------------------------------------------------
(***************************************************************************)
(* writePump.  A ping is a write without a message.                        *)
(***************************************************************************)
Step(c, pc) ==
    /\ writer' = [writer EXCEPT ![c] = pc]
    /\ UNCHANGED <<dbVars, busVars, hubVars, shut, conn, cancelled, reader,
                   consumer, crash>>

\* ctx.Done, or the channel is closed and drained.
WriterStops(c) ==
    /\ writer[c] = "select"
    /\ c \in cancelled \/ (c \in shut /\ queue[c] = <<>>)
    /\ Step(c, "stopped")
    /\ UNCHANGED <<queue, inbox>>

Ping(c) ==
    /\ writer[c] = "select"
    /\ Step(c, "writing")
    /\ UNCHANGED <<queue, inbox>>

\* The message leaves the channel; the peer has it if the write succeeds.
BeginWrite(c) ==
    /\ writer[c] = "select"
    /\ queue[c] # <<>>
    /\ queue' = [queue EXCEPT ![c] = Tail(@)]
    /\ \/ conn[c] = "open" /\ inbox' = [inbox EXCEPT ![c] = Append(@, Head(queue[c]))]
       \/ UNCHANGED inbox
    /\ Step(c, "writing")

\* The same panic as in AckPanics, in a goroutine nothing recovers.
WritePanics(c) ==
    /\ writer[c] = "select"
    /\ reader[c].pc = "acking"
    /\ crash' = "concurrent write"
    /\ UNCHANGED <<dbVars, busVars, hubVars, connVars, reader, writer, consumer>>

\* The write succeeds; the connection may be closed as soon as it has.
WriteDone(c) ==
    /\ writer[c] = "writing"
    /\ Step(c, "select")
    /\ UNCHANGED <<queue, inbox>>

\* The write fails or misses its deadline; the connection is left open.
WriteFails(c) ==
    /\ writer[c] = "writing"
    /\ Step(c, "stopped")
    /\ UNCHANGED <<queue, inbox>>
-----------------------------------------------------------------------------
(***************************************************************************)
(* Consume, handleEvent and Broadcast*, for group message and settings     *)
(* events: the object is read first, then the viewer's membership checked. *)
(***************************************************************************)
ConsumerOnly == UNCHANGED <<dbVars, hubVars, connVars, reader, writer, crash>>

\* The clients of the room are copied under the read lock.
Receive ==
    /\ consumer.pc = "receive"
    /\ bus # <<>>
    /\ bus' = Tail(bus)
    /\ consumer' = [Receiving EXCEPT !.pc = "pick", !.event = Head(bus),
                                     !.todo = rooms[Head(bus).room]]
    /\ UNCHANGED unpublished
    /\ ConsumerOnly

BroadcastDone ==
    /\ consumer.pc = "pick"
    /\ consumer.todo = {}
    /\ consumer' = Receiving
    /\ UNCHANGED busVars
    /\ ConsumerOnly

\* Fault: the event carries the message instead of its id.
ReadMessage_FromEvent == consumer.event.version

\* GetByMessageID: the state at the time of rendering, not of the event.
ReadMessage == version[consumer.event.room]

\* The next client: already rendered for its user, or to be rendered.
PickClient(c) ==
    LET cached == consumer.cache[UserOf[c]] IN
    /\ consumer.pc = "pick"
    /\ c \in consumer.todo
    /\ consumer' = [consumer EXCEPT !.todo = @ \ {c}, !.cur = c,
                      !.pc = IF cached # 0 THEN "send" ELSE "check",
                      !.read = IF cached # 0 THEN cached ELSE ReadMessage]
    /\ UNCHANGED busVars
    /\ ConsumerOnly

\* Fault: whoever is subscribed may see the message.
RenderAllowed_Subscribed(u, r) == TRUE

\* requireActiveMembership of the viewer, at the time of rendering.
RenderAllowed(u, r) == r \in access[u]

\* BuildMessageEventForUser; a viewer without access is skipped.
Render ==
    LET u == UserOf[consumer.cur] IN
    /\ consumer.pc = "check"
    /\ consumer' = IF RenderAllowed(u, consumer.event.room)
                   THEN [consumer EXCEPT !.pc = "send", !.cache[u] = consumer.read]
                   ELSE [consumer EXCEPT !.pc = "pick", !.cur = NoClient, !.read = 0]
    /\ UNCHANGED busVars
    /\ ConsumerOnly

NextClient == consumer' = [consumer EXCEPT !.pc = "pick", !.cur = NoClient,
                                           !.read = 0]

Payload == [room |-> consumer.event.room, version |-> consumer.read]

\* select { case client.Send <- payload: }
Send ==
    LET c == consumer.cur IN
    /\ consumer.pc = "send"
    /\ c \notin shut
    /\ Len(queue[c]) < Buffer
    /\ queue' = [queue EXCEPT ![c] = Append(@, Payload)]
    /\ NextClient
    /\ UNCHANGED <<dbVars, busVars, hubVars, shut, conn, cancelled, inbox, reader,
                   writer, crash>>

\* Fault: no default case, the send waits for the writer.
SendFull_Blocks == FALSE /\ UNCHANGED rtVars

\* default: a client whose channel is full is closed.
SendFull ==
    LET c == consumer.cur IN
    /\ consumer.pc = "send"
    /\ c \notin shut
    /\ Len(queue[c]) = Buffer
    /\ closeClient(c)
    /\ NextClient
    /\ UNCHANGED <<dbVars, busVars, hubVars, queue, shut, inbox, reader, writer,
                   crash>>

\* A send on a closed channel panics, with or without a default case, in a
\* goroutine nothing recovers.
SendPanics ==
    /\ consumer.pc = "send"
    /\ consumer.cur \in shut
    /\ crash' = "send on closed channel"
    /\ UNCHANGED <<dbVars, busVars, hubVars, connVars, reader, writer, consumer>>
-----------------------------------------------------------------------------
Services ==
    \/ \E r \in Rooms : Write(r) \/ \E u \in Users : ChangeAccess(u, r)
    \/ \E e \in unpublished : Publish(e) \/ PublishFails(e)
    \/ DropEvent

\* What the reader does on its own; the rest waits for the peer.
ReaderStep(c) ==
    \/ ReadClosed(c)
    \/ \E r \in Rooms : CheckAccess(c, r)
    \/ SubscribeNone(c)
    \/ Subscribe(c)
    \/ BeginAck(c)
    \/ EndAck(c)
    \/ CloseOnReturn(c)
    \/ Unregister(c)

Peer(c) ==
    \/ Connect(c)
    \/ PeerGone(c)
    \/ \E R \in SUBSET Rooms : ReadSubscribe(c, R) \/ Unsubscribe(c, R)

WriterStep(c) ==
    \/ WriterStops(c)
    \/ Ping(c)
    \/ BeginWrite(c)
    \/ WriteDone(c)
    \/ WriteFails(c)

ConsumerStep ==
    \/ Receive
    \/ BroadcastDone
    \/ \E c \in Clients : PickClient(c)
    \/ Render
    \/ Send
    \/ SendFull
    \/ SendPanics

\* The library notices a second writer only if it is lucky.
SecondWriterNoticed == \E c \in Clients : AckPanics(c) \/ WritePanics(c)

RTNext ==
    /\ crash = "no"
    /\ \/ Services
       \/ ConsumerStep
       \/ \E c \in Clients : ReaderStep(c) \/ Peer(c) \/ WriterStep(c)
       \/ SecondWriterNoticed

RTSpec == RTInit /\ [][RTNext]_rtVars

\* The reader's own write has no deadline: it may wait for the peer for as long
\* as the connection is open.
Unblocked(c) == reader[c].pc = "acking" => conn[c] = "closed"

\* The Go scheduler runs every goroutine that can go on and database queries
\* return; nothing is assumed of peers, writers, services or Redis.
RTFairSpec ==
    /\ RTSpec
    /\ WF_rtVars(crash = "no" /\ ConsumerStep)
    /\ \A c \in Clients : WF_rtVars(crash = "no" /\ ReaderStep(c) /\ Unblocked(c))
-----------------------------------------------------------------------------
(***************************************************************************)
(* Properties                                                              *)
(***************************************************************************)
\* State has the shape the Go types give it, and no channel holds more than
\* its capacity.
RTTypeOK ==
    /\ version \in [Rooms -> Nat]
    /\ access \in [Users -> SUBSET Rooms]
    /\ unpublished \subseteq Event
    /\ registered \subseteq Clients
    /\ rooms \in [Rooms -> SUBSET Clients]
    /\ subs \in [Clients -> SUBSET Rooms]
    /\ queue \in [Clients -> Seq(Event)]
    /\ \A c \in Clients : Len(queue[c]) <= Buffer
    /\ reader \in [Clients -> Reader]
    /\ consumer \in Consumer

\* The two indexes of the hub agree, and a client that is not registered is in
\* no room: a closed connection leaves nothing behind, whatever it was doing.
HubConsistent ==
    /\ RTTypeOK
    /\ \A c \in Clients, r \in Rooms :
          /\ c \in rooms[r] <=> r \in subs[c]
          /\ c \in rooms[r] => c \in registered

\* Everything pushed to client c, in order.
Pushed(c) == inbox[c] \o queue[c]

\* A client never gets an older state of a room after a newer one, although
\* handlers publish in any order: every event is rendered from the database.
NeverBackwards ==
    \A c \in Clients : \A i, j \in DOMAIN Pushed(c) :
        /\ i < j /\ Pushed(c)[i].room = Pushed(c)[j].room
        => Pushed(c)[i].version <= Pushed(c)[j].version

\* Whoever has lost access to a room gets nothing that was written to it since,
\* although the subscription stays in the hub and payloads wait in channels.
NothingAfterRevocation ==
    \A c \in Clients : \A i \in DOMAIN Pushed(c) :
        LET p == Pushed(c)[i] IN
        p.room \notin access[UserOf[c]] =>
          p.version <= revokedAt[UserOf[c]][p.room]

\* A client that was closed, for being slow or otherwise, is unregistered.
ClosedIsUnregistered ==
    \A c \in Clients :
        c \in cancelled ~> (c \notin registered \/ crash # "no")

\* No client can hold up the others: whatever peers and writers do, the consumer
\* comes back for the next event.
ConsumerReturns == consumer.pc # "receive" ~> (consumer.pc = "receive" \/ crash # "no")

\* The consumer never sends to a client whose channel is closed: an event is
\* pushed to the connections there are.
NoSendOnClosed == crash # "send on closed channel"
=============================================================================
