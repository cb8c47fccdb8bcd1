-------------------------------- MODULE Hub --------------------------------
(***************************************************************************)
(* The WebSocket hub of internal/ws/hub.go, with the HTTP handler that     *)
(* creates its clients.                                                    *)
(*                                                                         *)
(* Goroutines: the hub's event loop (Run), for each client the handler     *)
(* that registers it and its two pumps, and any number of broadcasters.    *)
(* One step is what a goroutine does between two operations another one    *)
(* can see: a channel operation, a use of the connection.  The hub's mutex *)
(* is not a variable: only the event loop takes it.                        *)
(*                                                                         *)
(* A client is a connection, so it is used once.  The two channels of the  *)
(* hub and the Send channel of a client are bounded sequences; register    *)
(* and unregister are unbuffered, so both sides take one step together.    *)
(***************************************************************************)
EXTENDS Naturals, Sequences

CONSTANTS
  Clients,    \* the connections ever opened
  Bookings,   \* the booking ids; a room is named by one
  Payloads,   \* what a message carries besides its kind and booking
  SendCap,    \* the capacity of Client.Send (256 in the code)
  BcastCap,   \* the capacity of Hub.broadcast and of Hub.chatBcast (256)
  None        \* no booking, no message

ASSUME CapAssumption  == SendCap \in Nat /\ BcastCap \in Nat
ASSUME NoneAssumption == None \notin Bookings

Kinds   == {"location_update", "chat_message"}
Message == [kind : Kinds, booking : Bookings, body : Payloads]
ASSUME MessageAssumption == None \notin Message

VARIABLES
  rooms,      \* Hub.rooms: a function on the bookings that have a room
  channel,    \* Hub.broadcast and Hub.chatBcast, by kind of message
  outgoing,   \* the message broadcastToRoom is sending, None at the select
  todo,       \* the clients its range loop has still to visit
  panicked,   \* an operation on a closed channel has panicked
  booking,    \* Client.BookingID
  send,       \* the contents of Client.Send
  closed,     \* close(Client.Send) has been called
  conn,       \* the connection: "none", "open", "gone" (the peer left), "closed"
  handler,    \* where HandleWebSocket is
  reader,     \* where ReadPump is
  writer,     \* where WritePump is
  frame,      \* the messages in WritePump's current websocket frame
  drain       \* how many queued messages WritePump has still to add to it

hubVars    == <<rooms, outgoing, todo, panicked, closed>>
clientVars == <<booking, conn, handler, reader>>
writeVars  == <<writer, frame, drain>>
vars       == <<hubVars, channel, clientVars, send, writeVars>>

HandlerStates == {"new", "registering", "registered", "serving"}
ReaderStates  == {"off", "reading", "unregistering", "closing", "done"}
WriterStates  == {"off", "select", "sample", "drain", "exit", "done"}

Init ==
  /\ rooms    = [b \in {} |-> {}]
  /\ channel  = [k \in Kinds |-> <<>>]
  /\ outgoing = None
  /\ todo     = {}
  /\ panicked = FALSE
  /\ booking  = [c \in Clients |-> None]
  /\ send     = [c \in Clients |-> <<>>]
  /\ closed   = [c \in Clients |-> FALSE]
  /\ conn     = [c \in Clients |-> "none"]
  /\ handler  = [c \in Clients |-> "new"]
  /\ reader   = [c \in Clients |-> "off"]
  /\ writer   = [c \in Clients |-> "off"]
  /\ frame    = [c \in Clients |-> <<>>]
  /\ drain    = [c \in Clients |-> 0]

-----------------------------------------------------------------------------
(* Broadcasters: TrackingService and ChatService.                          *)

\* Mutant: each send is left to a goroutine of its own, which overtakes.
BroadcastAsync(m) ==
  /\ Len(channel[m.kind]) < BcastCap
  /\ channel' = [channel EXCEPT ![m.kind] = <<m>> \o @]
  /\ UNCHANGED <<hubVars, clientVars, send, writeVars>>

\* Broadcast and BroadcastChat block while the channel is full.
Broadcast(m) ==
  /\ Len(channel[m.kind]) < BcastCap
  /\ channel' = [channel EXCEPT ![m.kind] = Append(@, m)]
  /\ UNCHANGED <<hubVars, clientVars, send, writeVars>>

-----------------------------------------------------------------------------
(* The handler of a connection, and its peer.                              *)

\* HandleWebSocket upgrades the connection and calls hub.Register.
Connect(c, b) ==
  /\ handler[c] = "new"
  /\ booking' = [booking EXCEPT ![c] = b]
  /\ conn'    = [conn EXCEPT ![c] = "open"]
  /\ handler' = [handler EXCEPT ![c] = "registering"]
  /\ UNCHANGED <<hubVars, channel, reader, send, writeVars>>

\* Register has returned: HandleWebSocket starts the two pumps.
StartPumps(c) ==
  /\ handler[c] = "registered"
  /\ handler' = [handler EXCEPT ![c] = "serving"]
  /\ reader'  = [reader EXCEPT ![c] = "reading"]
  /\ writer'  = [writer EXCEPT ![c] = "select"]
  /\ UNCHANGED <<hubVars, channel, booking, conn, send, frame, drain>>

\* The peer closes the connection or vanishes.
PeerLeaves(c) ==
  /\ conn[c] = "open"
  /\ conn' = [conn EXCEPT ![c] = "gone"]
  /\ UNCHANGED <<hubVars, channel, booking, handler, reader, send, writeVars>>

-----------------------------------------------------------------------------
(* The event loop.                                                         *)

\* Mutant: pumps take the mutex themselves, during a broadcast too.
AtSelectOrNot == TRUE
AtSelect      == outgoing = None

Members(b) == IF b \in DOMAIN rooms THEN rooms[b] ELSE {}

\* Mutant: the room is looked up, the client in it is not.
HasRoom(c)  == booking[c] \in DOMAIN rooms
IsMember(c) == c \in Members(booking[c])

\* Mutant: a room outlives its last client.
RoomsEmptied(c) == [rooms EXCEPT ![booking[c]] = @ \ {c}]
\* Mutant: an evicted client stays in its room.
RoomsKept(c) == rooms

\* delete(clients, client), and the room with its last client.
RoomsWithout(c) ==
  LET b == booking[c]
  IN  IF rooms[b] = {c}
        THEN [x \in DOMAIN rooms \ {b} |-> rooms[x]]
        ELSE [rooms EXCEPT ![b] = @ \ {c}]

\* Mutant: the client leaves its room, its channel stays open.
DropOpen(c) == rooms' = RoomsWithout(c) /\ UNCHANGED <<closed, panicked>>

\* The client leaves its room and its channel is closed; closing a channel
\* twice panics.
Drop(c) ==
  /\ rooms'    = RoomsWithout(c)
  /\ closed'   = [closed EXCEPT ![c] = TRUE]
  /\ panicked' = (panicked \/ closed[c])

HubRegister(c) ==
  /\ AtSelect
  /\ handler[c] = "registering"
  /\ LET b == booking[c]
     IN  rooms' = [x \in DOMAIN rooms \cup {b} |->
                     IF x = b THEN Members(b) \cup {c} ELSE rooms[x]]
  /\ handler' = [handler EXCEPT ![c] = "registered"]
  /\ UNCHANGED <<outgoing, todo, panicked, closed, channel, booking, conn,
                 reader, send, writeVars>>

HubUnregister(c) ==
  /\ AtSelect
  /\ reader[c] = "unregistering"
  /\ reader' = [reader EXCEPT ![c] = "closing"]
  /\ IF IsMember(c) THEN Drop(c) ELSE UNCHANGED <<rooms, closed, panicked>>
  /\ UNCHANGED <<outgoing, todo, channel, booking, conn, handler, send,
                 writeVars>>

\* Mutant: chat waits until there is no location update.
ReadyLocationsFirst(k) ==
  channel[k] # <<>> /\ (k = "location_update" \/ channel["location_update"] = <<>>)
Ready(k) == channel[k] # <<>>

\* A message is received, and ranged over its room if there is one.
HubTake(k) ==
  /\ AtSelect
  /\ Ready(k)
  /\ channel' = [channel EXCEPT ![k] = Tail(@)]
  /\ LET m == Head(channel[k])
     IN  IF m.booking \in DOMAIN rooms
           THEN outgoing' = m /\ todo' = rooms[m.booking]
           ELSE UNCHANGED <<outgoing, todo>>
  /\ UNCHANGED <<rooms, panicked, closed, clientVars, send, writeVars>>

\* The range loop goes on to the next client, or back to the select.
Visited(c) ==
  /\ c \in todo
  /\ todo'     = todo \ {c}
  /\ outgoing' = IF todo = {c} THEN None ELSE outgoing

\* Mutant: one message too many.
HasSpaceOffByOne(c) == Len(send[c]) <= SendCap
HasSpace(c) == Len(send[c]) < SendCap

\* case client.Send <- data; sending on a closed channel panics.
HubSend(c) ==
  /\ Visited(c)
  /\ HasSpace(c)
  /\ send'     = [send EXCEPT ![c] = Append(@, outgoing)]
  /\ panicked' = (panicked \/ closed[c])
  /\ UNCHANGED <<rooms, closed, channel, clientVars, writeVars>>

\* Mutant: a slow client misses the message and stays.
HubEvictSkips(c) ==
  /\ Visited(c)
  /\ ~HasSpace(c)
  /\ UNCHANGED <<rooms, closed, panicked, channel, clientVars, send, writeVars>>

\* default: the client is too slow and is evicted.
HubEvict(c) ==
  /\ Visited(c)
  /\ ~HasSpace(c)
  /\ Drop(c)
  /\ UNCHANGED <<channel, clientVars, send, writeVars>>

-----------------------------------------------------------------------------
(* ReadPump.                                                               *)

\* Mutant: the pump closes its connection and does not unregister.
ReadFailsSilently(c) ==
  /\ reader[c] = "reading"
  /\ reader' = [reader EXCEPT ![c] = "closing"]
  /\ UNCHANGED <<hubVars, channel, booking, conn, handler, send, writeVars>>

\* ReadMessage fails: the peer left, the connection was closed, no pong came
\* within pongWait, or a message was over maxMessageSize.
ReadFails(c) ==
  /\ reader[c] = "reading"
  /\ reader' = [reader EXCEPT ![c] = "unregistering"]
  /\ UNCHANGED <<hubVars, channel, booking, conn, handler, send, writeVars>>

\* Unregister has returned: the deferred Conn.Close.
ReadClose(c) ==
  /\ reader[c] = "closing"
  /\ conn'   = [conn EXCEPT ![c] = "closed"]
  /\ reader' = [reader EXCEPT ![c] = "done"]
  /\ UNCHANGED <<hubVars, channel, booking, handler, send, writeVars>>

-----------------------------------------------------------------------------
(* WritePump.                                                              *)

\* Mutant: when NextWriter fails the pump goes on.
WriteTakeContinues(c) ==
  /\ writer[c] = "select"
  /\ send[c] # <<>>
  /\ send' = [send EXCEPT ![c] = Tail(@)]
  /\ \/ /\ writer' = [writer EXCEPT ![c] = "sample"]
        /\ frame'  = [frame EXCEPT ![c] = <<Head(send[c])>>]
     \/ UNCHANGED <<writer, frame>>
  /\ UNCHANGED <<hubVars, channel, clientVars, drain>>

\* A message is received and NextWriter called; if that fails the message is
\* lost and the pump returns.
WriteTake(c) ==
  /\ writer[c] = "select"
  /\ send[c] # <<>>
  /\ send' = [send EXCEPT ![c] = Tail(@)]
  /\ \/ /\ writer' = [writer EXCEPT ![c] = "sample"]
        /\ frame'  = [frame EXCEPT ![c] = <<Head(send[c])>>]
     \/ /\ writer' = [writer EXCEPT ![c] = "exit"]
        /\ UNCHANGED frame
  /\ UNCHANGED <<hubVars, channel, clientVars, drain>>

\* Mutant: one more than the queue holds.
QueuedAndNext(c) == Len(send[c]) + 1
Queued(c) == Len(send[c])

\* n := len(c.Send)
WriteSample(c) ==
  /\ writer[c] = "sample"
  /\ drain'  = [drain EXCEPT ![c] = Queued(c)]
  /\ writer' = [writer EXCEPT ![c] = "drain"]
  /\ UNCHANGED <<hubVars, channel, clientVars, send, frame>>

\* One round of the loop that adds a queued message to the frame.
WriteDrain(c) ==
  /\ writer[c] = "drain"
  /\ drain[c] > 0
  /\ send[c] # <<>>
  /\ frame' = [frame EXCEPT ![c] = Append(@, Head(send[c]))]
  /\ send'  = [send EXCEPT ![c] = Tail(@)]
  /\ drain' = [drain EXCEPT ![c] = @ - 1]
  /\ UNCHANGED <<hubVars, channel, clientVars, writer>>

\* w.Close flushes the frame; it fails on a closed connection, and may fail
\* on any other (the write deadline).
WriteFlush(c) ==
  /\ writer[c] = "drain"
  /\ drain[c] = 0
  /\ frame' = [frame EXCEPT ![c] = <<>>]
  /\ \/ conn[c] # "closed" /\ writer' = [writer EXCEPT ![c] = "select"]
     \/ writer' = [writer EXCEPT ![c] = "exit"]
  /\ UNCHANGED <<hubVars, channel, clientVars, send, drain>>

\* Mutant: the pump loops on after the channel is closed.
WriteIgnoresClose(c) ==
  /\ writer[c] = "select"
  /\ send[c] = <<>>
  /\ closed[c]
  /\ UNCHANGED vars

\* The channel is closed and empty: the close message, then return.
WriteSeesClose(c) ==
  /\ writer[c] = "select"
  /\ send[c] = <<>>
  /\ closed[c]
  /\ writer' = [writer EXCEPT ![c] = "exit"]
  /\ UNCHANGED <<hubVars, channel, clientVars, send, frame, drain>>

\* The ticker fires and the ping cannot be written.
WritePingFails(c) ==
  /\ writer[c] = "select"
  /\ writer' = [writer EXCEPT ![c] = "exit"]
  /\ UNCHANGED <<hubVars, channel, clientVars, send, frame, drain>>

\* The deferred Conn.Close.
WriteExit(c) ==
  /\ writer[c] = "exit"
  /\ writer' = [writer EXCEPT ![c] = "done"]
  /\ conn'   = [conn EXCEPT ![c] = "closed"]
  /\ UNCHANGED <<hubVars, channel, booking, handler, reader, send, frame, drain>>

-----------------------------------------------------------------------------
Write(c) == \/ WriteTake(c) \/ WriteSample(c) \/ WriteDrain(c) \/ WriteFlush(c)
            \/ WriteSeesClose(c) \/ WriteExit(c)

Next ==
  \/ \E m \in Message : Broadcast(m)
  \/ \E k \in Kinds : HubTake(k)
  \/ \E c \in Clients :
       \/ \E b \in Bookings : Connect(c, b)
       \/ StartPumps(c) \/ PeerLeaves(c)
       \/ HubRegister(c) \/ HubUnregister(c) \/ HubSend(c) \/ HubEvict(c)
       \/ ReadFails(c) \/ ReadClose(c)
       \/ Write(c) \/ WritePingFails(c)

(***************************************************************************)
(* Go's select chooses uniformly among the ready cases, so a case that is  *)
(* ready again and again is taken: SF for the cases of Run.  A goroutine   *)
(* that can run does: WF for the other steps.  A read fails for certain    *)
(* only when the connection is not open (at the latest at the deadline of  *)
(* pongWait); peers, broadcasters and failing pings owe nothing.           *)
(***************************************************************************)
Fairness ==
  /\ \A k \in Kinds : SF_vars(HubTake(k))
  /\ \A c \in Clients :
       /\ SF_vars(HubRegister(c)) /\ SF_vars(HubUnregister(c))
       /\ WF_vars(HubSend(c) \/ HubEvict(c))
       /\ WF_vars(StartPumps(c))
       /\ WF_vars(conn[c] # "open" /\ ReadFails(c))
       /\ WF_vars(ReadClose(c))
       /\ WF_vars(Write(c))

Spec     == Init /\ [][Next]_vars
FairSpec == Spec /\ Fairness
-----------------------------------------------------------------------------
(* Properties.                                                             *)

\* Every variable has its type, and no channel holds more than its capacity.
TypeOK ==
  /\ DOMAIN rooms \subseteq Bookings
  /\ rooms    \in [DOMAIN rooms -> SUBSET Clients]
  /\ channel  \in [Kinds -> Seq(Message)]
  /\ \A k \in Kinds : Len(channel[k]) <= BcastCap
  /\ outgoing \in Message \cup {None}
  /\ todo     \subseteq Clients
  /\ panicked \in BOOLEAN
  /\ booking  \in [Clients -> Bookings \cup {None}]
  /\ send     \in [Clients -> Seq(Message)]
  /\ \A c \in Clients : Len(send[c]) <= SendCap
  /\ closed   \in [Clients -> BOOLEAN]
  /\ conn     \in [Clients -> {"none", "open", "gone", "closed"}]
  /\ handler  \in [Clients -> HandlerStates]
  /\ reader   \in [Clients -> ReaderStates]
  /\ writer   \in [Clients -> WriterStates]
  /\ frame    \in [Clients -> Seq(Message)]
  /\ drain    \in [Clients -> Nat]

\* The process never dies of a send on, or a second close of, a client's
\* channel, whichever of eviction and Unregister comes first.
NoPanic == ~panicked

\* The rooms hold exactly the clients the hub registered and has not closed,
\* each in the room of its booking, and no room is left empty.  So a client
\* whose channel is open can still be closed by the hub, and WritePump never
\* waits on a channel nobody will close.
RoomsExact ==
  /\ \A b \in DOMAIN rooms : rooms[b] # {}
  /\ \A b \in DOMAIN rooms : \A c \in rooms[b] : booking[c] = b
  /\ \A c \in Clients :
       IsMember(c) <=> handler[c] \in {"registered", "serving"} /\ ~closed[c]

\* The clients the range loop has still to visit are in the room it ranges
\* over, although the mutex was released before the loop: nobody unregisters
\* or evicts them behind its back.  The loop is over when none is left.
FanOutFresh ==
  /\ outgoing # None => todo \subseteq Members(outgoing.booking)
  /\ AtSelect <=> todo = {}

\* The drain loop never blocks and never takes the zero value of a closed
\* channel: what len(c.Send) counted is still there, although the hub sends,
\* and may close the channel, between the count and the receives.
DrainCovered == \A c \in Clients : drain[c] <= Len(send[c])

\* Once Unregister has returned to ReadPump the hub has forgotten the client
\* and closed its channel, and a client that was evicted stays so.
UnregisteredIsClosed ==
  \A c \in Clients : reader[c] \in {"closing", "done"} => closed[c]

\* A pump runs only for a client HandleWebSocket has finished with.
PumpsServe ==
  \A c \in Clients :
    /\ handler[c] = "serving" <=> reader[c] # "off"
    /\ handler[c] = "serving" <=> writer[c] # "off"

\* Only a client that was registered has a closed channel.
ClosedWasOpened ==
  \A c \in Clients : closed[c] => handler[c] \in {"registered", "serving"}

\* A client has its booking before it is registered.
BookingSet == \A c \in Clients : handler[c] # "new" => booking[c] \in Bookings

\* Only the drain loop has anything to add to the frame.
DrainIdle == \A c \in Clients : writer[c] # "drain" => drain[c] = 0

\* The invariant of the event loop and the pumps, which is inductive.
HubInv ==
  /\ TypeOK
  /\ NoPanic
  /\ RoomsExact
  /\ FanOutFresh
  /\ DrainCovered
  /\ DrainIdle
  /\ UnregisteredIsClosed
  /\ PumpsServe
  /\ ClosedWasOpened
  /\ BookingSet

\* Closing is final: a closed client gets no message, and is in no room, ever
\* again, whatever is still being broadcast to its room.
ClosedIsFinal ==
  [][\A c \in Clients :
       closed[c] => /\ closed'[c]
                    /\ Len(send'[c]) <= Len(send[c])
                    /\ ~IsMember(c)']_vars

\* README.md, "WebSocket Hub": "Automatic cleanup on client disconnect".  Once
\* the peer is gone or a pump has closed the connection, both pumps return
\* and the client is in no room.
CleanupOnDisconnect ==
  \A c \in Clients :
    conn[c] \in {"gone", "closed"}
      ~> reader[c] = "done" /\ writer[c] = "done" /\ ~IsMember(c)

\* Eviction is not only forgetting: the evicted client's connection is closed
\* and its goroutines end.
EvictedIsDisconnected ==
  \A c \in Clients :
    closed[c] ~> conn[c] = "closed" /\ reader[c] = "done" /\ writer[c] = "done"

\* Broadcast never blocks for ever: no client, however slow or dead, keeps a
\* full channel full.
BroadcastersFreed ==
  \A k \in Kinds : Len(channel[k]) = BcastCap ~> Len(channel[k]) < BcastCap

\* README.md, "WebSocket Protocol": what a client receives is a message, one
\* JSON object.
OneMessagePerFrame == \A c \in Clients : Len(frame[c]) <= 1
=============================================================================
