----------------------------- MODULE HubProofs -----------------------------
(* Proofs that the hub's safety properties hold for any number of clients,  *)
(* bookings and messages and any capacity of the channels.                  *)
EXTENDS Hub, TLAPS

\* A message of either channel names its kind and a booking.
LEMMA MessageFields ==
  ASSUME NEW m \in Message
  PROVE  m.kind \in Kinds /\ m.booking \in Bookings
  BY DEF Message

\* Wherever WritePump goes next, its position keeps its type.
LEMMA SomeWriter ==
  ASSUME HubInv, NEW c \in Clients, NEW s,
         s \in {"select", "sample", "exit"}, writer' = [writer EXCEPT ![c] = s]
  PROVE  writer' \in [Clients -> WriterStates]
  BY DEF HubInv, TypeOK, WriterStates

\* A client that is no member of its booking's room is in no room.
LEMMA NoOtherRoom ==
  ASSUME HubInv, NEW c \in Clients, ~IsMember(c)
  PROVE  \A x \in DOMAIN rooms : c \notin rooms[x]
  BY DEF HubInv, RoomsExact, IsMember, Members

\* The range loop only ever visits members of the rooms.
LEMMA VisitedIsMember ==
  ASSUME HubInv, NEW c \in Clients, Visited(c)
  PROVE  outgoing \in Message /\ IsMember(c)
<1>1. outgoing # None /\ c \in Members(outgoing.booking)
  BY DEF HubInv, Visited, FanOutFresh, AtSelect
<1> QED
  BY <1>1 DEF HubInv, TypeOK, RoomsExact, IsMember, Members

\* The hub starts without rooms, so nothing the invariant asks can fail.
LEMMA InitInv == Init => HubInv
<1> SUFFICES ASSUME Init PROVE HubInv
  OBVIOUS
<1>1. rooms = [b \in {} |-> {}] /\ DOMAIN rooms = {} /\ \A c \in Clients : ~IsMember(c)
  BY DEF Init, IsMember, Members
<1>2. TypeOK
  <2>1. rooms \in [DOMAIN rooms -> SUBSET Clients] /\ DOMAIN rooms \subseteq Bookings
    BY <1>1
  <2>2. channel \in [Kinds -> Seq(Message)] /\ \A k \in Kinds : Len(channel[k]) <= BcastCap
    BY CapAssumption DEF Init
  <2>3. send \in [Clients -> Seq(Message)] /\ \A c \in Clients : Len(send[c]) <= SendCap
    BY CapAssumption DEF Init
  <2> QED
    BY <2>1, <2>2, <2>3 DEF Init, TypeOK, HandlerStates, ReaderStates, WriterStates
<1>3. NoPanic /\ RoomsExact /\ FanOutFresh
  BY <1>1 DEF Init, NoPanic, RoomsExact, FanOutFresh, AtSelect
<1>4. DrainCovered /\ DrainIdle
  BY <1>2 DEF Init, DrainCovered, DrainIdle, TypeOK
<1>5. UnregisteredIsClosed /\ PumpsServe /\ ClosedWasOpened /\ BookingSet
  BY DEF Init, UnregisteredIsClosed, PumpsServe, ClosedWasOpened, BookingSet
<1> QED
  BY <1>2, <1>3, <1>4, <1>5 DEF HubInv

\* delete(clients, client) takes one client out of its room, and the room with
\* it if it was the last: both places of the code that drop a client use it.
LEMMA DropRoom ==
  ASSUME HubInv, NEW c \in Clients, IsMember(c), rooms' = RoomsWithout(c), booking' = booking
  PROVE  /\ DOMAIN rooms' \subseteq Bookings
         /\ rooms' \in [DOMAIN rooms' -> SUBSET Clients]
         /\ \A b \in DOMAIN rooms' : rooms'[b] # {}
         /\ \A b \in DOMAIN rooms' : \A d \in rooms'[b] : booking[d] = b
         /\ \A b : Members(b)' = Members(b) \ {c}
         /\ \A d \in Clients : IsMember(d)' <=> IsMember(d) /\ d # c
<1> DEFINE b0 == booking[c]
<1>1. b0 \in DOMAIN rooms /\ c \in rooms[b0]
  BY DEF IsMember, Members
<1>2. /\ DOMAIN rooms \subseteq Bookings
      /\ rooms \in [DOMAIN rooms -> SUBSET Clients]
      /\ \A b \in DOMAIN rooms : rooms[b] # {} /\ \A d \in rooms[b] : booking[d] = b
  BY DEF HubInv, TypeOK, RoomsExact
<1>3. CASE rooms[b0] = {c}
  <2>1. rooms' = [x \in DOMAIN rooms \ {b0} |-> rooms[x]]
    BY <1>3 DEF RoomsWithout
  <2> QED BY <1>1, <1>2, <1>3, <2>1 DEF Members, IsMember
<1>4. CASE rooms[b0] # {c}
  <2>1. rooms' = [rooms EXCEPT ![b0] = @ \ {c}]
    BY <1>4 DEF RoomsWithout
  <2> QED BY <1>1, <1>2, <1>4, <2>1 DEF Members, IsMember
<1> QED BY <1>3, <1>4

(* Every variable keeps its type.                                          *)
LEMMA TypeStep ==
  ASSUME HubInv, [Next]_vars
  PROVE  TypeOK'
<1> USE DEF HubInv, TypeOK
<1>1. ASSUME NEW m \in Message, Broadcast(m) PROVE TypeOK'
  BY <1>1, MessageFields, CapAssumption DEF Broadcast, hubVars, clientVars, writeVars
<1>2. ASSUME NEW k \in Kinds, HubTake(k) PROVE TypeOK'
  <2>1. /\ Head(channel[k]) \in Message /\ Tail(channel[k]) \in Seq(Message)
        /\ Len(Tail(channel[k])) <= BcastCap
    BY <1>2, CapAssumption DEF HubTake, Ready
  <2>2. channel' \in [Kinds -> Seq(Message)] /\ \A j \in Kinds : Len(channel'[j]) <= BcastCap
    BY <1>2, <2>1 DEF HubTake
  <2>3. outgoing' \in Message \cup {None} /\ todo' \subseteq Clients
    BY <1>2, <2>1 DEF HubTake
  <2> QED
    BY <1>2, <2>2, <2>3 DEF HubTake, clientVars, writeVars
<1>3. ASSUME NEW c \in Clients PROVE HubRegister(c) => TypeOK'
  BY DEF HubRegister, Members, BookingSet, HandlerStates, writeVars
<1>4. ASSUME NEW c \in Clients, HubUnregister(c) PROVE TypeOK'
  <2>1. /\ DOMAIN rooms' \subseteq Bookings
        /\ rooms' \in [DOMAIN rooms' -> SUBSET Clients]
    BY <1>4, DropRoom DEF HubUnregister, Drop
  <2> QED
    BY <1>4, <2>1 DEF HubUnregister, Drop, ReaderStates, writeVars
<1>5. ASSUME NEW c \in Clients, HubSend(c) PROVE TypeOK'
  <2>1. outgoing \in Message
    BY <1>5, VisitedIsMember DEF HubSend
  <2>2. send' \in [Clients -> Seq(Message)] /\ \A d \in Clients : Len(send'[d]) <= SendCap
    BY <1>5, <2>1, CapAssumption DEF HubSend, HasSpace
  <2> QED
    BY <1>5, <2>2 DEF HubSend, Visited, clientVars, writeVars
<1>6. ASSUME NEW c \in Clients, HubEvict(c) PROVE TypeOK'
  <2>1. IsMember(c)
    BY <1>6, VisitedIsMember DEF HubEvict
  <2>2. /\ DOMAIN rooms' \subseteq Bookings
        /\ rooms' \in [DOMAIN rooms' -> SUBSET Clients]
    BY <1>6, <2>1, DropRoom DEF HubEvict, Drop, clientVars
  <2> QED
    BY <1>6, <2>2 DEF HubEvict, Visited, Drop, clientVars, writeVars
<1>7. ASSUME NEW c \in Clients, WriteTake(c) PROVE TypeOK'
  <2>1. /\ Head(send[c]) \in Message /\ Tail(send[c]) \in Seq(Message)
        /\ Len(Tail(send[c])) <= SendCap
    BY <1>7, CapAssumption DEF WriteTake
  <2>2. send' \in [Clients -> Seq(Message)] /\ \A d \in Clients : Len(send'[d]) <= SendCap
    BY <1>7, <2>1 DEF WriteTake
  <2>3. writer' \in [Clients -> WriterStates]
    BY <1>7, SomeWriter, Zenon DEF WriteTake
  <2>4. frame' \in [Clients -> Seq(Message)]
    <3>1. <<Head(send[c])>> \in Seq(Message)
      BY <2>1
    <3> QED
      BY <1>7, <3>1 DEF WriteTake
  <2> QED
    BY <1>7, <2>2, <2>3, <2>4 DEF WriteTake, hubVars, clientVars
<1>8. ASSUME NEW c \in Clients, WriteDrain(c) PROVE TypeOK'
  <2>1. /\ Head(send[c]) \in Message /\ Tail(send[c]) \in Seq(Message)
        /\ Len(Tail(send[c])) <= SendCap
    BY <1>8, CapAssumption DEF WriteDrain
  <2>2. Append(frame[c], Head(send[c])) \in Seq(Message)
    BY <2>1
  <2> QED
    BY <1>8, <2>1, <2>2 DEF WriteDrain, hubVars, clientVars
<1>9. ASSUME NEW c \in Clients, WriteSample(c) PROVE TypeOK'
  BY <1>9 DEF WriteSample, Queued, WriterStates, hubVars, clientVars
<1>10. ASSUME NEW c \in Clients, WriteFlush(c) PROVE TypeOK'
  <2>1. writer' \in [Clients -> WriterStates]
    BY <1>10, SomeWriter, Zenon DEF WriteFlush
  <2>2. frame' \in [Clients -> Seq(Message)]
    BY <1>10 DEF WriteFlush
  <2> QED
    BY <1>10, <2>1, <2>2 DEF WriteFlush, hubVars, clientVars
<1>11. ASSUME NEW c \in Clients, WriteSeesClose(c) \/ WritePingFails(c) \/ WriteExit(c)
       PROVE  TypeOK'
  <2>1. CASE WriteSeesClose(c)
    BY <2>1 DEF WriteSeesClose, WriterStates, hubVars, clientVars
  <2>2. CASE WritePingFails(c)
    BY <2>2 DEF WritePingFails, WriterStates, hubVars, clientVars
  <2>3. CASE WriteExit(c)
    BY <2>3 DEF WriteExit, WriterStates, hubVars, clientVars
  <2> QED
    BY <1>11, <2>1, <2>2, <2>3
<1>12. ASSUME NEW c \in Clients, NEW b \in Bookings, Connect(c, b) PROVE TypeOK'
  BY <1>12 DEF Connect, HandlerStates, hubVars, writeVars
<1>13. ASSUME NEW c \in Clients, StartPumps(c) PROVE TypeOK'
  BY <1>13 DEF StartPumps, HandlerStates, ReaderStates, WriterStates, hubVars
<1>14. ASSUME NEW c \in Clients, PeerLeaves(c) PROVE TypeOK'
  BY <1>14 DEF PeerLeaves, hubVars, writeVars
<1>15. ASSUME NEW c \in Clients, ReadFails(c) PROVE TypeOK'
  BY <1>15 DEF ReadFails, ReaderStates, hubVars, writeVars
<1>16. ASSUME NEW c \in Clients, ReadClose(c) PROVE TypeOK'
  BY <1>16 DEF ReadClose, ReaderStates, hubVars, writeVars
<1>17. CASE UNCHANGED vars
  BY <1>17 DEF vars, hubVars, clientVars, writeVars
<1> QED
  BY <1>1, <1>2, <1>3, <1>4, <1>5, <1>6, <1>7, <1>8, <1>9, <1>10, <1>11, <1>12, <1>13, <1>14,
     <1>15, <1>16, <1>17
     DEF Next, Write

(* The rooms and the range loop: only the event loop touches them.         *)
LEMMA RoomsStep ==
  ASSUME HubInv, [Next]_vars
  PROVE  (NoPanic /\ RoomsExact /\ FanOutFresh)'
<1> DEFINE Goal == (NoPanic /\ RoomsExact /\ FanOutFresh)'
<1> USE DEF HubInv, TypeOK, NoPanic, RoomsExact, FanOutFresh, AtSelect, IsMember, Members
<1>1. ASSUME NEW k \in Kinds, HubTake(k) PROVE Goal
  <2>1. Head(channel[k]) \in Message
    BY <1>1 DEF HubTake, Ready
  <2> QED
    BY <1>1, <2>1, MessageAssumption DEF HubTake, clientVars
<1>2. ASSUME NEW c \in Clients, HubRegister(c) PROVE Goal
  <2> DEFINE b == booking[c]
  <2>1. /\ b \in Bookings /\ ~closed[c] /\ todo = {}
        /\ \A x \in DOMAIN rooms : c \notin rooms[x]
    BY <1>2, NoOtherRoom DEF HubRegister, ClosedWasOpened, BookingSet
  <2>2. \A d \in Clients \ {c} : handler'[d] = handler[d]
    BY <1>2 DEF HubRegister
  <2>3. handler'[c] = "registered"
    BY <1>2 DEF HubRegister
  <2>4. /\ DOMAIN rooms' = DOMAIN rooms \cup {b}
        /\ rooms'[b] = Members(b) \cup {c}
        /\ \A x \in DOMAIN rooms \ {b} : rooms'[x] = rooms[x]
    BY <1>2 DEF HubRegister
  <2>5. \A d \in Clients : IsMember(d)' <=> IsMember(d) \/ d = c
    BY <1>2, <2>1, <2>4 DEF HubRegister
  <2>6. \A x \in DOMAIN rooms' : rooms'[x] # {} /\ \A d \in rooms'[x] : booking[d] = x
    <3>1. rooms'[b] # {} /\ \A d \in rooms'[b] : booking[d] = b
      BY <2>4
    <3>2. ASSUME NEW x \in DOMAIN rooms \ {b}
          PROVE  rooms'[x] # {} /\ \A d \in rooms'[x] : booking[d] = x
      BY <2>4
    <3> QED
      BY <2>4, <3>1, <3>2
  <2>7. RoomsExact'
    <3> HIDE DEF IsMember, Members
    <3>1. UNCHANGED <<booking, closed>>
      BY <1>2 DEF HubRegister
    <3>2. ASSUME NEW d \in Clients
          PROVE  IsMember(d)' <=> handler'[d] \in {"registered", "serving"} /\ ~closed[d]
      <4>1. CASE d = c
        BY <2>1, <2>3, <2>5, <4>1
      <4>2. CASE d # c
        BY <2>2, <2>5, <4>2
      <4> QED
        BY <4>1, <4>2
    <3> QED
      BY <2>6, <3>1, <3>2
  <2> QED
    BY <1>2, <2>1, <2>7 DEF HubRegister
<1>3. ASSUME NEW c \in Clients, HubUnregister(c) PROVE Goal
  <2>1. CASE IsMember(c)
    <3> HIDE DEF IsMember, Members
    <3>1. /\ \A b \in DOMAIN rooms' : rooms'[b] # {}
          /\ \A b \in DOMAIN rooms' : \A d \in rooms'[b] : booking[d] = b
          /\ \A d \in Clients : IsMember(d)' <=> IsMember(d) /\ d # c
      BY <1>3, <2>1, DropRoom DEF HubUnregister, Drop
    <3> QED
      BY <1>3, <2>1, <3>1 DEF HubUnregister, Drop
  <2>2. CASE ~IsMember(c)
    BY <1>3, <2>2 DEF HubUnregister
  <2> QED
    BY <2>1, <2>2
<1>4. ASSUME NEW c \in Clients, HubSend(c) PROVE Goal
  <2>1. outgoing \in Message /\ IsMember(c)
    BY <1>4, VisitedIsMember DEF HubSend
  <2>2. FanOutFresh'
    BY <1>4, <2>1, SMTT(30) DEF HubSend, Visited
  <2>3. (NoPanic /\ RoomsExact)'
    BY <1>4, <2>1 DEF HubSend, clientVars
  <2> QED
    BY <2>2, <2>3
<1>5. ASSUME NEW c \in Clients, HubEvict(c) PROVE Goal
  <2>1. outgoing \in Message /\ IsMember(c)
    BY <1>5, VisitedIsMember DEF HubEvict
  <2> HIDE DEF IsMember, Members
  <2>2. /\ \A b \in DOMAIN rooms' : rooms'[b] # {}
        /\ \A b \in DOMAIN rooms' : \A d \in rooms'[b] : booking[d] = b
        /\ \A b : Members(b)' = Members(b) \ {c}
        /\ \A d \in Clients : IsMember(d)' <=> IsMember(d) /\ d # c
    BY <1>5, <2>1, DropRoom DEF HubEvict, Drop, clientVars
  <2>3. FanOutFresh'
    <3>1. todo \subseteq Members(outgoing.booking)
      BY <2>1
    <3> QED
      BY <1>5, <2>2, <3>1 DEF HubEvict, Visited
  <2>4. (NoPanic /\ RoomsExact)'
    BY <1>5, <2>1, <2>2 DEF HubEvict, Drop, clientVars
  <2> QED
    BY <2>3, <2>4
<1>6. ASSUME NEW c \in Clients, NEW b \in Bookings, Connect(c, b) PROVE Goal
  <2>1. \A x \in DOMAIN rooms : c \notin rooms[x]
    BY <1>6, NoOtherRoom DEF Connect
  <2>2. \A d \in Clients \ {c} : booking'[d] = booking[d] /\ handler'[d] = handler[d]
    BY <1>6 DEF Connect
  <2>3. handler'[c] = "registering"
    BY <1>6 DEF Connect
  <2> QED
    BY <1>6, <2>1, <2>2, <2>3, SMTT(30) DEF Connect, hubVars
<1>7. ASSUME NEW c \in Clients, StartPumps(c) PROVE Goal
  BY <1>7, SMTT(30) DEF StartPumps, hubVars
<1>8. CASE UNCHANGED <<hubVars, booking, handler>>
  BY <1>8 DEF hubVars
<1> QED
  BY <1>1, <1>2, <1>3, <1>4, <1>5, <1>6, <1>7, <1>8
     DEF Next, Broadcast, PeerLeaves, ReadFails, ReadClose, Write, WriteTake, WriteSample,
         WriteDrain, WriteFlush, WriteSeesClose, WriteExit, WritePingFails, vars, clientVars

(* WritePump's count: the hub only adds to the queue, and only WritePump    *)
(* takes from it.                                                          *)
LEMMA DrainStep ==
  ASSUME HubInv, [Next]_vars
  PROVE  (DrainCovered /\ DrainIdle)'
<1> DEFINE Goal == (DrainCovered /\ DrainIdle)'
<1> USE DEF HubInv, TypeOK, DrainCovered, DrainIdle
<1>1. ASSUME NEW c \in Clients, HubSend(c) PROVE Goal
  <2>1. outgoing \in Message
    BY <1>1, VisitedIsMember DEF HubSend
  <2>2. Len(send'[c]) = Len(send[c]) + 1 /\ \A d \in Clients \ {c} : send'[d] = send[d]
    BY <1>1, <2>1 DEF HubSend
  <2> QED
    BY <1>1, <2>2 DEF HubSend, writeVars
<1>2. ASSUME NEW c \in Clients, WriteTake(c) PROVE Goal
  <2>1. Len(send'[c]) >= 0 /\ drain[c] = 0 /\ \A d \in Clients \ {c} : send'[d] = send[d]
    BY <1>2 DEF WriteTake
  <2> QED
    BY <1>2, <2>1 DEF WriteTake
<1>3. ASSUME NEW c \in Clients, WriteSample(c) PROVE Goal
  BY <1>3 DEF WriteSample, Queued
<1>4. ASSUME NEW c \in Clients, WriteDrain(c) PROVE Goal
  <2>1. Len(send'[c]) = Len(send[c]) - 1 /\ \A d \in Clients \ {c} : send'[d] = send[d]
    BY <1>4 DEF WriteDrain
  <2> QED
    BY <1>4, <2>1 DEF WriteDrain
<1>5. ASSUME NEW c \in Clients,
             WriteFlush(c) \/ WriteSeesClose(c) \/ WritePingFails(c) \/ WriteExit(c) \/ StartPumps(c)
      PROVE  Goal
  BY <1>5 DEF WriteFlush, WriteSeesClose, WritePingFails, WriteExit, StartPumps, PumpsServe
<1>6. CASE UNCHANGED <<send, writeVars>>
  BY <1>6 DEF writeVars
<1> QED
  BY <1>1, <1>2, <1>3, <1>4, <1>5, <1>6
     DEF Next, Broadcast, Connect, PeerLeaves, HubTake, HubRegister, HubUnregister, HubEvict,
         ReadFails, ReadClose, Write, vars

(* The handler and the two pumps follow each other.                        *)
LEMMA PumpsStep ==
  ASSUME HubInv, [Next]_vars
  PROVE  (UnregisteredIsClosed /\ PumpsServe /\ ClosedWasOpened /\ BookingSet)'
<1> DEFINE Goal == (UnregisteredIsClosed /\ PumpsServe /\ ClosedWasOpened /\ BookingSet)'
<1> USE DEF HubInv, TypeOK, UnregisteredIsClosed, PumpsServe, ClosedWasOpened, BookingSet
<1>1. ASSUME NEW c \in Clients, NEW b \in Bookings, Connect(c, b) PROVE Goal
  BY <1>1 DEF Connect, hubVars, writeVars
<1>2. ASSUME NEW c \in Clients, HubRegister(c) PROVE Goal
  BY <1>2 DEF HubRegister, writeVars
<1>3. ASSUME NEW c \in Clients, HubUnregister(c) PROVE Goal
  BY <1>3 DEF HubUnregister, Drop, RoomsExact, writeVars
<1>4. ASSUME NEW c \in Clients, HubEvict(c) PROVE Goal
  <2>1. IsMember(c)
    BY <1>4, VisitedIsMember DEF HubEvict
  <2> QED
    BY <1>4, <2>1 DEF HubEvict, Drop, RoomsExact, clientVars, writeVars
<1>5. ASSUME NEW c \in Clients, StartPumps(c) PROVE Goal
  BY <1>5 DEF StartPumps, hubVars
<1>6. ASSUME NEW c \in Clients, ReadFails(c) \/ ReadClose(c) PROVE Goal
  BY <1>6 DEF ReadFails, ReadClose, hubVars, writeVars
<1>7. ASSUME NEW c \in Clients, Write(c) \/ WritePingFails(c) PROVE Goal
  BY <1>7 DEF Write, WriteTake, WriteSample, WriteDrain, WriteFlush, WriteSeesClose,
              WriteExit, WritePingFails, hubVars, clientVars
<1>8. CASE UNCHANGED <<closed, booking, handler, reader, writer>>
  BY <1>8
<1> QED
  BY <1>1, <1>2, <1>3, <1>4, <1>5, <1>6, <1>7, <1>8
     DEF Next, Broadcast, PeerLeaves, HubTake, HubSend, vars, hubVars, clientVars, writeVars

\* No step of a goroutine, in any order, breaks the invariant.
LEMMA InvIsInductive == HubInv /\ [Next]_vars => HubInv'
  BY TypeStep, RoomsStep, DrainStep, PumpsStep DEF HubInv

\* The inductive invariant: every conjunct below follows from it.
THEOREM HubInvariant == Spec => []HubInv
  BY InitInv, InvIsInductive, PTL DEF Spec

\* The hub's state keeps its type and no channel exceeds its capacity.
THEOREM TypeCorrect == Spec => []TypeOK
<1>1. HubInv => TypeOK
  BY DEF HubInv
<1> QED
  BY <1>1, HubInvariant, PTL

\* The process never sends on, nor closes again, a closed client channel.
THEOREM NeverPanics == Spec => []NoPanic
<1>1. HubInv => NoPanic
  BY DEF HubInv
<1> QED
  BY <1>1, HubInvariant, PTL

\* The rooms are exactly the registered clients that are not closed.
THEOREM RoomsAreExact == Spec => []RoomsExact
<1>1. HubInv => RoomsExact
  BY DEF HubInv
<1> QED
  BY <1>1, HubInvariant, PTL

\* What broadcastToRoom has still to serve of the room it looked up are members
\* of it: the room cannot change under its range loop.
THEOREM FanOutIsFresh == Spec => []FanOutFresh
<1>1. HubInv => FanOutFresh
  BY DEF HubInv
<1> QED
  BY <1>1, HubInvariant, PTL

\* WritePump's drain loop finds the messages it counted, although the hub sends
\* and may close in between: it neither blocks nor takes a closed channel's zero.
THEOREM DrainIsCovered == Spec => []DrainCovered
<1>1. HubInv => DrainCovered
  BY DEF HubInv
<1> QED
  BY <1>1, HubInvariant, PTL

\* When ReadPump's Unregister returns, the hub has closed the channel.
THEOREM UnregisterCloses == Spec => []UnregisteredIsClosed
<1>1. HubInv => UnregisteredIsClosed
  BY DEF HubInv
<1> QED
  BY <1>1, HubInvariant, PTL

\* No step ever reopens a channel, adds to a closed one, or puts its client
\* back into a room.
LEMMA ClosedStep ==
  ASSUME HubInv, HubInv', [Next]_vars, NEW c \in Clients, closed[c]
  PROVE  closed'[c] /\ Len(send'[c]) <= Len(send[c]) /\ ~IsMember(c)'
<1>1. closed'[c]
  <2> USE DEF HubInv, TypeOK
  <2>1. CASE UNCHANGED closed
    BY <2>1
  <2>2. ASSUME NEW d \in Clients, closed' = [closed EXCEPT ![d] = TRUE] PROVE closed'[c]
    BY <2>2
  <2> QED
    BY <2>1, <2>2
       DEF Next, Broadcast, Connect, StartPumps, PeerLeaves, HubTake, HubRegister,
           HubUnregister, HubSend, HubEvict, Drop, ReadFails, ReadClose, Write, WriteTake,
           WriteSample, WriteDrain, WriteFlush, WriteSeesClose, WriteExit, WritePingFails,
           vars, hubVars
<1>2. Len(send'[c]) <= Len(send[c])
  <2> USE DEF HubInv, TypeOK
  <2>1. CASE UNCHANGED send
    BY <2>1
  <2>2. ASSUME NEW d \in Clients, HubSend(d) PROVE Len(send'[c]) <= Len(send[c])
    <3>1. IsMember(d) /\ outgoing \in Message
      BY <2>2, VisitedIsMember DEF HubSend
    <3>2. c # d
      BY <3>1 DEF RoomsExact
    <3> QED
      BY <2>2, <3>2 DEF HubSend
  <2>3. ASSUME NEW d \in Clients, WriteTake(d) \/ WriteDrain(d)
        PROVE  Len(send'[c]) <= Len(send[c])
    <3>1. send[d] # <<>> /\ send' = [send EXCEPT ![d] = Tail(@)]
      BY <2>3 DEF WriteTake, WriteDrain
    <3>2. Len(Tail(send[d])) = Len(send[d]) - 1
      BY <3>1
    <3> QED
      BY <3>1, <3>2
  <2> QED
    BY <2>1, <2>2, <2>3
       DEF Next, Broadcast, Connect, StartPumps, PeerLeaves, HubTake, HubRegister,
           HubUnregister, HubEvict, ReadFails, ReadClose, Write, WriteSample, WriteFlush,
           WriteSeesClose, WriteExit, WritePingFails, vars
<1>3. ~IsMember(c)'
  BY <1>1 DEF HubInv, RoomsExact
<1> QED
  BY <1>1, <1>2, <1>3

\* Closing a client is final, in every behaviour of the hub.
THEOREM ClosingIsFinal == Spec => ClosedIsFinal
<1> DEFINE Final == \A c \in Clients :
                      closed[c] => /\ closed'[c]
                                   /\ Len(send'[c]) <= Len(send[c])
                                   /\ ~IsMember(c)'
<1>1. HubInv /\ HubInv' /\ [Next]_vars => [Final]_vars
  BY ClosedStep
<1> QED
  BY <1>1, HubInvariant, PTL DEF Spec, ClosedIsFinal
=============================================================================
