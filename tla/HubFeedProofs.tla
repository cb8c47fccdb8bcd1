--------------------------- MODULE HubFeedProofs ---------------------------
(* Proofs that what reaches a client's peer is what RoomFeed promises, for  *)
(* any number of clients, bookings and messages and any capacity.           *)
EXTENDS HubFeed, HubProofs, SequenceLemmas

\* Remembering what was said changes nothing that the hub does.
LEMMA FeedStepIsStep == [FeedNext]_feedVars => [Next]_vars
<1>1. FeedNext => Next
  BY DEF FeedNext, Say, Take, Join, Flush, Other, Next, Write
<1>2. UNCHANGED feedVars => UNCHANGED vars
  BY DEF feedVars
<1> QED
  BY <1>1, <1>2

\* Bodies are numbers.
LEMMA BodyIsNumber ==
  ASSUME NEW m \in Message
  PROVE  m.body \in Nat /\ m.kind \in Kinds /\ m.booking \in Bookings
  BY SaidAssumption DEF Message

\* The stream of a client is three sequences of messages.
LEMMA StreamTypes ==
  ASSUME FeedInv, NEW c \in Clients
  PROVE  /\ got[c] \in Seq(Message) /\ frame[c] \in Seq(Message) /\ send[c] \in Seq(Message)
         /\ Handed(c) \in Seq(Message)
         /\ Len(Handed(c)) = Len(got[c]) + Len(frame[c]) + Len(send[c])
         /\ joined[c] \in Nat
         /\ Joined(c) => booking[c] \in Bookings /\ feed[booking[c]] \in Seq(Message)
<1>1. got[c] \in Seq(Message) /\ frame[c] \in Seq(Message) /\ send[c] \in Seq(Message)
  BY DEF FeedInv, FeedTypeOK, HubInv, TypeOK
<1>2. Joined(c) => booking[c] \in Bookings /\ feed[booking[c]] \in Seq(Message)
  BY DEF FeedInv, FeedTypeOK, HubInv, BookingSet, Joined
<1>3. joined[c] \in Nat
  BY DEF FeedInv, FeedTypeOK
<1> QED
  BY <1>1, <1>2, <1>3 DEF Handed

\* Before anything was said there is nothing to lose.
LEMMA FeedInitInv == FeedInit => FeedInv
<1> SUFFICES ASSUME FeedInit PROVE FeedInv
  OBVIOUS
<1>1. HubInv
  BY InitInv DEF FeedInit
<1>2. FeedTypeOK
  <2>1. <<>> \in Seq(Message)
    OBVIOUS
  <2> QED
    BY <2>1 DEF FeedInit, FeedTypeOK
<1>3. \A c \in Clients : ~Joined(c)
  BY DEF FeedInit, Init, Joined
<1>4. NothingEarly /\ FrameBounded /\ LoopSendsLast
  BY DEF FeedInit, Init, NothingEarly, FrameBounded, LoopSendsLast
<1>5. ChannelsInOrder /\ FeedsWereSaid /\ InOrderPerKind
  BY DEF FeedInit, Init, ChannelsInOrder, FeedsWereSaid, InOrderPerKind
<1>6. Contiguous /\ NothingMissed
  BY <1>3 DEF Contiguous, NothingMissed
<1> QED
  BY <1>1, <1>2, <1>4, <1>5, <1>6 DEF FeedInv

-----------------------------------------------------------------------------
(* The feeds: only a message the hub takes is added to one.                *)

\* A feed grows by the head of a channel, and no other feed changes.
LEMMA TakeGrows ==
  ASSUME FeedInv, NEW k \in Kinds, Take(k)
  PROVE  LET m == Head(channel[k])
         IN  /\ m \in Message /\ m.kind = k /\ channel[k] # <<>>
             /\ m = channel[k][1] /\ channel[k] \in Seq(Message)
             /\ channel'[k] = Tail(channel[k])
             /\ \A j \in Kinds \ {k} : channel'[j] = channel[j]
             /\ feed[m.booking] \in Seq(Message)
             /\ feed'[m.booking] = Append(feed[m.booking], m)
             /\ \A b \in Bookings \ {m.booking} : feed'[b] = feed[b]
<1>1. channel[k] # <<>> /\ channel[k] \in Seq(Message)
  BY DEF Take, HubTake, Ready, FeedInv, HubInv, TypeOK
<1>2. Head(channel[k]) = channel[k][1] /\ Head(channel[k]) \in Message /\ 1 \in 1..Len(channel[k])
  BY <1>1
<1>3. Head(channel[k]).kind = k
  BY <1>2 DEF FeedInv, ChannelsInOrder
<1>4. Head(channel[k]).booking \in Bookings
  BY <1>2, BodyIsNumber
<1> QED
  BY <1>1, <1>2, <1>3, <1>4 DEF Take, HubTake, FeedInv, FeedTypeOK, HubInv, TypeOK

\* The memory keeps its type.
LEMMA FeedTypeStep ==
  ASSUME FeedInv, [FeedNext]_feedVars
  PROVE  FeedTypeOK'
<1> USE DEF FeedInv, FeedTypeOK
<1>1. ASSUME NEW m \in Message, Say(m) PROVE FeedTypeOK'
  BY <1>1, BodyIsNumber DEF Say
<1>2. ASSUME NEW k \in Kinds, Take(k) PROVE FeedTypeOK'
  <2>1. /\ Head(channel[k]) \in Message
        /\ Head(channel[k]).booking \in Bookings
    BY <1>2, TakeGrows, BodyIsNumber
  <2>2. Append(feed[Head(channel[k]).booking], Head(channel[k])) \in Seq(Message)
    BY <2>1
  <2> QED
    BY <1>2, <2>1, <2>2 DEF Take
<1>3. ASSUME NEW c \in Clients, Join(c) PROVE FeedTypeOK'
  <2>1. booking[c] \in Bookings
    BY <1>3 DEF Join, HubRegister, HubInv, BookingSet
  <2>2. Len(feed[booking[c]]) \in Nat
    BY <2>1
  <2> QED
    BY <1>3, <2>2 DEF Join
<1>4. ASSUME NEW c \in Clients, Flush(c) PROVE FeedTypeOK'
  <2>1. got[c] \in Seq(Message) /\ frame[c] \in Seq(Message)
    BY StreamTypes
  <2>2. got[c] \o frame[c] \in Seq(Message)
    BY <2>1
  <2> QED
    BY <1>4, <2>2 DEF Flush
<1>5. CASE UNCHANGED memory
  BY <1>5 DEF memory
<1> QED
  BY <1>1, <1>2, <1>3, <1>4, <1>5 DEF FeedNext, Other, feedVars

(* The order of the broadcasts: in the channels, and from them in the feeds. *)
LEMMA OrderStep ==
  ASSUME FeedInv, [FeedNext]_feedVars
  PROVE  (ChannelsInOrder /\ FeedsWereSaid /\ InOrderPerKind)'
<1> DEFINE Goal == (ChannelsInOrder /\ FeedsWereSaid /\ InOrderPerKind)'
<1> USE DEF FeedInv
<1>1. ASSUME NEW m \in Message, Say(m) PROVE Goal
  <2>1. /\ channel[m.kind] \in Seq(Message) /\ m.body \in Nat /\ m.kind \in Kinds
        /\ channel'[m.kind] = Append(channel[m.kind], m)
        /\ \A k \in Kinds \ {m.kind} : channel'[k] = channel[k]
        /\ feed' = feed /\ said' = said + 1 /\ m.body = said + 1 /\ said \in Nat
    BY <1>1, BodyIsNumber DEF Say, Broadcast, HubInv, TypeOK, FeedTypeOK
  <2>2. \A k \in Kinds : \A i \in 1..Len(channel[k]) : channel[k][i].body \in Nat
    BY BodyIsNumber DEF HubInv, TypeOK
  <2>3. \A b \in Bookings : \A i \in 1..Len(feed[b]) : feed[b][i].body \in Nat
    BY BodyIsNumber DEF FeedTypeOK
  <2>4. FeedsWereSaid' /\ InOrderPerKind'
    BY <2>1, <2>3 DEF FeedsWereSaid, InOrderPerKind
  <2>5. ASSUME NEW k \in Kinds
        PROVE  /\ \A i \in 1..Len(channel'[k]) :
                    channel'[k][i].kind = k /\ channel'[k][i].body <= said'
               /\ \A i, j \in 1..Len(channel'[k]) :
                    i < j => channel'[k][i].body < channel'[k][j].body
               /\ \A b \in Bookings : \A i \in 1..Len(feed'[b]) : \A j \in 1..Len(channel'[k]) :
                    feed'[b][i].kind = k => feed'[b][i].body < channel'[k][j].body
    <3>1. CASE k # m.kind
      <4>1. channel'[k] = channel[k] /\ feed' = feed /\ said' = said + 1 /\ said \in Nat
        BY <2>1, <3>1
      <4>2. \A i \in 1..Len(channel[k]) : channel[k][i].kind = k /\ channel[k][i].body <= said + 1
        BY <2>2, <4>1 DEF ChannelsInOrder
      <4> QED
        BY <4>1, <4>2 DEF ChannelsInOrder
    <3>2. CASE k = m.kind
      <4>1. /\ Len(channel'[k]) = Len(channel[k]) + 1
            /\ channel'[k][Len(channel[k]) + 1] = m
            /\ \A i \in 1..Len(channel[k]) : channel'[k][i] = channel[k][i]
        BY <2>1, <3>2
      <4>2. \A i \in 1..Len(channel'[k]) : i \in 1..Len(channel[k]) \/ i = Len(channel[k]) + 1
        BY <2>1, <3>2, <4>1
      <4>3. \A i \in 1..Len(channel[k]) :
              channel[k][i].kind = k /\ channel[k][i].body <= said /\ channel[k][i].body \in Nat
        BY <2>2 DEF ChannelsInOrder
      <4>4. \A i \in 1..Len(channel'[k]) : channel'[k][i].kind = k /\ channel'[k][i].body <= said'
        <5> SUFFICES ASSUME NEW i \in 1..Len(channel'[k])
                     PROVE  channel'[k][i].kind = k /\ channel'[k][i].body <= said'
          OBVIOUS
        <5>1. CASE i \in 1..Len(channel[k])
          <6>1. channel'[k][i] = channel[k][i]
            BY <4>1, <5>1
          <6>2. channel[k][i].kind = k /\ channel[k][i].body <= said /\ channel[k][i].body \in Nat
            BY <4>3, <5>1
          <6>3. channel[k][i].body <= said'
            BY <2>1, <6>2
          <6> QED
            BY <6>1, <6>2, <6>3
        <5>2. CASE i = Len(channel[k]) + 1
          BY <2>1, <3>2, <4>1, <5>2
        <5> QED
          BY <4>2, <5>1, <5>2
      <4>5. \A i, j \in 1..Len(channel'[k]) : i < j => channel'[k][i].body < channel'[k][j].body
        <5> SUFFICES ASSUME NEW i \in 1..Len(channel'[k]), NEW j \in 1..Len(channel'[k]), i < j
                     PROVE  channel'[k][i].body < channel'[k][j].body
          OBVIOUS
        <5>1. i \in 1..Len(channel[k]) /\ channel'[k][i] = channel[k][i]
          BY <2>1, <3>2, <4>1
        <5>2. CASE j \in 1..Len(channel[k])
          BY <3>2, <4>1, <5>1, <5>2 DEF ChannelsInOrder
        <5>3. CASE j = Len(channel[k]) + 1
          BY <2>1, <4>1, <4>3, <5>1, <5>3
        <5> QED
          BY <4>2, <5>2, <5>3
      <4>6. ASSUME NEW b \in Bookings, NEW i \in 1..Len(feed[b]), NEW j \in 1..Len(channel'[k]),
                   feed[b][i].kind = k
            PROVE  feed[b][i].body < channel'[k][j].body
        <5>1. CASE j \in 1..Len(channel[k])
          BY <4>1, <4>6, <5>1 DEF ChannelsInOrder
        <5>2. CASE j = Len(channel[k]) + 1
          BY <2>1, <2>3, <4>1, <5>2 DEF FeedsWereSaid
        <5> QED
          BY <4>2, <5>1, <5>2
      <4> QED
        BY <2>1, <4>4, <4>5, <4>6
    <3> QED
      BY <3>1, <3>2
  <2> QED
    BY <2>4, <2>5 DEF ChannelsInOrder
<1>2. ASSUME NEW k \in Kinds, Take(k) PROVE Goal
  <2> DEFINE m == Head(channel[k])
  <2> DEFINE b0 == m.booking
  <2>0. /\ m \in Message /\ m.kind = k /\ channel[k] # <<>>
        /\ m = channel[k][1] /\ channel[k] \in Seq(Message)
        /\ channel'[k] = Tail(channel[k])
        /\ \A j \in Kinds \ {k} : channel'[j] = channel[j]
        /\ feed[b0] \in Seq(Message)
        /\ feed'[b0] = Append(feed[b0], m)
        /\ \A b \in Bookings \ {b0} : feed'[b] = feed[b]
    BY <1>2, TakeGrows
  <2>1. /\ m.body \in Nat /\ b0 \in Bookings /\ 1 \in 1..Len(channel[k])
        /\ said' = said /\ said \in Nat
    <3>1. said' = said /\ said \in Nat
      BY <1>2 DEF Take, FeedTypeOK
    <3> QED
      BY <2>0, <3>1, BodyIsNumber
  <2> HIDE DEF m, b0
  <2>2. \A j \in Kinds : \A i \in 1..Len(channel'[j]) :
          \E n \in 1..Len(channel[j]) : /\ n = IF j = k THEN i + 1 ELSE i
                                        /\ channel'[j][i] = channel[j][n]
    <3> SUFFICES ASSUME NEW j \in Kinds, NEW i \in 1..Len(channel'[j])
                 PROVE  \E n \in 1..Len(channel[j]) : /\ n = IF j = k THEN i + 1 ELSE i
                                                      /\ channel'[j][i] = channel[j][n]
      OBVIOUS
    <3>1. CASE j = k
      <4>1. i + 1 \in 1..Len(channel[j]) /\ channel'[j][i] = channel[j][i + 1]
        <5>1. channel'[k] = Tail(channel[k]) /\ channel[k] \in Seq(Message) /\ channel[k] # <<>>
          BY <2>0
        <5>2. \A n \in 1..Len(Tail(channel[k])) :
                n + 1 \in 1..Len(channel[k]) /\ Tail(channel[k])[n] = channel[k][n + 1]
          BY <5>1, TailElements
        <5> QED
          BY <3>1, <5>1, <5>2
      <4> QED
        BY <3>1, <4>1
    <3>2. CASE j # k
      BY <2>0, <3>2
    <3> QED
      BY <3>1, <3>2
  <2>3. \A b \in Bookings : \A i \in 1..Len(feed'[b]) :
          \/ i \in 1..Len(feed[b]) /\ feed'[b][i] = feed[b][i]
          \/ b = b0 /\ i = Len(feed[b]) + 1 /\ feed'[b][i] = m
    <3> SUFFICES ASSUME NEW b \in Bookings, NEW i \in 1..Len(feed'[b])
                 PROVE  \/ i \in 1..Len(feed[b]) /\ feed'[b][i] = feed[b][i]
                        \/ b = b0 /\ i = Len(feed[b]) + 1 /\ feed'[b][i] = m
      OBVIOUS
    <3>1. CASE b = b0
      <4>1. /\ Len(feed'[b]) = Len(feed[b]) + 1 /\ Len(feed[b]) \in Nat
            /\ feed'[b][Len(feed[b]) + 1] = m
            /\ \A n \in 1..Len(feed[b]) : feed'[b][n] = feed[b][n]
        BY <2>0, <3>1, AppendElements
      <4>2. i \in 1..Len(feed[b]) \/ i = Len(feed[b]) + 1
        BY <4>1
      <4> QED
        BY <3>1, <4>1, <4>2
    <3>2. CASE b # b0
      BY <2>0, <3>2
    <3> QED
      BY <3>1, <3>2
  <2>4. FeedsWereSaid'
    <3>1. m.body <= said
      BY <2>0, <2>1 DEF ChannelsInOrder
    <3> QED
      BY <2>1, <2>3, <3>1 DEF FeedsWereSaid
  <2>5. InOrderPerKind'
    <3> SUFFICES ASSUME NEW b \in Bookings, NEW i \in 1..Len(feed'[b]), NEW j \in 1..Len(feed'[b]),
                        i < j, feed'[b][i].kind = feed'[b][j].kind
                 PROVE  feed'[b][i].body < feed'[b][j].body
      BY DEF InOrderPerKind
    <3>0. b = b0 => Len(feed'[b]) = Len(feed[b]) + 1
      BY <2>0, AppendElements
    <3>1. i \in 1..Len(feed[b]) /\ feed'[b][i] = feed[b][i]
      BY <2>0, <2>1, <2>3, <3>0
    <3>2. CASE j \in 1..Len(feed[b]) /\ feed'[b][j] = feed[b][j]
      BY <3>1, <3>2 DEF InOrderPerKind
    <3>3. CASE feed'[b][j] = m
      BY <2>0, <2>1, <3>1, <3>3 DEF ChannelsInOrder
    <3> QED
      BY <2>3, <3>2, <3>3
  <2>6. ASSUME NEW h \in Kinds
        PROVE  /\ \A i \in 1..Len(channel'[h]) :
                    channel'[h][i].kind = h /\ channel'[h][i].body <= said'
               /\ \A i, j \in 1..Len(channel'[h]) :
                    i < j => channel'[h][i].body < channel'[h][j].body
    <3>1. \A i \in 1..Len(channel'[h]) :
            channel'[h][i].kind = h /\ channel'[h][i].body <= said'
      <4> SUFFICES ASSUME NEW i \in 1..Len(channel'[h])
                   PROVE  channel'[h][i].kind = h /\ channel'[h][i].body <= said'
        OBVIOUS
      <4>1. PICK n \in 1..Len(channel[h]) : channel'[h][i] = channel[h][n]
        BY <2>2
      <4> QED
        BY <2>1, <4>1 DEF ChannelsInOrder
    <3>2. ASSUME NEW i \in 1..Len(channel'[h]), NEW j \in 1..Len(channel'[h]), i < j
          PROVE  channel'[h][i].body < channel'[h][j].body
      <4>1. PICK n1 \in 1..Len(channel[h]) : /\ n1 = IF h = k THEN i + 1 ELSE i
                                             /\ channel'[h][i] = channel[h][n1]
        BY <2>2
      <4>2. PICK n2 \in 1..Len(channel[h]) : /\ n2 = IF h = k THEN j + 1 ELSE j
                                             /\ channel'[h][j] = channel[h][n2]
        BY <2>2
      <4>3. n1 < n2
        BY <3>2, <4>1, <4>2
      <4> QED
        BY <4>1, <4>2, <4>3 DEF ChannelsInOrder
    <3> QED
      BY <3>1, <3>2
  <2>7. ASSUME NEW h \in Kinds, NEW b \in Bookings, NEW i \in 1..Len(feed'[b]),
               NEW j \in 1..Len(channel'[h]), feed'[b][i].kind = h
        PROVE  feed'[b][i].body < channel'[h][j].body
    <3>1. CASE i \in 1..Len(feed[b]) /\ feed'[b][i] = feed[b][i]
      <4>1. PICK n \in 1..Len(channel[h]) : channel'[h][j] = channel[h][n]
        BY <2>2
      <4> QED
        BY <2>7, <3>1, <4>1 DEF ChannelsInOrder
    <3>2. CASE feed'[b][i] = m
      <4>1. h = k
        BY <2>0, <2>1, <2>7, <3>2
      <4>2. PICK n \in 1..Len(channel[k]) : n = j + 1 /\ channel'[h][j] = channel[k][n]
        BY <2>2, <4>1
      <4> QED
        BY <2>0, <2>1, <3>2, <4>2 DEF ChannelsInOrder
    <3> QED
      BY <2>3, <3>1, <3>2
  <2> QED
    BY <2>4, <2>5, <2>6, <2>7 DEF ChannelsInOrder
<1>3. CASE UNCHANGED <<channel, feed, said>>
  BY <1>3 DEF ChannelsInOrder, FeedsWereSaid, InOrderPerKind
<1> QED
  BY <1>1, <1>2, <1>3
     DEF FeedNext, Join, Flush, Other, memory, feedVars, vars, Connect, StartPumps, PeerLeaves,
         HubRegister, HubUnregister, HubSend, HubEvict, ReadFails, ReadClose, WriteTake,
         WriteSample, WriteDrain, WriteFlush, WriteSeesClose, WritePingFails, WriteExit

-----------------------------------------------------------------------------
(* The frames, and the message the range loop hands out.                   *)

\* A client the loop still has to visit is registered, open and in the room
\* whose feed the message ends.
LEMMA VisitedIsBehind ==
  ASSUME FeedInv, NEW c \in Clients, c \in todo
  PROVE  /\ outgoing \in Message /\ outgoing.booking = booking[c]
         /\ Joined(c) /\ ~closed[c]
         /\ feed[booking[c]][Len(feed[booking[c]])] = outgoing
<1>1. outgoing # None /\ c \in Members(outgoing.booking)
  BY DEF FeedInv, HubInv, FanOutFresh, AtSelect
<1>2. outgoing \in Message
  BY <1>1 DEF FeedInv, HubInv, TypeOK
<1>3. outgoing.booking = booking[c] /\ IsMember(c)
  BY <1>1 DEF FeedInv, HubInv, RoomsExact, Members, IsMember
<1> QED
  BY <1>1, <1>2, <1>3 DEF FeedInv, HubInv, RoomsExact, LoopSendsLast, Joined

\* A client whose pump runs is registered.
LEMMA PumpIsJoined ==
  ASSUME FeedInv, NEW c \in Clients, writer[c] # "off"
  PROVE  Joined(c)
  BY DEF FeedInv, HubInv, PumpsServe, Joined

\* Frames are filled by WritePump alone, and queues by the range loop alone.
LEMMA FrameStep ==
  ASSUME FeedInv, [FeedNext]_feedVars
  PROVE  (NothingEarly /\ FrameBounded)'
<1> DEFINE Goal == (NothingEarly /\ FrameBounded)'
<1> USE DEF NothingEarly, FrameBounded, Joined
<1>0. /\ NothingEarly /\ FrameBounded /\ DrainIdle /\ CapAssumption
      /\ \A c \in Clients : Len(send[c]) <= SendCap /\ Len(send[c]) \in Nat /\ drain[c] \in Nat
      /\ frame \in [Clients -> Seq(Message)] /\ send \in [Clients -> Seq(Message)]
      /\ drain \in [Clients -> Nat] /\ got \in [Clients -> Seq(Message)]
      /\ DOMAIN writer = Clients /\ DOMAIN handler = Clients
  BY CapAssumption DEF FeedInv, FeedTypeOK, HubInv, TypeOK, CapAssumption
<1>1. ASSUME NEW c \in Clients, HubSend(c), UNCHANGED memory PROVE Goal
  <2>1. Joined(c)
    BY <1>1, VisitedIsBehind DEF HubSend, Visited
  <2>2. \A d \in Clients \ {c} : send'[d] = send[d]
    BY <1>0, <1>1 DEF HubSend
  <2> QED
    BY <1>0, <1>1, <2>1, <2>2 DEF HubSend, clientVars, writeVars, memory
<1>2. ASSUME NEW c \in Clients, WriteTake(c), UNCHANGED memory PROVE Goal
  <2>1. Joined(c) /\ frame[c] = <<>>
    BY <1>0, <1>2, PumpIsJoined DEF WriteTake
  <2>2. \A d \in Clients \ {c} : send'[d] = send[d] /\ frame'[d] = frame[d] /\ writer'[d] = writer[d]
    BY <1>0, <1>2 DEF WriteTake
  <2>3. \/ writer'[c] = "sample" /\ frame'[c] = <<Head(send[c])>>
        \/ writer'[c] = "exit" /\ frame'[c] = frame[c]
    BY <1>0, <1>2 DEF WriteTake
  <2>4. handler' = handler /\ drain' = drain /\ got' = got
    BY <1>2 DEF WriteTake, clientVars, memory
  <2>5. Len(<<Head(send[c])>>) = 1 /\ <<Head(send[c])>> # <<>>
    OBVIOUS
  <2>6. NothingEarly'
    BY <1>0, <2>1, <2>2, <2>4
  <2>7. FrameBounded'
    BY <1>0, <2>1, <2>2, <2>3, <2>4, <2>5
  <2> QED
    BY <2>6, <2>7
<1>3. ASSUME NEW c \in Clients, WriteSample(c), UNCHANGED memory PROVE Goal
  <2>1. \A d \in Clients \ {c} : drain'[d] = drain[d] /\ writer'[d] = writer[d]
    BY <1>0, <1>3 DEF WriteSample
  <2>2. writer'[c] = "drain" /\ drain'[c] = Len(send[c]) /\ Len(frame[c]) = 1 /\ frame[c] # <<>>
    BY <1>0, <1>3 DEF WriteSample, Queued
  <2>3. handler' = handler /\ frame' = frame /\ got' = got /\ send' = send
    BY <1>3 DEF WriteSample, clientVars, memory
  <2>4. NothingEarly'
    BY <1>0, <2>3
  <2>5. 1 + Len(send[c]) <= SendCap + 1
    BY <1>0 DEF CapAssumption
  <2>6. FrameBounded'
    BY <1>0, <2>1, <2>2, <2>3, <2>5
  <2> QED
    BY <2>4, <2>6
<1>4. ASSUME NEW c \in Clients, WriteDrain(c), UNCHANGED memory PROVE Goal
  <2>1. Joined(c)
    BY <1>4, PumpIsJoined DEF WriteDrain
  <2>2. \A d \in Clients \ {c} : send'[d] = send[d] /\ frame'[d] = frame[d] /\ drain'[d] = drain[d]
    BY <1>0, <1>4 DEF WriteDrain
  <2>3. handler' = handler /\ writer' = writer /\ got' = got /\ writer[c] = "drain"
    BY <1>4 DEF WriteDrain, clientVars, memory
  <2>4. /\ frame'[c] = Append(frame[c], Head(send[c])) /\ Head(send[c]) \in Message
        /\ drain'[c] = drain[c] - 1
    BY <1>0, <1>4 DEF WriteDrain
  <2>5. frame'[c] # <<>> /\ Len(frame'[c]) = Len(frame[c]) + 1 /\ Len(frame[c]) \in Nat
    <3>1. frame[c] \in Seq(Message)
      BY <1>0
    <3> QED
      BY <2>4, <3>1, AppendElements
  <2>6. Len(frame'[c]) + drain'[c] <= SendCap + 1
    BY <1>0, <2>3, <2>4, <2>5
  <2> QED
    BY <1>0, <2>1, <2>2, <2>3, <2>5, <2>6
<1>5. ASSUME NEW c \in Clients, Flush(c) PROVE Goal
  <2>1. Joined(c)
    BY <1>5, PumpIsJoined DEF Flush, WriteFlush
  <2>2. \A d \in Clients \ {c} : got'[d] = got[d] /\ frame'[d] = frame[d] /\ writer'[d] = writer[d]
    BY <1>0, <1>5 DEF Flush, WriteFlush
  <2>3. frame'[c] = <<>> /\ writer'[c] \in {"select", "exit"}
    BY <1>0, <1>5 DEF Flush, WriteFlush
  <2>4. handler' = handler /\ send' = send /\ drain' = drain
    BY <1>5 DEF Flush, WriteFlush, clientVars
  <2> QED
    BY <1>0, <2>1, <2>2, <2>3, <2>4
<1>6. ASSUME NEW c \in Clients, WriteSeesClose(c) \/ WritePingFails(c) \/ WriteExit(c),
             UNCHANGED memory
      PROVE  Goal
  <2>1. \A d \in Clients \ {c} : writer'[d] = writer[d]
    BY <1>0, <1>6 DEF WriteSeesClose, WritePingFails, WriteExit
  <2>2. frame[c] = <<>> /\ writer'[c] \in {"exit", "done"}
    BY <1>0, <1>6 DEF WriteSeesClose, WritePingFails, WriteExit
  <2>3. handler' = handler /\ send' = send /\ drain' = drain /\ frame' = frame /\ got' = got
    BY <1>6 DEF WriteSeesClose, WritePingFails, WriteExit, clientVars, memory
  <2> QED
    BY <1>0, <2>1, <2>2, <2>3
<1>7. ASSUME NEW c \in Clients, StartPumps(c), UNCHANGED memory PROVE Goal
  <2>1. /\ writer[c] = "off" /\ Joined(c)
    BY <1>7 DEF StartPumps, FeedInv, HubInv, PumpsServe
  <2>2. \A d \in Clients \ {c} : writer'[d] = writer[d] /\ handler'[d] = handler[d]
    BY <1>0, <1>7 DEF StartPumps
  <2>3. writer'[c] = "select" /\ handler'[c] = "serving"
    BY <1>0, <1>7 DEF StartPumps
  <2>4. send' = send /\ drain' = drain /\ frame' = frame /\ got' = got
    BY <1>7 DEF StartPumps, memory
  <2> QED
    BY <1>0, <2>1, <2>2, <2>3, <2>4
<1>8. ASSUME NEW c \in Clients, (\E b \in Bookings : Connect(c, b)) \/ HubRegister(c), got' = got
      PROVE  Goal
  <2>1. \A d \in Clients \ {c} : handler'[d] = handler[d]
    BY <1>0, <1>8 DEF Connect, HubRegister
  <2>2. UNCHANGED <<send, frame, drain, writer>> /\ ~Joined(c)
    BY <1>8 DEF Connect, HubRegister, writeVars
  <2> QED
    BY <1>0, <1>8, <2>1, <2>2
<1>9. CASE UNCHANGED <<handler, send, writeVars, got>>
  BY <1>0, <1>9 DEF writeVars
<1> QED
  BY <1>1, <1>2, <1>3, <1>4, <1>5, <1>6, <1>7, <1>8, <1>9
     DEF FeedNext, Say, Take, Join, Other, Broadcast, HubTake, PeerLeaves, HubUnregister,
         HubEvict, ReadFails, ReadClose, feedVars, vars, memory, clientVars

\* The loop hands out what was last added to the feed, until it is over.
LEMMA LoopStep ==
  ASSUME FeedInv, [FeedNext]_feedVars
  PROVE  LoopSendsLast'
<1> USE DEF FeedInv, LoopSendsLast
<1>1. ASSUME NEW k \in Kinds, Take(k) PROVE LoopSendsLast'
  <2> DEFINE m == Head(channel[k])
  <2>1. /\ m \in Message /\ feed[m.booking] \in Seq(Message)
        /\ feed'[m.booking] = Append(feed[m.booking], m)
    BY <1>1, TakeGrows
  <2>2. outgoing' = m \/ outgoing' = None
    BY <1>1 DEF Take, HubTake, AtSelect
  <2> HIDE DEF m
  <2>3. Len(feed'[m.booking]) > 0 /\ feed'[m.booking][Len(feed'[m.booking])] = m
    BY <2>1, AppendElements
  <2> QED
    BY <2>2, <2>3
<1>2. ASSUME NEW c \in Clients, Visited(c), feed' = feed PROVE LoopSendsLast'
  BY <1>2 DEF Visited
<1>3. CASE UNCHANGED <<outgoing, feed>>
  BY <1>3
<1> QED
  BY <1>1, <1>2, <1>3
     DEF FeedNext, Say, Join, Flush, Other, Broadcast, Connect, StartPumps, PeerLeaves,
         HubRegister, HubUnregister, HubSend, HubEvict, ReadFails, ReadClose, WriteTake,
         WriteSample, WriteDrain, WriteFlush, WriteSeesClose, WritePingFails, WriteExit,
         feedVars, vars, hubVars, memory

-----------------------------------------------------------------------------
(* The stretch of the feed that a client was handed.                       *)

\* What a step of the hub does to the stream of a client whose pump goes on:
\* only the range loop adds to it, and only the message it is sending.
LEMMA HandedStep ==
  ASSUME FeedInv, [FeedNext]_feedVars, NEW c \in Clients, Pumping(c)'
  PROVE  \/ Handed(c)' = Handed(c) /\ ~HubSend(c)
         \/ HubSend(c) /\ Handed(c)' = Append(Handed(c), outgoing)
<1> DEFINE Goal == \/ Handed(c)' = Handed(c) /\ ~HubSend(c)
                   \/ HubSend(c) /\ Handed(c)' = Append(Handed(c), outgoing)
<1>0. /\ got[c] \in Seq(Message) /\ frame[c] \in Seq(Message) /\ send[c] \in Seq(Message)
      /\ DOMAIN got = Clients /\ DOMAIN frame = Clients /\ DOMAIN send = Clients
      /\ DOMAIN writer = Clients /\ NothingEarly /\ FrameBounded
  BY StreamTypes DEF FeedInv, FeedTypeOK, HubInv, TypeOK
<1>1. Handed(c) = Stream(got[c], frame[c], send[c]) /\ Handed(c)' = Stream(got'[c], frame'[c], send'[c])
  BY DEF Handed, Stream
<1>2. HubSend(c) => Goal
  <2> SUFFICES ASSUME HubSend(c) PROVE Handed(c)' = Append(Handed(c), outgoing)
    OBVIOUS
  <2>1. outgoing \in Message
    BY VisitedIsBehind DEF HubSend, Visited
  <2>2. send'[c] = Append(send[c], outgoing) /\ frame' = frame
    BY <1>0 DEF HubSend, writeVars
  <2>3. got' = got
    <3>1. Len(send'[c]) # Len(send[c])
      BY <1>0, <2>1, <2>2, AppendElements
    <3>2. send' # send
      BY <3>1
    <3> QED
      BY <3>2 DEF FeedNext, Say, Take, Join, Flush, Other, memory, feedVars, Broadcast, HubTake,
                  HubRegister, WriteFlush
  <2> QED
    <3>1. Handed(c)' = Stream(got[c], frame[c], Append(send[c], outgoing))
      BY <1>1, <2>2, <2>3, Zenon
    <3>2. @ = Append(Stream(got[c], frame[c], send[c]), outgoing)
      BY <1>0, <2>1, AppendToStream
    <3> QED
      BY <1>1, <3>1, <3>2, Zenon
<1>3. ASSUME Handed(c)' = Handed(c) PROVE Goal
  BY <1>2, <1>3
<1>4. CASE got'[c] = got[c] /\ frame'[c] = frame[c] /\ send'[c] = send[c]
  BY <1>3, <1>4, <1>1
<1>5. CASE WriteTake(c) /\ UNCHANGED memory
  <2>1. /\ frame[c] = <<>> /\ frame'[c] = <<Head(send[c])>>
        /\ send[c] # <<>> /\ send'[c] = Tail(send[c]) /\ got'[c] = got[c]
    BY <1>0, <1>5 DEF WriteTake, memory, Pumping, FrameBounded
  <2> QED
    BY <1>0, <1>1, <1>3, <2>1, HeadToFrame
<1>6. CASE WriteDrain(c) /\ UNCHANGED memory
  <2>1. /\ frame'[c] = Append(frame[c], Head(send[c]))
        /\ send[c] # <<>> /\ send'[c] = Tail(send[c]) /\ got'[c] = got[c]
    BY <1>0, <1>6 DEF WriteDrain, memory
  <2> QED
    BY <1>0, <1>1, <1>3, <2>1, HeadJoinsFrame
<1>7. CASE Flush(c)
  <2>1. got'[c] = got[c] \o frame[c] /\ frame'[c] = <<>> /\ send'[c] = send[c]
    BY <1>0, <1>7 DEF Flush, WriteFlush, Pumping
  <2> QED
    BY <1>0, <1>1, <1>3, <2>1, FrameFlushed
<1>8. ASSUME NEW d \in Clients, d # c, HubSend(d) \/ WriteTake(d) \/ WriteDrain(d), UNCHANGED memory
      PROVE  Goal
  BY <1>0, <1>4, <1>8 DEF HubSend, WriteTake, WriteDrain, writeVars, memory
<1>9. ASSUME NEW d \in Clients, d # c, Flush(d) PROVE Goal
  BY <1>0, <1>4, <1>9 DEF Flush, WriteFlush
<1>10. CASE UNCHANGED <<got, frame, send>>
  BY <1>4, <1>10
<1> QED
  BY <1>2, <1>5, <1>6, <1>7, <1>8, <1>9, <1>10
     DEF FeedNext, Say, Take, Join, Other, Broadcast, HubTake, Connect, StartPumps, PeerLeaves,
         HubRegister, HubUnregister, HubEvict, ReadFails, ReadClose, WriteSample, WriteSeesClose,
         WritePingFails, WriteExit, feedVars, vars, memory, clientVars, writeVars

\* A pump that has returned does not start again.
LEMMA PumpingStep ==
  ASSUME FeedInv, [FeedNext]_feedVars, NEW c \in Clients, Pumping(c)'
  PROVE  Pumping(c)
<1>0. writer \in [Clients -> WriterStates] /\ PumpsServe
  BY DEF FeedInv, HubInv, TypeOK
<1>1. ASSUME NEW d \in Clients,
             \/ StartPumps(d) \/ WriteTake(d) \/ WriteSample(d) \/ WriteFlush(d)
             \/ WriteSeesClose(d) \/ WritePingFails(d) \/ WriteExit(d)
      PROVE  Pumping(c)
  BY <1>0, <1>1
     DEF StartPumps, WriteTake, WriteSample, WriteFlush, WriteSeesClose, WritePingFails,
         WriteExit, Pumping, PumpsServe
<1>2. CASE writer' = writer
  BY <1>2 DEF Pumping
<1> QED
  BY <1>1, <1>2
     DEF FeedNext, Say, Take, Join, Flush, Other, Broadcast, HubTake, Connect, PeerLeaves,
         HubRegister, HubUnregister, HubSend, HubEvict, ReadFails, ReadClose, WriteDrain,
         feedVars, vars, writeVars

\* Unless the hub takes a message, or registers the client, its place in its
\* booking's feed stays; unless the loop visits it, so does what it is owed.
LEMMA PlaceStep ==
  ASSUME FeedInv, [FeedNext]_feedVars, NEW c \in Clients, Joined(c)',
         \A k \in Kinds : ~Take(k), ~Join(c)
  PROVE  /\ Joined(c) /\ feed' = feed /\ joined'[c] = joined[c] /\ booking'[c] = booking[c]
         /\ ~closed'[c] /\ ~HubSend(c) => ~closed[c] /\ (c \in todo' <=> c \in todo)
<1> DEFINE Place == Joined(c) /\ feed' = feed /\ joined'[c] = joined[c] /\ booking'[c] = booking[c]
           Owed  == ~closed'[c] /\ ~HubSend(c) => ~closed[c] /\ (c \in todo' <=> c \in todo)
<1>0. /\ DOMAIN handler = Clients /\ DOMAIN booking = Clients /\ DOMAIN joined = Clients
      /\ closed \in [Clients -> BOOLEAN]
  BY DEF FeedInv, FeedTypeOK, HubInv, TypeOK
<1>1. Place
  <2>1. ASSUME NEW d \in Clients, NEW b \in Bookings, Connect(d, b), UNCHANGED memory PROVE Place
    BY <1>0, <2>1 DEF Connect, Joined, memory
  <2>2. ASSUME NEW d \in Clients, StartPumps(d), UNCHANGED memory PROVE Place
    BY <1>0, <2>2 DEF StartPumps, Joined, memory
  <2>3. ASSUME NEW d \in Clients, d # c, Join(d) PROVE Place
    BY <1>0, <2>3 DEF Join, HubRegister, Joined
  <2>4. CASE UNCHANGED <<handler, booking, feed, joined>>
    BY <2>4 DEF Joined
  <2> QED
    BY <2>1, <2>2, <2>3, <2>4
       DEF FeedNext, Say, Flush, Other, Broadcast, PeerLeaves, HubUnregister, HubSend, HubEvict,
           ReadFails, ReadClose, WriteTake, WriteSample, WriteDrain, WriteFlush, WriteSeesClose,
           WritePingFails, WriteExit, feedVars, vars, memory, clientVars
<1>2. Owed
  <2>1. ASSUME NEW d \in Clients, HubUnregister(d) PROVE Owed
    BY <1>0, <2>1 DEF HubUnregister, Drop
  <2>2. ASSUME NEW d \in Clients, HubEvict(d) PROVE Owed
    BY <1>0, <2>2 DEF HubEvict, Drop, Visited
  <2>3. ASSUME NEW d \in Clients, HubSend(d) PROVE Owed
    BY <2>3 DEF HubSend, Visited
  <2>4. CASE UNCHANGED <<closed, todo>>
    BY <2>4
  <2> QED
    BY <2>1, <2>2, <2>3, <2>4
       DEF FeedNext, Say, Join, Flush, Other, Broadcast, Connect, StartPumps, PeerLeaves,
           HubRegister, ReadFails, ReadClose, WriteTake, WriteSample, WriteDrain, WriteFlush,
           WriteSeesClose, WritePingFails, WriteExit, feedVars, vars, hubVars
<1> QED
  BY <1>1, <1>2

\* Each client's stretch stays without gap, and as long as the client is owed.
LEMMA StretchStep ==
  ASSUME FeedInv, [FeedNext]_feedVars
  PROVE  (Contiguous /\ NothingMissed)'
<1> SUFFICES ASSUME NEW c \in Clients, Joined(c)', Pumping(c)'
             PROVE  LET f == feed'[booking'[c]]
                        n == joined'[c] + Len(Handed(c)')
                    IN  /\ n <= Len(f) /\ Handed(c)' = SubSeq(f, joined'[c] + 1, n)
                        /\ ~closed'[c] => Len(f) = n + (IF c \in todo' THEN 1 ELSE 0)
  BY DEF Contiguous, NothingMissed
<1> DEFINE f == feed[booking[c]]
           n == joined[c] + Len(Handed(c))
<1>0. /\ Pumping(c) /\ joined[c] \in Nat /\ Handed(c) \in Seq(Message)
      /\ Joined(c) => /\ booking[c] \in Bookings /\ f \in Seq(Message)
                      /\ n <= Len(f) /\ Handed(c) = SubSeq(f, joined[c] + 1, n)
                      /\ ~closed[c] => Len(f) = n + (IF c \in todo THEN 1 ELSE 0)
  BY PumpingStep, StreamTypes DEF FeedInv, Contiguous, NothingMissed
<1>1. ASSUME NEW k \in Kinds, Take(k)
      PROVE  LET g == feed'[booking'[c]]
                 l == joined'[c] + Len(Handed(c)')
             IN  /\ l <= Len(g) /\ Handed(c)' = SubSeq(g, joined'[c] + 1, l)
                 /\ ~closed'[c] => Len(g) = l + (IF c \in todo' THEN 1 ELSE 0)
  <2> DEFINE m == Head(channel[k])
  <2>1. /\ m \in Message /\ f \in Seq(Message) /\ Joined(c) /\ todo = {} /\ ~HubSend(c)
        /\ booking'[c] = booking[c] /\ joined'[c] = joined[c] /\ closed'[c] = closed[c]
    BY <1>0, <1>1, TakeGrows
       DEF Take, HubTake, clientVars, Joined, FeedInv, HubInv, FanOutFresh, HubSend, Visited
  <2>2. Handed(c)' = Handed(c)
    BY <2>1, HandedStep
  <2>3. n \in Nat
    BY <1>0
  <2>4. CASE booking[c] = m.booking
    <3>1. feed'[booking[c]] = Append(f, m)
      BY <1>1, <2>4, TakeGrows
    <3>2. Len(Append(f, m)) = Len(f) + 1 /\ Len(f) \in Nat
      BY <2>1
    <3>3. SubSeq(Append(f, m), joined[c] + 1, n) = SubSeq(f, joined[c] + 1, n)
      BY <1>0, <2>1, <2>3, StretchStays
    <3>4. ~closed[c] => c \in todo'
      BY <1>1, <2>1, <2>4 DEF Take, HubTake, FeedInv, HubInv, RoomsExact, IsMember, Members, Joined
    <3>5. joined'[c] + Len(Handed(c)') = n /\ joined'[c] = joined[c] /\ feed'[booking'[c]] = Append(f, m)
      BY <2>1, <2>2, <3>1
    <3>6. n <= Len(f) /\ Handed(c) = SubSeq(f, joined[c] + 1, n)
      BY <1>0, <2>1
    <3>7. ~closed'[c] => Len(f) = n /\ c \in todo'
      BY <1>0, <2>1, <2>3, <3>2, <3>4
    <3> HIDE DEF n, f, m
    <3>8. n <= Len(f) + 1 /\ (~closed'[c] => Len(f) + 1 = n + 1)
      BY <2>3, <3>2, <3>6, <3>7
    <3> QED
      BY <2>2, <3>2, <3>3, <3>5, <3>6, <3>7, <3>8
  <2>5. CASE booking[c] # m.booking
    <3>1. feed'[booking[c]] = f
      BY <1>0, <1>1, <2>1, <2>5, TakeGrows
    <3>2. c \notin todo'
      BY <1>1, <2>1, <2>5 DEF Take, HubTake, FeedInv, HubInv, RoomsExact
    <3> QED
      BY <1>0, <2>1, <2>2, <3>1, <3>2
  <2> QED
    BY <2>4, <2>5
<1>2. ASSUME Join(c)
      PROVE  LET g == feed'[booking'[c]]
                 l == joined'[c] + Len(Handed(c)')
             IN  /\ l <= Len(g) /\ Handed(c)' = SubSeq(g, joined'[c] + 1, l)
                 /\ ~closed'[c] => Len(g) = l + (IF c \in todo' THEN 1 ELSE 0)
  <2>1. got[c] = <<>> /\ frame[c] = <<>> /\ send[c] = <<>>
    BY <1>2 DEF Join, HubRegister, FeedInv, NothingEarly, Joined
  <2>2. Handed(c)' = <<>>
    BY <1>2, <2>1 DEF Join, HubRegister, writeVars, Handed
  <2>3. booking[c] \in Bookings /\ f \in Seq(Message) /\ todo = {}
    BY <1>2 DEF Join, HubRegister, FeedInv, FeedTypeOK, HubInv, BookingSet, FanOutFresh
  <2>4. joined'[c] = Len(f) /\ feed' = feed /\ booking' = booking /\ todo' = todo
    BY <1>2 DEF Join, HubRegister, FeedInv, FeedTypeOK
  <2>5. Len(f) \in Nat /\ SubSeq(f, Len(f) + 1, Len(f)) = <<>>
    BY <2>3
  <2>6. Len(f) + Len(Handed(c)') = Len(f)
    BY <2>2, <2>5
  <2>7. feed'[booking'[c]] = f
    BY <2>4
  <2> HIDE DEF f
  <2> QED
    BY <2>2, <2>3, <2>4, <2>5, <2>6, <2>7
<1>3. ASSUME \A k \in Kinds : ~Take(k), ~Join(c)
      PROVE  LET g == feed'[booking'[c]]
                 l == joined'[c] + Len(Handed(c)')
             IN  /\ l <= Len(g) /\ Handed(c)' = SubSeq(g, joined'[c] + 1, l)
                 /\ ~closed'[c] => Len(g) = l + (IF c \in todo' THEN 1 ELSE 0)
  <2>1. /\ Joined(c) /\ feed' = feed /\ joined'[c] = joined[c] /\ booking'[c] = booking[c]
        /\ ~closed'[c] /\ ~HubSend(c) => ~closed[c] /\ (c \in todo' <=> c \in todo)
    BY <1>3, PlaceStep
  <2>2. CASE Handed(c)' = Handed(c) /\ ~HubSend(c)
    BY <1>0, <2>1, <2>2
  <2>3. CASE HubSend(c) /\ Handed(c)' = Append(Handed(c), outgoing)
    <3>1. c \in todo /\ c \notin todo'
      BY <2>3 DEF HubSend, Visited
    <3>2. outgoing \in Message /\ ~closed[c] /\ f[Len(f)] = outgoing
      BY <3>1, VisitedIsBehind
    <3>3. Len(f) = n + 1 /\ n \in Nat /\ joined[c] <= n /\ n < Len(f)
      <4>1. n \in Nat /\ joined[c] <= n
        BY <1>0
      <4>2. Len(f) = n + 1
        BY <1>0, <2>1, <3>1, <3>2
      <4> HIDE DEF n
      <4> QED
        BY <4>1, <4>2
    <3>4. SubSeq(f, joined[c] + 1, n + 1) = Append(SubSeq(f, joined[c] + 1, n), f[n + 1])
      BY <1>0, <2>1, <3>3, StretchGrows
    <3>5. Len(Handed(c)') = Len(Handed(c)) + 1 /\ Len(Handed(c)) \in Nat
      BY <1>0, <2>3, <3>2
    <3>6. Handed(c)' = SubSeq(f, joined[c] + 1, n + 1)
      BY <1>0, <2>1, <2>3, <3>2, <3>3, <3>4
    <3>7. joined[c] + Len(Handed(c)') = n + 1
      BY <1>0, <3>5
    <3>8. feed'[booking'[c]] = f /\ joined'[c] = joined[c]
      BY <2>1
    <3> HIDE DEF n, f
    <3>9. Len(f) = n + 1 /\ n + 1 <= Len(f)
      BY <3>3
    <3>10. joined'[c] + Len(Handed(c)') = n + 1 /\ Handed(c)' = SubSeq(f, joined'[c] + 1, n + 1)
      BY <3>6, <3>7, <3>8
    <3>11. feed'[booking'[c]] = f
      BY <3>8
    <3>12. Handed(c)' = SubSeq(feed'[booking'[c]], joined'[c] + 1, joined'[c] + Len(Handed(c)'))
      BY <3>10, <3>11, Zenon
    <3>13. Len(feed'[booking'[c]]) = joined'[c] + Len(Handed(c)')
      BY <3>9, <3>10, <3>11
    <3>14. joined'[c] \in Nat /\ Len(Handed(c)') \in Nat
      BY <1>0, <3>5, <3>8
    <3> QED
      BY <3>1, <3>12, <3>13, <3>14
  <2> QED
    BY <2>2, <2>3, HandedStep
<1> QED
  BY <1>1, <1>2, <1>3

-----------------------------------------------------------------------------
(* The invariant, and what follows from it.                                *)

\* No step of a broadcaster, the hub or a pump breaks the invariant.
LEMMA FeedInvIsInductive == FeedInv /\ [FeedNext]_feedVars => FeedInv'
<1> SUFFICES ASSUME FeedInv, [FeedNext]_feedVars PROVE FeedInv'
  OBVIOUS
<1>1. HubInv'
  BY FeedStepIsStep, InvIsInductive DEF FeedInv
<1> QED
  BY <1>1, FeedTypeStep, FrameStep, LoopStep, OrderStep, StretchStep DEF FeedInv

\* The inductive invariant of the streams.
THEOREM FeedInvariant == FeedSpec => []FeedInv
  BY FeedInitInv, FeedInvIsInductive, PTL DEF FeedSpec

\* The hub with its memory behaves as the hub does, so everything proved of the
\* hub holds of it.
THEOREM FeedIsHub == FeedSpec => Spec
<1>1. FeedInit => Init
  BY DEF FeedInit
<1> QED
  BY <1>1, FeedStepIsStep, PTL DEF FeedSpec, Spec

\* Whatever room a message passed through and however frames were filled, a
\* client was handed a gapless stretch of its booking's feed.
THEOREM HandedIsContiguous == FeedSpec => []Contiguous
<1>1. FeedInv => Contiguous
  BY DEF FeedInv
<1> QED
  BY <1>1, FeedInvariant, PTL

\* A client that is not evicted misses no message, whoever else is evicted.
THEOREM NothingIsMissed == FeedSpec => []NothingMissed
<1>1. FeedInv => NothingMissed
  BY DEF FeedInv
<1> QED
  BY <1>1, FeedInvariant, PTL

\* The feeds keep the order of the broadcasts of one kind.
THEOREM KindsKeepOrder == FeedSpec => []InOrderPerKind
<1>1. FeedInv => InOrderPerKind
  BY DEF FeedInv
<1> QED
  BY <1>1, FeedInvariant, PTL

\* A client that is served is at most two full queues and two messages behind:
\* one queue, the frame that was opened on a full one, and the range loop.
LEMMA InvBoundsLag == FeedInv => BoundedLag
<1> SUFFICES ASSUME FeedInv, NEW c \in Clients, Joined(c), Pumping(c), ~closed[c]
             PROVE  Len(feed[booking[c]]) - (joined[c] + Len(got[c])) <= 2 * SendCap + 2
  BY DEF BoundedLag
<1> DEFINE f == Len(frame[c])
           q == Len(send[c])
           g == Len(got[c])
           l == Len(feed[booking[c]])
           owed == IF c \in todo THEN 1 ELSE 0
<1>1. f \in Nat /\ q \in Nat /\ g \in Nat /\ l \in Nat /\ joined[c] \in Nat /\ owed \in {0, 1}
  <2>1. /\ got[c] \in Seq(Message) /\ frame[c] \in Seq(Message) /\ send[c] \in Seq(Message)
        /\ feed[booking[c]] \in Seq(Message) /\ joined[c] \in Nat
    BY StreamTypes
  <2> QED
    BY <2>1
<1>2. l = joined[c] + (g + f + q) + owed
  BY StreamTypes DEF FeedInv, NothingMissed
<1>3. q <= SendCap /\ SendCap \in Nat
  BY CapAssumption DEF FeedInv, HubInv, TypeOK
<1>4. f <= SendCap + 1
  <2>1. drain[c] \in Nat /\ writer[c] \in WriterStates
    BY DEF FeedInv, HubInv, TypeOK
  <2>2. CASE writer[c] = "drain"
    BY <1>1, <1>3, <2>1, <2>2 DEF FeedInv, FrameBounded
  <2>3. CASE writer[c] = "sample"
    <3>1. Len(frame[c]) = 1
      BY <2>3 DEF FeedInv, FrameBounded
    <3> QED
      BY <1>3, <3>1
  <2>4. CASE writer[c] \notin {"sample", "drain"}
    BY <1>3, <2>4 DEF FeedInv, FrameBounded
  <2> QED
    BY <2>2, <2>3, <2>4
<1> HIDE DEF f, q, g, l, owed
<1>5. l - (joined[c] + g) <= 2 * SendCap + 2
  BY <1>1, <1>2, <1>3, <1>4
<1> QED
  BY <1>5 DEF l, g

\* However slow its peer is, a client that is still served lags by no more.
THEOREM LagIsBounded == FeedSpec => []BoundedLag
  BY InvBoundsLag, FeedInvariant, PTL

-----------------------------------------------------------------------------
(* The refinement of RoomFeed.                                             *)

\* The booking a client watches, as RoomFeed sees it.
Room == [c \in Clients |-> IF Joined(c) THEN booking[c] ELSE None]

\* The hub's first state is one of RoomFeed's.
LEMMA InitRefines == FeedInit => Feed!Init
<1> SUFFICES ASSUME FeedInit PROVE Feed!Init
  OBVIOUS
<1>1. \A c \in Clients : ~Joined(c)
  BY DEF FeedInit, Init, Joined
<1> QED
  BY <1>1 DEF FeedInit, Feed!Init

\* A message the hub takes is published to the feed of its booking.
LEMMA TakePublishes ==
  ASSUME FeedInv, NEW k \in Kinds, Take(k)
  PROVE  Feed!Next
<1> DEFINE m == Head(channel[k])
<1>1. m \in Message /\ m.booking \in Bookings
  BY TakeGrows, BodyIsNumber
<1>2. feed' = [feed EXCEPT ![m.booking] = Append(@, m)] /\ joined' = joined /\ got' = got
  BY DEF Take
<1>3. Room' = Room
  BY DEF Take, HubTake, clientVars, Room, Joined
<1>4. Feed!Publish(m.booking, m)
  BY <1>2, <1>3 DEF Feed!Publish, Room
<1> QED
  BY <1>1, <1>4 DEF Feed!Next

\* A client that is registered starts to watch its booking.
LEMMA JoinJoins ==
  ASSUME FeedInv, NEW c \in Clients, Join(c)
  PROVE  Feed!Next
<1>1. booking[c] \in Bookings /\ ~Joined(c) /\ booking' = booking
  BY DEF Join, HubRegister, Joined, FeedInv, HubInv, BookingSet
<1>2. Joined(c)' /\ \A d \in Clients \ {c} : Joined(d)' = Joined(d)
  BY DEF Join, HubRegister, Joined, FeedInv, HubInv, TypeOK
<1>3. Room[c] = None /\ Room' = [Room EXCEPT ![c] = booking[c]]
  BY <1>1, <1>2 DEF Room
<1>4. \E b \in Bookings : Feed!Join(c, b)
  BY <1>1, <1>3 DEF Join, Feed!Join, Room
<1> QED
  BY <1>4 DEF Feed!Next

\* A frame that is flushed shows the next messages of the feed.
LEMMA FlushShows ==
  ASSUME FeedInv, NEW c \in Clients, Flush(c), FeedInv'
  PROVE  Feed!Next \/ UNCHANGED Feed!vars
<1>1. UNCHANGED <<feed, joined, booking, handler>> /\ Joined(c) /\ Joined(c)'
  BY PumpIsJoined DEF Flush, WriteFlush, clientVars, Joined
<1>2. Room' = Room
  BY <1>1 DEF Room, Joined
<1>3. CASE writer'[c] = "select"
  <2> DEFINE b == booking[c]
             n == joined[c] + Len(got'[c])
  <2>1. /\ got' = [got EXCEPT ![c] = @ \o frame[c]] /\ frame[c] # <<>>
        /\ got[c] \in Seq(Message) /\ frame[c] \in Seq(Message)
        /\ b \in Bookings /\ feed[b] \in Seq(Message) /\ joined[c] \in Nat
        /\ got'[c] = got[c] \o frame[c]
    <3>1. got \in [Clients -> Seq(Message)]
      BY DEF FeedInv, FeedTypeOK
    <3> QED
      BY <1>1, <1>3, <3>1, StreamTypes DEF Flush, WriteFlush, FeedInv, FrameBounded
  <2>2. Len(got'[c]) > Len(got[c]) /\ Len(got'[c]) \in Nat /\ Len(got[c]) \in Nat
    BY <2>1, ConcatLength
  <2>3. /\ Pumping(c)' /\ frame'[c] = <<>> /\ send'[c] \in Seq(Message) /\ got'[c] \in Seq(Message)
        /\ Handed(c)' = got'[c] \o send'[c]
    <3>1. Pumping(c)' /\ frame'[c] = <<>> /\ send'[c] \in Seq(Message) /\ got'[c] \in Seq(Message)
      BY <1>3, <2>1 DEF Pumping, Flush, WriteFlush, FeedInv, HubInv, TypeOK
    <3> QED
      BY <3>1 DEF Handed
  <2>4. /\ joined[c] + Len(got'[c] \o send'[c]) <= Len(feed[b])
        /\ got'[c] \o send'[c] = SubSeq(feed[b], joined[c] + 1, joined[c] + Len(got'[c] \o send'[c]))
    BY <1>1, <2>3 DEF FeedInv, Contiguous
  <2>5. got'[c] = SubSeq(feed[b], joined[c] + 1, n)
    BY <2>1, <2>3, <2>4, StretchPrefix
  <2>6. n \in 1..Len(feed[b])
    <3> DEFINE h == got'[c] \o send'[c]
    <3>1. Len(got'[c]) <= Len(h) /\ Len(h) \in Nat
      BY <2>3, ConcatLength
    <3>2. joined[c] \in Nat /\ Len(feed[b]) \in Nat
      BY <2>1
    <3>3. joined[c] + Len(h) <= Len(feed[b])
      BY <2>4
    <3> HIDE DEF h
    <3> QED
      BY <2>2, <3>1, <3>2, <3>3
  <2>7. Room[c] = b /\ b # None
    BY <1>1, <2>1, NoneAssumption DEF Room
  <2>8. got' = [got EXCEPT ![c] = SubSeq(feed[b], joined[c] + 1, n)]
    BY <2>1, <2>5
  <2>9. Feed!Show(c, n)
    BY <1>1, <1>2, <2>2, <2>6, <2>7, <2>8 DEF Feed!Show, Room
  <2> QED
    BY <2>1, <2>6, <2>9 DEF Feed!Next
<1>4. CASE writer'[c] # "select"
  BY <1>1, <1>2, <1>4 DEF Flush, Feed!vars, Room
<1> QED
  BY <1>3, <1>4

\* Nothing else the hub, the pumps or a peer do changes what RoomFeed sees.
LEMMA OtherStutters ==
  ASSUME FeedInv, NEW c \in Clients, Other(c)
  PROVE  UNCHANGED Feed!vars
<1>1. \A d \in Clients : Joined(d)' = Joined(d) /\ (Joined(d) => booking'[d] = booking[d])
  <2>1. ASSUME NEW b \in Bookings, Connect(c, b)
        PROVE  \A d \in Clients : Joined(d)' = Joined(d) /\ (Joined(d) => booking'[d] = booking[d])
    BY <2>1 DEF Connect, Joined, FeedInv, HubInv, TypeOK
  <2>2. ASSUME StartPumps(c)
        PROVE  \A d \in Clients : Joined(d)' = Joined(d) /\ (Joined(d) => booking'[d] = booking[d])
    BY <2>2 DEF StartPumps, Joined, FeedInv, HubInv, TypeOK
  <2>3. CASE UNCHANGED <<handler, booking>>
    BY <2>3 DEF Joined
  <2> QED
    BY <2>1, <2>2, <2>3
       DEF Other, PeerLeaves, HubUnregister, HubSend, HubEvict, ReadFails, ReadClose, WriteTake,
           WriteSample, WriteDrain, WriteSeesClose, WritePingFails, WriteExit, clientVars
<1>2. Room' = Room
  BY <1>1 DEF Room
<1> QED
  BY <1>2 DEF Other, memory, Feed!vars, Room

\* Every step of the hub is one of RoomFeed's, or changes nothing it sees.
LEMMA StepRefines ==
  ASSUME FeedInv, FeedInv', [FeedNext]_feedVars
  PROVE  [Feed!Next]_(Feed!vars)
<1>1. ASSUME NEW m \in Message, Say(m) PROVE UNCHANGED Feed!vars
  BY <1>1 DEF Say, Broadcast, clientVars, Feed!vars, Joined
<1>2. CASE UNCHANGED feedVars
  BY <1>2 DEF feedVars, vars, clientVars, memory, Feed!vars, Joined
<1> QED
  BY <1>1, <1>2, TakePublishes, JoinJoins, FlushShows, OtherStutters DEF FeedNext

\* What clients are given is what RoomFeed promises: the messages of their
\* booking's feed from the moment they joined, each once, in order, no gaps.
THEOREM HubImplementsRoomFeed == FeedSpec => RoomFeedSpec
  BY InitRefines, StepRefines, FeedInvariant, PTL DEF FeedSpec, RoomFeedSpec, Feed!Spec
=============================================================================
