------------------------------ MODULE HubFeed ------------------------------
(***************************************************************************)
(* The hub of Hub.tla with a memory of what was said and heard, to state    *)
(* what reaches a client's peer: which messages, in which order.  The       *)
(* memory never decides a step.  Messages are numbered: the n-th message    *)
(* that is broadcast has body n.                                           *)
(***************************************************************************)
EXTENDS Hub

CONSTANT MaxSaid   \* bound: the messages that are broadcast, in all

ASSUME SaidAssumption == MaxSaid \in Nat /\ Payloads = 1..MaxSaid

VARIABLES
  said,     \* how many messages were broadcast
  feed,     \* by booking, the messages the hub took, in that order
  joined,   \* how long its booking's feed was when a client was registered
  got       \* what WritePump's flushed frames gave to the client's peer

memory   == <<said, feed, joined, got>>
feedVars == <<vars, memory>>

FeedInit ==
  /\ Init
  /\ said   = 0
  /\ feed   = [b \in Bookings |-> <<>>]
  /\ joined = [c \in Clients |-> 0]
  /\ got    = [c \in Clients |-> <<>>]

Say(m) ==
  /\ Broadcast(m)
  /\ m.body = said + 1
  /\ said' = m.body
  /\ UNCHANGED <<feed, joined, got>>

Take(k) ==
  /\ HubTake(k)
  /\ LET m == Head(channel[k])
     IN  feed' = [feed EXCEPT ![m.booking] = Append(@, m)]
  /\ UNCHANGED <<said, joined, got>>

Join(c) ==
  /\ HubRegister(c)
  /\ joined' = [joined EXCEPT ![c] = Len(feed[booking[c]])]
  /\ UNCHANGED <<said, feed, got>>

\* A frame counts when w.Close flushed it and WritePump goes on.
Flush(c) ==
  /\ WriteFlush(c)
  /\ got' = IF writer'[c] = "select" THEN [got EXCEPT ![c] = @ \o frame[c]] ELSE got
  /\ UNCHANGED <<said, feed, joined>>

Other(c) ==
  /\ \/ \E b \in Bookings : Connect(c, b)
     \/ StartPumps(c) \/ PeerLeaves(c)
     \/ HubUnregister(c) \/ HubSend(c) \/ HubEvict(c)
     \/ ReadFails(c) \/ ReadClose(c)
     \/ WriteTake(c) \/ WriteSample(c) \/ WriteDrain(c)
     \/ WriteSeesClose(c) \/ WritePingFails(c) \/ WriteExit(c)
  /\ UNCHANGED memory

FeedNext ==
  \/ \E m \in Message : Say(m)
  \/ \E k \in Kinds : Take(k)
  \/ \E c \in Clients : Join(c) \/ Flush(c) \/ Other(c)

\* Delivery needs less than the hub's Fairness: nobody has to unregister or to
\* stop reading.
Delivery ==
  /\ \A k \in Kinds : SF_vars(HubTake(k))
  /\ \A c \in Clients :
       /\ WF_vars(HubSend(c) \/ HubEvict(c))
       /\ WF_vars(StartPumps(c))
       /\ WF_vars(Write(c))

FeedSpec     == FeedInit /\ [][FeedNext]_feedVars
FairFeedSpec == FeedSpec /\ Delivery
-----------------------------------------------------------------------------
Joined(c) == handler[c] \in {"registered", "serving"}
Pumping(c) == writer[c] \notin {"exit", "done"}

\* What the hub has handed to a client: flushed, in the frame, in the queue.
Handed(c) == got[c] \o frame[c] \o send[c]

\* As long as WritePump goes on, what the hub handed to a client is a stretch
\* of its booking's feed that starts where it joined: each message once and in
\* order, whatever room it passed through and however frames were filled.
Contiguous ==
  \A c \in Clients :
    Joined(c) /\ Pumping(c) =>
      LET n == joined[c] + Len(Handed(c))
      IN  /\ n <= Len(feed[booking[c]])
          /\ Handed(c) = SubSeq(feed[booking[c]], joined[c] + 1, n)

\* And while it is not evicted, the stretch goes up to the last message, but
\* for the one the range loop is about to hand to it.
NothingMissed ==
  \A c \in Clients :
    Joined(c) /\ Pumping(c) /\ ~closed[c] =>
      Len(feed[booking[c]]) = joined[c] + Len(Handed(c)) + (IF c \in todo THEN 1 ELSE 0)

\* A client that is still served is never further behind than two full queues
\* and the messages a frame and the range loop hold.
BoundedLag ==
  \A c \in Clients :
    Joined(c) /\ Pumping(c) /\ ~closed[c] =>
      Len(feed[booking[c]]) - (joined[c] + Len(got[c])) <= 2 * SendCap + 2

\* One channel keeps the order of its broadcasts; the two of them keep none.
InOrderPerKind ==
  \A b \in Bookings : \A i, j \in 1..Len(feed[b]) :
    i < j /\ feed[b][i].kind = feed[b][j].kind => feed[b][i].body < feed[b][j].body

\* The memory has its type.
FeedTypeOK ==
  /\ said   \in Nat
  /\ feed   \in [Bookings -> Seq(Message)]
  /\ joined \in [Clients -> Nat]
  /\ got    \in [Clients -> Seq(Message)]

\* Nothing is handed to a client before it is registered.
NothingEarly ==
  \A c \in Clients : ~Joined(c) => got[c] = <<>> /\ frame[c] = <<>> /\ send[c] = <<>>

\* A frame is open while WritePump fills it, and holds no more than the
\* message it was opened for and the queue it then saw.
FrameBounded ==
  \A c \in Clients :
    /\ frame[c] # <<>> <=> writer[c] \in {"sample", "drain"}
    /\ writer[c] = "sample" => Len(frame[c]) = 1
    /\ writer[c] = "drain" => Len(frame[c]) + drain[c] <= SendCap + 1

\* What the range loop hands out is the last message of its booking's feed.
LoopSendsLast ==
  outgoing # None =>
    LET f == feed[outgoing.booking]
    IN  Len(f) > 0 /\ f[Len(f)] = outgoing

\* What waits in a channel is of its kind, in the order it was broadcast, and
\* was broadcast after everything of that kind in the feeds.
ChannelsInOrder ==
  \A k \in Kinds :
    /\ \A i \in 1..Len(channel[k]) : channel[k][i].kind = k /\ channel[k][i].body <= said
    /\ \A i, j \in 1..Len(channel[k]) : i < j => channel[k][i].body < channel[k][j].body
    /\ \A b \in Bookings : \A i \in 1..Len(feed[b]) : \A j \in 1..Len(channel[k]) :
         feed[b][i].kind = k => feed[b][i].body < channel[k][j].body

\* Nothing is in a feed that was not said.
FeedsWereSaid ==
  \A b \in Bookings : \A i \in 1..Len(feed[b]) : feed[b][i].body <= said

\* The invariant of the streams from the broadcasters to the peers, which is
\* inductive.
FeedInv ==
  /\ HubInv
  /\ FeedTypeOK
  /\ NothingEarly
  /\ FrameBounded
  /\ LoopSendsLast
  /\ ChannelsInOrder
  /\ FeedsWereSaid
  /\ Contiguous
  /\ NothingMissed
  /\ InOrderPerKind

\* A client always catches up with its booking's feed, so it is shown, in the
\* end, every message that the hub took after it joined, unless the client is
\* closed or its connection ends.
Delivered ==
  \A c \in Clients :
    Joined(c) ~> \/ Joined(c) /\ joined[c] + Len(got[c]) = Len(feed[booking[c]])
                 \/ closed[c] \/ conn[c] # "open"

\* What peers are given is what RoomFeed promises.
Feed == INSTANCE RoomFeed WITH
  Messages <- Message,
  room     <- [c \in Clients |-> IF Joined(c) THEN booking[c] ELSE None],
  from     <- joined,
  view     <- got
RoomFeedSpec == Feed!Spec
=============================================================================
