------------------------------ MODULE RoomFeed ------------------------------
(* What the hub promises a client that watches a booking: the messages of   *)
(* that booking's feed, from the moment it joined on, each once, in the     *)
(* feed's order and without a gap, until it is dropped.                     *)
EXTENDS Naturals, Sequences

CONSTANTS Clients, Bookings, Messages, None

VARIABLES
  feed,   \* the messages of a booking, in the order the hub took them
  room,   \* the booking a client watches, None before it joins
  from,   \* how many messages the feed had when the client joined
  view    \* the messages the client's peer was given

vars == <<feed, room, from, view>>

Init ==
  /\ feed = [b \in Bookings |-> <<>>]
  /\ room = [c \in Clients |-> None]
  /\ from = [c \in Clients |-> 0]
  /\ view = [c \in Clients |-> <<>>]

Publish(b, m) ==
  /\ feed' = [feed EXCEPT ![b] = Append(@, m)]
  /\ UNCHANGED <<room, from, view>>

Join(c, b) ==
  /\ room[c] = None
  /\ room' = [room EXCEPT ![c] = b]
  /\ from' = [from EXCEPT ![c] = Len(feed[b])]
  /\ UNCHANGED <<feed, view>>

\* The next messages of the feed, as far as the n-th.
Show(c, n) ==
  LET b == room[c]
  IN  /\ b # None
      /\ n <= Len(feed[b])
      /\ view' = [view EXCEPT ![c] = SubSeq(feed[b], from[c] + 1, n)]
      /\ Len(view'[c]) > Len(view[c])
      /\ UNCHANGED <<feed, room, from>>

Next ==
  \/ \E b \in Bookings, m \in Messages : Publish(b, m)
  \/ \E c \in Clients, b \in Bookings : Join(c, b)
  \/ \E c \in Clients : \E b \in Bookings : \E n \in 1..Len(feed[b]) : Show(c, n)

Spec == Init /\ [][Next]_vars
=============================================================================
