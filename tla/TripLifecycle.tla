--------------------------- MODULE TripLifecycle ---------------------------
(* What the tracking of a booking promises: a trip starts once, gathers     *)
(* points, and is completed once, for good, with a distance measured on     *)
(* points it had gathered.  What the service announces is true of the trip  *)
(* and is announced once.  Distances are as in Tracking.                    *)
EXTENDS Naturals, Sequences, FiniteSets

CONSTANTS Bookings, Points

Distances == {d \in SUBSET Points : Cardinality(d) # 1}

VARIABLES
  trip,       \* "none", "active", "completed"
  dist,       \* the distance of a trip: the points it was measured on
  route,      \* the points gathered
  started,    \* how often its start was announced
  completed   \* the distances its completion was announced with

seen == <<trip, dist, route>>  \* what a reader of the tables can see
vars == <<trip, dist, route, started, completed>>

Init ==
  /\ trip      = [b \in Bookings |-> "none"]
  /\ dist      = [b \in Bookings |-> {}]
  /\ route     = [b \in Bookings |-> {}]
  /\ started   = [b \in Bookings |-> 0]
  /\ completed = [b \in Bookings |-> <<>>]

Start(b) ==
  /\ trip[b] = "none"
  /\ trip' = [trip EXCEPT ![b] = "active"]
  /\ UNCHANGED <<dist, route, started, completed>>

Gather(b, p) ==
  /\ trip[b] # "none"
  /\ route' = [route EXCEPT ![b] = @ \cup {p}]
  /\ UNCHANGED <<trip, dist, started, completed>>

Complete(b, d) ==
  /\ trip[b] = "active"
  /\ d \subseteq route[b]
  /\ trip' = [trip EXCEPT ![b] = "completed"]
  /\ dist' = [dist EXCEPT ![b] = d]
  /\ UNCHANGED <<route, started, completed>>

\* Not a step of a single process: the second of two handlers of the same
\* confirmation overwrites the distance.
Recomplete(b, d) ==
  /\ trip[b] = "completed"
  /\ d \subseteq route[b]
  /\ dist' = [dist EXCEPT ![b] = d]
  /\ UNCHANGED <<trip, route, started, completed>>

AnnounceStart(b) ==
  /\ trip[b] # "none"
  /\ started[b] = 0
  /\ started' = [started EXCEPT ![b] = 1]
  /\ UNCHANGED <<trip, dist, route, completed>>

AnnounceCompletion(b) ==
  /\ trip[b] = "completed"
  /\ completed[b] = <<>>
  /\ completed' = [completed EXCEPT ![b] = <<dist[b]>>]
  /\ UNCHANGED <<trip, dist, route, started>>

Next ==
  \E b \in Bookings :
    \/ Start(b) \/ AnnounceStart(b) \/ AnnounceCompletion(b)
    \/ \E p \in Points : Gather(b, p)
    \/ \E d \in Distances : Complete(b, d)

Spec == Init /\ [][Next]_vars

\* What a reader can see of a trip, with any number of processes.
TripNext ==
  \E b \in Bookings :
    \/ Start(b)
    \/ \E p \in Points : Gather(b, p)
    \/ \E d \in Distances : Complete(b, d) \/ Recomplete(b, d)

TripSpec == Init /\ [][TripNext]_seen
=============================================================================
