--------------------------- MODULE TrackingProofs ---------------------------
(* Proofs that the tracks are right for any processes, bookings, runners     *)
(* and locations, however often calls fail and processes crash.             *)
EXTENDS TrackingInvariants, SequenceLemmas, FiniteSetTheorems

\* The fields of an event, and what its type says.
LEMMA EventKinds ==
  ASSUME NEW e \in Event
  PROVE  /\ e.type = "accepted"  <=> e \in Accepted
         /\ e.type = "confirmed" <=> e \in Confirmed
         /\ e.type = "location"  <=> e \in Location
         /\ e.type = "unknown"   <=> e \in Unknown
         /\ e \in Accepted \cup Confirmed => e.booking \in Bookings
         /\ e \in Location => e.runner \in Runners /\ e.point \in Points /\ e.grade \in Grades
         /\ e \in Unknown => e.is \in {"ignored", "malformed"} /\ e.topic \in Topics
<1>1. \A x \in Accepted : x.type = "accepted" /\ x.booking \in Bookings
  BY DEF Accepted
<1>2. \A x \in Confirmed : x.type = "confirmed" /\ x.booking \in Bookings
  BY DEF Confirmed
<1>3. \A x \in Location : /\ x.type = "location" /\ x.runner \in Runners /\ x.point \in Points
                          /\ x.grade \in Grades
  BY DEF Location
<1>4. \A x \in Unknown : /\ x.type = "unknown" /\ x.is \in {"ignored", "malformed"}
                         /\ x.topic \in Topics
  BY DEF Unknown
<1> QED
  BY <1>1, <1>2, <1>3, <1>4 DEF Event

\* A handler that is at a step has an event of the type the step is for.
LEMMA HandledEvent ==
  ASSUME TrackInv, NEW w \in Workers, NEW type, NEW s, s \notin {"idle", "stopped"},
         Handles(w, type, s)
  PROVE  /\ at[w] = s /\ event[w] # None /\ event[w] \in Event
         /\ type = "accepted"  => event[w] \in Accepted  /\ event[w].booking \in Bookings
         /\ type = "confirmed" => event[w] \in Confirmed /\ event[w].booking \in Bookings
         /\ type = "location"  => /\ event[w] \in Location /\ event[w].runner \in Runners
                                  /\ event[w].point \in Points
         /\ type = "unknown"   => event[w] \in Unknown
<1>1. at[w] = s /\ event[w] # None /\ event[w].type = type
  BY DEF Handles, TrackInv, StepsFit
<1>2. event[w] \in Event
  BY <1>1 DEF TrackInv, TypeOK
<1> QED
  BY <1>1, <1>2, EventKinds

\* The kinds of events exclude each other.
LEMMA KindsDisjoint ==
  /\ Accepted \cap Confirmed = {} /\ Accepted \cap Location = {} /\ Accepted \cap Unknown = {}
  /\ Confirmed \cap Location = {} /\ Confirmed \cap Unknown = {} /\ Location \cap Unknown = {}
  /\ None \notin Accepted \cup Confirmed \cup Location \cup Unknown
<1>1. \A e \in Event : e # None
  BY NoneAssumption
<1> QED
  BY <1>1, EventKinds DEF Event

\* n is s, if e is not in it, or s without e at one place.
Drops(n, s, e) ==
  \/ n = s /\ \A i \in 1..Len(s) : s[i] # e
  \/ \E k \in 1..Len(s) :
       /\ s[k] = e
       /\ Len(n) = Len(s) - 1
       /\ \A i \in 1..(Len(s) - 1) : n[i] = IF i < k THEN s[i] ELSE s[i + 1]

\* Committing an event takes it out of its topic, and moves no other past
\* another.
LEMMA WithoutIs ==
  ASSUME NEW S, NEW s \in Seq(S), NEW e
  PROVE  Without(s, e) \in Seq(S) /\ Drops(Without(s, e), s, e)
<1>1. CASE \A i \in 1..Len(s) : s[i] # e
  BY <1>1 DEF Without, Drops
<1>2. CASE \E i \in 1..Len(s) : s[i] = e
  <2> DEFINE k == CHOOSE i \in 1..Len(s) : s[i] = e
             p == SubSeq(s, 1, k - 1)
             q == SubSeq(s, k + 1, Len(s))
  <2>1. k \in 1..Len(s) /\ s[k] = e
    BY <1>2
  <2>2. Without(s, e) = p \o q
    BY <1>2 DEF Without
  <2> HIDE DEF k
  <2>3. p \in Seq(S) /\ Len(p) = k - 1 /\ \A i \in 1..(k - 1) : p[i] = s[i]
    BY <2>1
  <2>4. q \in Seq(S) /\ Len(q) = Len(s) - k /\ \A i \in 1..(Len(s) - k) : q[i] = s[k + i]
    BY <2>1
  <2> HIDE DEF p, q
  <2>5. /\ p \o q \in Seq(S) /\ Len(p \o q) = Len(s) - 1
    <3> DEFINE o == p \o q
    <3>1. o \in Seq(S) /\ Len(o) = Len(p) + Len(q)
      <4>1. p \in Seq(S) /\ q \in Seq(S)
        BY <2>3, <2>4
      <4> QED
        BY <4>1
    <3>2. Len(s) \in Nat /\ k \in Nat
      BY <2>1
    <3> HIDE DEF o
    <3>3. Len(o) = Len(s) - 1
      BY <2>3, <2>4, <3>1, <3>2
    <3> QED
      BY <3>1, <3>3 DEF o
  <2>6. ASSUME NEW i \in 1..(Len(s) - 1)
        PROVE  (p \o q)[i] = IF i < k THEN s[i] ELSE s[i + 1]
    <3>1. CASE i < k
      BY <2>1, <2>3, <2>4, <3>1
    <3>2. CASE i >= k
      <4>1. (p \o q)[i] = q[i - (k - 1)]
        BY <2>1, <2>3, <2>4, <3>2
      <4>2. i - (k - 1) \in 1..(Len(s) - k) /\ k + (i - (k - 1)) = i + 1
        BY <2>1, <3>2
      <4> QED
        BY <2>1, <2>4, <3>2, <4>1, <4>2
    <3>3. i \in Int /\ k \in Int
      BY <2>1
    <3>4. i < k \/ i >= k
      BY <3>3
    <3> QED
      BY <3>1, <3>2, <3>4
  <2> QED
    BY <2>1, <2>2, <2>5, <2>6 DEF Drops
<1> QED
  BY <1>1, <1>2

\* The kinds of events a topic holds.
Kinds(t) == IF t = "runner" THEN Location \cup Unknown ELSE Accepted \cup Confirmed \cup Unknown

\* Some other service publishes an event.
Publishes ==
  \/ \E b \in Bookings : SendAccepted(b) \/ SendConfirmed(b)
  \/ \E r \in Runners, g \in Grades : SendLocation(r, g)
  \/ \E e \in Unknowns : SendUnknown(e)

\* What is published is an event of its topic's kinds.
LEMMA PublishedEvent ==
  ASSUME TrackInv, Publishes
  PROVE  \E t \in Topics : \E e \in Kinds(t) : Send(t, e)
<1>1. ASSUME NEW b \in Bookings, SendAccepted(b) \/ SendConfirmed(b)
      PROVE  \E t \in Topics : \E e \in Kinds(t) : Send(t, e)
  <2>1. /\ "booking" \in Topics
        /\ [type |-> "accepted", booking |-> b] \in Kinds("booking")
        /\ [type |-> "confirmed", booking |-> b] \in Kinds("booking")
    BY DEF Topics, Kinds, Accepted, Confirmed
  <2> QED
    BY <1>1, <2>1 DEF SendAccepted, SendConfirmed, AcceptedOf, ConfirmedOf
<1>2. ASSUME NEW r \in Runners, NEW g \in Grades, SendLocation(r, g)
      PROVE  \E t \in Topics : \E e \in Kinds(t) : Send(t, e)
  <2> DEFINE n == Cardinality(sent \cap Location)
             e == [type |-> "location", runner |-> r, point |-> n + 1, grade |-> g]
  <2>1. n \in Nat
    <3>1. IsFiniteSet(sent \cap Location)
      BY FS_Subset DEF TrackInv, TopicsFit
    <3> QED
      BY <3>1, FS_CardinalityType
  <2>2. n + 1 \in Points
    BY <1>2, <2>1, BoundAssumption DEF SendLocation, Points
  <2>3. e \in Kinds("runner") /\ "runner" \in Topics
    BY <2>2 DEF Location, Kinds, Topics
  <2>4. Send("runner", e)
    BY <1>2 DEF SendLocation
  <2> QED
    BY <2>3, <2>4
<1>3. ASSUME NEW e \in Unknowns, SendUnknown(e)
      PROVE  \E t \in Topics : e \in Kinds(t) /\ Send(t, e)
  <2>1. e \in Unknown /\ e.topic \in Topics
    BY UnknownsAssumption, EventKinds DEF Event
  <2> QED
    BY <1>3, <2>1 DEF SendUnknown, Kinds
<1> QED
  BY <1>1, <1>2, <1>3 DEF Publishes

\* The events of a topic are events.
LEMMA KindsAreEvents == \A t \in Topics : Kinds(t) \subseteq Event
  BY DEF Kinds, Event

\* The rows a handler makes have the type of rows.
LEMMA NewTrackTyped ==
  ASSUME NEW b \in Bookings, NEW i \in Ids
  PROVE  /\ NewTripTrack(b, i) \in TripTrack
         /\ NewTripTrack(b, i).id = i /\ NewTripTrack(b, i).booking = b
         /\ NewTripTrack(b, i).runner = RunnerOf[b] /\ NewTripTrack(b, i).status = "active"
         /\ NewTripTrack(b, i).dist = {}
  BY RunnerAssumption, FS_EmptySet DEF NewTripTrack, TripTrack, Statuses, Distances

\* A completed row is the same trip's row, with the distance that was measured.
LEMMA CompleteTyped ==
  ASSUME NEW r \in TripTrack, NEW d \in Distances
  PROVE  /\ Complete(r, d) \in TripTrack
         /\ IsCopy(Complete(r, d), r)
         /\ Complete(r, d).status = "completed" /\ Complete(r, d).dist = d
  BY DEF Complete, TripTrack, Statuses, IsCopy

\* A distance is measured on points.
LEMMA DistanceTyped ==
  ASSUME TypeOK, NEW i \in Ids
  PROVE  /\ PointsOf(i) \subseteq Points
         /\ Distance(PointsOf(i)) \subseteq PointsOf(i)
         /\ Distance(PointsOf(i)) \in Distances
         /\ Distance({}) = {} /\ {} \in Distances
<1>1. waypoints[i] \in Seq(Points)
  BY DEF TypeOK
<1>2. PointsOf(i) \subseteq Points
  BY <1>1 DEF PointsOf
<1>3. {} \in Distances
  BY FS_EmptySet DEF Distances
<1>4. Distance(PointsOf(i)) \in Distances
  BY <1>2, <1>3 DEF Distance, Distances
<1> QED
  BY <1>2, <1>3, <1>4 DEF Distance

\* What a handler holds at its later steps is a copy of a row.
LEMMA HeldCopy ==
  ASSUME TrackInv, NEW w \in Workers,
         \/ at[w] \in {"add", "broadcast", "measure", "update"}
         \/ at[w] = "publish" /\ event[w] \notin Location
  PROVE  /\ track[w] \in TripTrack /\ track[w].id \in Ids /\ track[w].booking \in Bookings
         /\ \E r \in tracks : IsCopy(track[w], r)
         /\ event[w] \in Accepted \cup Confirmed => track[w].booking = event[w].booking
  BY DEF TrackInv, CopiesFit, TripTrack

\* A call counts as a fault or not, and faults have a bound.
LEMMA FaultsTyped ==
  ASSUME faults \in 0..MaxFaults, Succeeds \/ Fails
  PROVE  faults' \in 0..MaxFaults
  BY BoundAssumption DEF Succeeds, Fails

\* Where a handler goes is a state of a worker.
LEMMA GotoTyped ==
  ASSUME at \in [Workers -> States], NEW w \in Workers, NEW s \in States, Goto(w, s)
  PROVE  at' \in [Workers -> States]
  BY DEF Goto

\* Every variable keeps its type.
LEMMA TrackTypeStep ==
  ASSUME TrackInv, [Next]_vars
  PROVE  TypeOK'
<1> USE DEF TypeOK
<1>0. TypeOK
  BY DEF TrackInv
<1>1. ASSUME Publishes PROVE TypeOK'
  <2>1. PICK t \in Topics, e \in Event : Send(t, e)
    BY <1>1, PublishedEvent, KindsAreEvents
  <2>2. Append(topic[t], e) \in Seq(Event)
    BY <1>0
  <2> QED
    BY <1>0, <2>1, <2>2 DEF Send, database, world
<1>2. ASSUME NEW w \in Workers, NEW e \in sent, Take(w, e) PROVE TypeOK'
  BY <1>0, <1>2 DEF Take, States, database, world
<1>3. ASSUME NEW w \in Workers, Return(w) PROVE TypeOK'
  <2>1. topic' \in [Topics -> Seq(Event)]
    <3>1. Without(topic[w[2]], event[w]) \in Seq(Event)
      BY <1>0, WithoutIs DEF Workers
    <3> QED
      BY <1>0, <1>3, <3>1 DEF Return, Commit
  <2> QED
    BY <1>0, <1>3, <2>1 DEF Return, Goto, Hold, States, database, world
<1>4. ASSUME NEW p \in Processes, Crash(p) PROVE TypeOK'
  BY <1>0, <1>4, BoundAssumption DEF Crash, States, database, world
<1>5. ASSUME NEW w \in Workers, Ignore(w) PROVE TypeOK'
  BY <1>0, <1>5 DEF Ignore, Goto, States, database, world
<1>6. ASSUME NEW w \in Workers, AcceptedFind(w) PROVE TypeOK'
  <2>1. Goto(w, "save") \/ Goto(w, "returned")
    BY <1>6 DEF AcceptedFind
  <2>2. Succeeds \/ Fails
    BY <1>6 DEF AcceptedFind
  <2>3. at' \in [Workers -> States] /\ faults' \in 0..MaxFaults
    BY <1>0, <2>1, <2>2, GotoTyped, FaultsTyped DEF States
  <2> QED
    BY <1>0, <1>6, <2>3 DEF AcceptedFind, database, world
<1>7. ASSUME NEW w \in Workers, AcceptedSave(w) PROVE TypeOK'
  <2>1. event[w].booking \in Bookings
    BY <1>7, HandledEvent DEF AcceptedSave
  <2>2. tracks' \subseteq TripTrack
    BY <1>0, <1>7, <2>1, NewTrackTyped DEF AcceptedSave
  <2>3. track' \in [Workers -> TripTrack \cup {None}]
    <3>1. \/ UNCHANGED track
          \/ \E i \in Ids : Hold(w, NewTripTrack(event[w].booking, i))
      BY <1>7 DEF AcceptedSave
    <3>2. CASE UNCHANGED track
      BY <1>0, <3>2
    <3>3. ASSUME NEW i \in Ids, Hold(w, NewTripTrack(event[w].booking, i))
          PROVE  track' \in [Workers -> TripTrack \cup {None}]
      BY <1>0, <2>1, <3>3, NewTrackTyped DEF Hold
    <3> QED
      BY <3>1, <3>2, <3>3
  <2>4. at' \in [Workers -> States] /\ faults' \in 0..MaxFaults
    <3>1. Goto(w, "publish") \/ Goto(w, "failed")
      BY <1>7 DEF AcceptedSave
    <3>2. Succeeds \/ Fails
      BY <1>7 DEF AcceptedSave
    <3> QED
      BY <1>0, <3>1, <3>2, GotoTyped, FaultsTyped DEF States
  <2> QED
    BY <1>0, <1>7, <2>2, <2>3, <2>4 DEF AcceptedSave, world
<1>8. ASSUME NEW w \in Workers, AcceptedPublish(w) PROVE TypeOK'
  <2>1. started' \in [Bookings -> Nat]
    <3>1. track[w].booking \in Bookings
      BY <1>8, HandledEvent, HeldCopy, KindsDisjoint DEF AcceptedPublish
    <3>2. started[track[w].booking] + 1 \in Nat
      BY <1>0, <3>1
    <3> QED
      BY <1>0, <1>8, <3>1, <3>2 DEF AcceptedPublish
  <2>2. at' \in [Workers -> States] /\ faults' \in 0..MaxFaults
    <3>1. Goto(w, "returned") /\ (Succeeds \/ Fails)
      BY <1>8 DEF AcceptedPublish
    <3> QED
      BY <1>0, <3>1, GotoTyped, FaultsTyped DEF States
  <2> QED
    BY <1>0, <1>8, <2>1, <2>2 DEF AcceptedPublish, database
<1>9. ASSUME NEW w \in Workers, LocationFind(w) PROVE TypeOK'
  <2>1. track' \in [Workers -> TripTrack \cup {None}]
    BY <1>0, <1>9 DEF LocationFind, Hold, FirstActive, ActiveOf
  <2>2. at' \in [Workers -> States] /\ faults' \in 0..MaxFaults
    <3>1. Goto(w, "returned") \/ Goto(w, "add")
      BY <1>9 DEF LocationFind
    <3>2. Succeeds \/ Fails
      BY <1>9 DEF LocationFind
    <3> QED
      BY <1>0, <3>1, <3>2, GotoTyped, FaultsTyped DEF States
  <2> QED
    BY <1>0, <1>9, <2>1, <2>2 DEF LocationFind, database, world
<1>10. ASSUME NEW w \in Workers, LocationAdd(w) PROVE TypeOK'
  <2>1. waypoints' \in [Ids -> Seq(Points)]
    <3>1. event[w].point \in Points /\ track[w].id \in Ids
      BY <1>10, HandledEvent, HeldCopy DEF LocationAdd
    <3>2. Append(waypoints[track[w].id], event[w].point) \in Seq(Points)
      BY <1>0, <3>1
    <3> QED
      BY <1>0, <1>10, <3>1, <3>2 DEF LocationAdd, AddWaypoint
  <2>2. at' \in [Workers -> States] /\ faults' \in 0..MaxFaults
    <3>1. Goto(w, "broadcast") \/ Goto(w, "failed")
      BY <1>10 DEF LocationAdd
    <3>2. Succeeds \/ Fails
      BY <1>10 DEF LocationAdd
    <3> QED
      BY <1>0, <3>1, <3>2, GotoTyped, FaultsTyped DEF States
  <2> QED
    BY <1>0, <1>10, <2>1, <2>2 DEF LocationAdd, world
<1>11. ASSUME NEW w \in Workers, LocationBroadcast(w) PROVE TypeOK'
  <2>1. event[w].point \in Points /\ track[w].booking \in Bookings /\ w[1] \in Processes
    BY <1>11, HandledEvent, HeldCopy DEF LocationBroadcast, Workers
  <2>2. shown[w[1]] \in [Bookings -> Seq(Points)]
    BY <1>0, <2>1
  <2>3. Append(shown[w[1]][track[w].booking], event[w].point) \in Seq(Points)
    BY <2>1, <2>2
  <2>4. shown' \in [Processes -> [Bookings -> Seq(Points)]]
    BY <1>0, <1>11, <2>1, <2>2, <2>3 DEF LocationBroadcast
  <2> QED
    BY <1>0, <1>11, <2>4 DEF LocationBroadcast, Goto, States, database
<1>12. ASSUME NEW w \in Workers, LocationPublish(w) PROVE TypeOK'
  BY <1>0, <1>12 DEF LocationPublish, Goto, States, database, world
<1>13. ASSUME NEW w \in Workers, ConfirmedFind(w) PROVE TypeOK'
  <2>1. track' \in [Workers -> TripTrack \cup {None}]
    BY <1>0, <1>13 DEF ConfirmedFind, Hold, TracksOf
  <2>2. at' \in [Workers -> States] /\ faults' \in 0..MaxFaults
    <3>1. Goto(w, "failed") \/ Goto(w, "measure") \/ Goto(w, "returned")
      BY <1>13 DEF ConfirmedFind
    <3>2. Succeeds \/ Fails
      BY <1>13 DEF ConfirmedFind
    <3> QED
      BY <1>0, <3>1, <3>2, GotoTyped, FaultsTyped DEF States
  <2> QED
    BY <1>0, <1>13, <2>1, <2>2 DEF ConfirmedFind, database, world
<1>14. ASSUME NEW w \in Workers, ConfirmedMeasure(w) PROVE TypeOK'
  <2>1. track[w] \in TripTrack /\ track[w].id \in Ids
    BY <1>14, HandledEvent, HeldCopy DEF ConfirmedMeasure
  <2>2. /\ Complete(track[w], Distance(PointsOf(track[w].id))) \in TripTrack
        /\ Complete(track[w], Distance({})) \in TripTrack
    <3>1. Distance(PointsOf(track[w].id)) \in Distances /\ Distance({}) \in Distances
      BY <1>0, <2>1, DistanceTyped
    <3> QED
      BY <2>1, <3>1, CompleteTyped
  <2>3. track' \in [Workers -> TripTrack \cup {None}]
    BY <1>0, <1>14, <2>2 DEF ConfirmedMeasure, TryComplete, Hold
  <2>4. at' \in [Workers -> States] /\ faults' \in 0..MaxFaults
    <3>1. Goto(w, "update") \/ Goto(w, "failed")
      BY <1>14 DEF ConfirmedMeasure, TryComplete
    <3>2. Succeeds \/ Fails
      BY <1>14 DEF ConfirmedMeasure
    <3> QED
      BY <1>0, <3>1, <3>2, GotoTyped, FaultsTyped DEF States
  <2> QED
    BY <1>0, <1>14, <2>3, <2>4 DEF ConfirmedMeasure, database, world
<1>15. ASSUME NEW w \in Workers, ConfirmedUpdate(w) PROVE TypeOK'
  <2>1. track[w] \in TripTrack /\ track[w].id \in Ids
    BY <1>15, HandledEvent, HeldCopy DEF ConfirmedUpdate
  <2>2. tracks' \subseteq TripTrack /\ onTime' \in [Ids -> Nat]
    <3>1. waypoints[track[w].id] \in Seq(Points)
      BY <1>0, <2>1
    <3>2. Len(waypoints[track[w].id]) \in Nat
      BY <3>1
    <3> QED
      BY <1>0, <1>15, <2>1, <3>2 DEF ConfirmedUpdate, Overwrite
  <2>3. at' \in [Workers -> States] /\ faults' \in 0..MaxFaults
    <3>1. Goto(w, "publish") \/ Goto(w, "failed")
      BY <1>15 DEF ConfirmedUpdate
    <3>2. Succeeds \/ Fails
      BY <1>15 DEF ConfirmedUpdate
    <3> QED
      BY <1>0, <3>1, <3>2, GotoTyped, FaultsTyped DEF States
  <2> QED
    BY <1>0, <1>15, <2>2, <2>3 DEF ConfirmedUpdate, world
<1>16. ASSUME NEW w \in Workers, ConfirmedPublish(w) PROVE TypeOK'
  <2>1. track[w].dist \in Distances /\ track[w].booking \in Bookings
    BY <1>16, HandledEvent, HeldCopy, KindsDisjoint DEF ConfirmedPublish, TripTrack
  <2>2. Append(completed[track[w].booking], track[w].dist) \in Seq(Distances)
    BY <1>0, <2>1
  <2>3. completed' \in [Bookings -> Seq(Distances)]
    BY <1>0, <1>16, <2>1, <2>2 DEF ConfirmedPublish
  <2>4. at' \in [Workers -> States] /\ faults' \in 0..MaxFaults
    BY <1>0, <1>16, BoundAssumption DEF ConfirmedPublish, Goto, States, Succeeds, Fails
  <2> QED
    BY <1>0, <1>16, <2>3, <2>4 DEF ConfirmedPublish, database
<1>17. CASE UNCHANGED vars
  BY <1>0, <1>17 DEF vars, database, world
<1> QED
  BY <1>1, <1>2, <1>3, <1>4, <1>5, <1>6, <1>7, <1>8, <1>9, <1>10, <1>11, <1>12, <1>13, <1>14,
     <1>15, <1>16, <1>17 DEF Next, Handle, Publishes

-----------------------------------------------------------------------------
(* The base invariant: topics, handlers, tables.                           *)

\* A handler does its next call, or is back early; Handle without Return.
Works(w) ==
  \/ AcceptedFind(w)  \/ AcceptedSave(w) \/ AcceptedPublish(w)
  \/ LocationFind(w)  \/ LocationAdd(w)  \/ LocationBroadcast(w) \/ LocationPublish(w)
  \/ ConfirmedFind(w) \/ ConfirmedMeasure(w)
  \/ ConfirmedUpdate(w) \/ ConfirmedPublish(w)
  \/ Ignore(w)

\* What a step is.
LEMMA StepIs ==
  ASSUME [Next]_vars
  PROVE  \/ Publishes
         \/ \E w \in Workers : \E e \in sent : Take(w, e)
         \/ \E w \in Workers : Works(w) \/ Return(w)
         \/ \E p \in Processes : Crash(p)
         \/ UNCHANGED vars
  BY DEF Next, Publishes, Handle, Works

\* A call leaves the topics, and all the other handlers, alone.
LEMMA WorkLeaves ==
  ASSUME TypeOK, NEW w \in Workers, Works(w)
  PROVE  /\ UNCHANGED <<sent, topic, event>>
         /\ \A v \in Workers \ {w} : at'[v] = at[v] /\ track'[v] = track[v]
<1>1. UNCHANGED <<sent, topic, event>>
  BY DEF Works, AcceptedFind, AcceptedSave, AcceptedPublish, LocationFind, LocationAdd,
         LocationBroadcast, LocationPublish, ConfirmedFind, ConfirmedMeasure, ConfirmedUpdate,
         ConfirmedPublish, Ignore
<1>2. \E s : Goto(w, s)
  <2>1. CASE AcceptedFind(w) \/ AcceptedSave(w) \/ AcceptedPublish(w) \/ Ignore(w)
    BY <2>1 DEF AcceptedFind, AcceptedSave, AcceptedPublish, Ignore
  <2>2. CASE LocationFind(w) \/ LocationAdd(w) \/ LocationBroadcast(w) \/ LocationPublish(w)
    BY <2>2 DEF LocationFind, LocationAdd, LocationBroadcast, LocationPublish
  <2>3. CASE ConfirmedFind(w) \/ ConfirmedUpdate(w) \/ ConfirmedPublish(w)
    BY <2>3 DEF ConfirmedFind, ConfirmedUpdate, ConfirmedPublish
  <2>4. CASE ConfirmedMeasure(w)
    BY <2>4 DEF ConfirmedMeasure, TryComplete
  <2> QED
    BY <2>1, <2>2, <2>3, <2>4 DEF Works
<1>3. UNCHANGED track \/ \E r : Hold(w, r)
  <2>1. CASE AcceptedFind(w) \/ AcceptedSave(w) \/ AcceptedPublish(w) \/ Ignore(w)
    BY <2>1 DEF AcceptedFind, AcceptedSave, AcceptedPublish, Ignore
  <2>2. CASE LocationFind(w) \/ LocationAdd(w) \/ LocationBroadcast(w) \/ LocationPublish(w)
    BY <2>2 DEF LocationFind, LocationAdd, LocationBroadcast, LocationPublish
  <2>3. CASE ConfirmedFind(w) \/ ConfirmedUpdate(w) \/ ConfirmedPublish(w)
    BY <2>3 DEF ConfirmedFind, ConfirmedUpdate, ConfirmedPublish
  <2>4. CASE ConfirmedMeasure(w)
    BY <2>4 DEF ConfirmedMeasure, TryComplete
  <2> QED
    BY <2>1, <2>2, <2>3, <2>4 DEF Works
<1>4. \A v \in Workers \ {w} : at'[v] = at[v]
  BY <1>2 DEF TypeOK, Goto
<1>5. \A v \in Workers \ {w} : track'[v] = track[v]
  BY <1>3 DEF TypeOK, Hold
<1> QED
  BY <1>1, <1>4, <1>5

\* The topics fit after every step.
LEMMA TopicsStep ==
  ASSUME TrackInv, [Next]_vars
  PROVE  TopicsFit'
<1>0. TypeOK /\ TopicsFit
  BY DEF TrackInv
<1>1. ASSUME NEW t \in Topics, NEW e \in Kinds(t), Send(t, e) PROVE TopicsFit'
  <2>1. /\ e \notin sent /\ sent' = sent \cup {e}
        /\ topic' = [topic EXCEPT ![t] = Append(@, e)]
    BY <1>1 DEF Send
  <2>2. topic[t] \in Seq(Event) /\ e \in Event
    BY <1>0, KindsAreEvents DEF TypeOK
  <2>3. IsFiniteSet(sent')
    BY <1>0, <2>1, FS_AddElement DEF TopicsFit
  <2>4. /\ topic'[t] = Append(topic[t], e)
        /\ \A s \in Topics \ {t} : topic'[s] = topic[s]
    BY <1>0, <2>1 DEF TypeOK
  <2>5. /\ Len(topic'[t]) = Len(topic[t]) + 1 /\ topic'[t][Len(topic[t]) + 1] = e
        /\ \A i \in 1..Len(topic[t]) : topic'[t][i] = topic[t][i]
    BY <2>2, <2>4
  <2>6. ASSUME NEW i \in 1..Len(topic'[t])
        PROVE  /\ i \in 1..Len(topic[t]) \/ (i = Len(topic[t]) + 1 /\ topic'[t][i] = e)
               /\ topic'[t][i] \in sent' /\ topic'[t][i] \in Kinds(t)
    <3>1. i \in 1..Len(topic[t]) \/ (i = Len(topic[t]) + 1 /\ topic'[t][i] = e)
      BY <2>2, <2>5
    <3> QED
      BY <1>0, <2>1, <2>5, <3>1 DEF TopicsFit, Kinds
  <2>7. ASSUME NEW i \in 1..Len(topic'[t]), NEW j \in 1..Len(topic'[t]), topic'[t][i] = topic'[t][j]
        PROVE  i = j
    <3>1. \A k \in 1..Len(topic[t]) : topic'[t][k] = topic[t][k] /\ topic'[t][k] # e
      BY <1>0, <2>1, <2>5 DEF TopicsFit
    <3>2. i \in 1..Len(topic[t]) <=> j \in 1..Len(topic[t])
      BY <2>6, <2>7, <3>1
    <3>3. CASE i \in 1..Len(topic[t])
      BY <1>0, <2>7, <3>1, <3>2, <3>3 DEF TopicsFit
    <3>4. CASE i \notin 1..Len(topic[t])
      BY <2>6, <3>2, <3>4
    <3> QED
      BY <3>3, <3>4
  <2>8. ASSUME NEW s \in Topics, s # t
        PROVE  /\ topic'[s] = topic[s]
               /\ \A i \in 1..Len(topic[s]) : topic[s][i] \in sent' /\ topic[s][i] \in Kinds(s)
               /\ \A i, j \in 1..Len(topic[s]) : topic[s][i] = topic[s][j] => i = j
    BY <1>0, <2>1, <2>4, <2>8 DEF TopicsFit, Kinds
  <2> QED
    BY <2>3, <2>6, <2>7, <2>8 DEF TopicsFit, Kinds
<1>2. ASSUME NEW w \in Workers, Commit(w), UNCHANGED sent PROVE TopicsFit'
  <2> DEFINE t == w[2]
             old == topic[t]
             new == Without(old, event[w])
  <2>1. t \in Topics /\ old \in Seq(Event)
    BY <1>0 DEF Workers, TypeOK
  <2>2. topic'[t] = new /\ \A s \in Topics \ {t} : topic'[s] = topic[s]
    BY <1>0, <1>2, <2>1 DEF Commit, TypeOK
  <2>3. new \in Seq(Event) /\ Drops(new, old, event[w])
    BY <2>1, WithoutIs
  <2>4. /\ \A i, j \in 1..Len(old) : old[i] = old[j] => i = j
        /\ \A i \in 1..Len(old) : old[i] \in sent /\ old[i] \in Kinds(t)
    BY <1>0, <2>1 DEF TopicsFit, Kinds
  <2>5. Len(old) \in Nat
    BY <2>1
  <2> HIDE DEF old, new, t
  <2>6. /\ \A i, j \in 1..Len(new) : new[i] = new[j] => i = j
        /\ \A i \in 1..Len(new) : new[i] \in sent /\ new[i] \in Kinds(t)
    <3>1. CASE new = old
      BY <2>4, <3>1
    <3>2. ASSUME NEW k \in 1..Len(old), Len(new) = Len(old) - 1,
                 \A i \in 1..(Len(old) - 1) : new[i] = IF i < k THEN old[i] ELSE old[i + 1]
          PROVE  /\ \A i, j \in 1..Len(new) : new[i] = new[j] => i = j
                 /\ \A i \in 1..Len(new) : new[i] \in sent /\ new[i] \in Kinds(t)
      <4>1. \A i \in 1..Len(new) :
              \E m \in 1..Len(old) : new[i] = old[m] /\ m = IF i < k THEN i ELSE i + 1
        BY <2>5, <3>2
      <4>2. ASSUME NEW i \in 1..Len(new), NEW j \in 1..Len(new), new[i] = new[j] PROVE i = j
        <5>1. PICK m \in 1..Len(old) : new[i] = old[m] /\ m = IF i < k THEN i ELSE i + 1
          BY <4>1
        <5>2. PICK n \in 1..Len(old) : new[j] = old[n] /\ n = IF j < k THEN j ELSE j + 1
          BY <4>1
        <5>3. m = n
          BY <2>4, <4>2, <5>1, <5>2
        <5> QED
          BY <5>1, <5>2, <5>3
      <4>3. \A i \in 1..Len(new) : new[i] \in sent /\ new[i] \in Kinds(t)
        BY <2>4, <4>1
      <4> QED
        BY <4>2, <4>3
    <3> QED
      BY <2>3, <3>1, <3>2 DEF Drops
  <2>7. ASSUME NEW s \in Topics
        PROVE  /\ \A i \in 1..Len(topic'[s]) : topic'[s][i] \in sent' /\ topic'[s][i] \in Kinds(s)
               /\ \A i, j \in 1..Len(topic'[s]) : topic'[s][i] = topic'[s][j] => i = j
    <3>1. CASE s = t
      BY <1>2, <2>2, <2>6, <3>1
    <3>2. CASE s # t
      BY <1>0, <1>2, <2>2, <3>2 DEF TopicsFit, Kinds
    <3> QED
      BY <3>1, <3>2
  <2> QED
    BY <1>0, <1>2, <2>7 DEF TopicsFit, Kinds
<1>3. CASE UNCHANGED <<sent, topic>>
  BY <1>0, <1>3 DEF TopicsFit
<1>4. ASSUME NEW w \in Workers, Return(w) PROVE TopicsFit'
  BY <1>2, <1>3, <1>4 DEF Return
<1>5. ASSUME NEW w \in Workers, NEW e \in sent, Take(w, e) PROVE UNCHANGED <<sent, topic>>
  BY <1>5 DEF Take
<1>6. ASSUME NEW p \in Processes, Crash(p) PROVE UNCHANGED <<sent, topic>>
  BY <1>6 DEF Crash
<1>7. ASSUME UNCHANGED vars PROVE UNCHANGED <<sent, topic>>
  BY <1>7 DEF vars
<1> QED
  BY <1>0, <1>1, <1>3, <1>4, <1>5, <1>6, <1>7, StepIs, PublishedEvent, WorkLeaves

\* Where a call takes the handler of each kind of events.
LEMMA WorkGoes ==
  ASSUME TrackInv, NEW w \in Workers, Works(w)
  PROVE  /\ at[w] \notin {"idle", "stopped"} /\ event[w] # None
         /\ event[w] \in Accepted  => at'[w] \in {"save", "publish", "returned", "failed"}
         /\ event[w] \in Location  => at'[w] \in {"add", "broadcast", "publish", "returned",
                                                  "failed"}
         /\ event[w] \in Confirmed => at'[w] \in {"measure", "update", "publish", "returned",
                                                  "failed"}
         /\ event[w] \in Unknown   => at'[w] \in {"returned", "failed"}
<1>0. at \in [Workers -> States]
  BY DEF TrackInv, TypeOK
<1>1. \A s : Goto(w, s) => at'[w] = s
  BY <1>0 DEF Goto
<1>2. CASE AcceptedFind(w) \/ AcceptedSave(w) \/ AcceptedPublish(w)
  <2>1. at'[w] \in {"save", "publish", "returned", "failed"}
    BY <1>1, <1>2 DEF AcceptedFind, AcceptedSave, AcceptedPublish
  <2>2. event[w] \in Accepted /\ event[w] # None /\ at[w] \notin {"idle", "stopped"}
    BY <1>2, HandledEvent DEF AcceptedFind, AcceptedSave, AcceptedPublish
  <2> QED
    BY <2>1, <2>2, KindsDisjoint
<1>3. CASE LocationFind(w) \/ LocationAdd(w) \/ LocationBroadcast(w) \/ LocationPublish(w)
  <2>1. at'[w] \in {"add", "broadcast", "publish", "returned", "failed"}
    BY <1>1, <1>3 DEF LocationFind, LocationAdd, LocationBroadcast, LocationPublish
  <2>2. event[w] \in Location /\ event[w] # None /\ at[w] \notin {"idle", "stopped"}
    BY <1>3, HandledEvent DEF LocationFind, LocationAdd, LocationBroadcast, LocationPublish
  <2> QED
    BY <2>1, <2>2, KindsDisjoint
<1>4. CASE ConfirmedFind(w) \/ ConfirmedMeasure(w) \/ ConfirmedUpdate(w) \/ ConfirmedPublish(w)
  <2>1. at'[w] \in {"measure", "update", "publish", "returned", "failed"}
    BY <1>1, <1>4 DEF ConfirmedFind, ConfirmedMeasure, TryComplete, ConfirmedUpdate,
                      ConfirmedPublish
  <2>2. event[w] \in Confirmed /\ event[w] # None /\ at[w] \notin {"idle", "stopped"}
    BY <1>4, HandledEvent DEF ConfirmedFind, ConfirmedMeasure, ConfirmedUpdate, ConfirmedPublish
  <2> QED
    BY <2>1, <2>2, KindsDisjoint
<1>5. CASE Ignore(w)
  <2>1. at'[w] \in {"returned", "failed"}
    BY <1>1, <1>5 DEF Ignore
  <2>2. event[w] \in Unknown /\ event[w] # None /\ at[w] \notin {"idle", "stopped"}
    BY <1>5, HandledEvent DEF Ignore
  <2> QED
    BY <2>1, <2>2, KindsDisjoint
<1> QED
  BY <1>2, <1>3, <1>4, <1>5 DEF Works

\* What StepsFit says of one worker.
StepFits(w) ==
  /\ event[w] = None <=> at[w] \in {"idle", "stopped"}
  /\ event[w] # None => event[w] \in sent /\ event[w] \in Kinds(w[2])
  /\ event[w] \in Accepted  => at[w] \in {"find", "save", "publish", "returned", "failed"}
  /\ event[w] \in Location  => at[w] \in {"find", "add", "broadcast", "publish", "returned",
                                          "failed"}
  /\ event[w] \in Confirmed => at[w] \in {"find", "measure", "update", "publish", "returned",
                                          "failed"}
  /\ event[w] \in Unknown   => at[w] \in {"find", "returned", "failed"}

LEMMA StepsFitAll == StepsFit <=> \A w \in Workers : StepFits(w)
  BY DEF StepsFit, StepFits, Kinds

\* Every step leaves every worker where its event's kind takes it.
LEMMA StepsStep ==
  ASSUME TrackInv, [Next]_vars
  PROVE  StepsFit'
<1>0. TypeOK /\ TopicsFit /\ \A w \in Workers : StepFits(w)
  BY StepsFitAll DEF TrackInv
<1>1. ASSUME NEW w \in Workers, UNCHANGED <<event, at>>, sent \subseteq sent'
      PROVE  StepFits(w)'
  BY <1>0, <1>1 DEF StepFits
<1>2. ASSUME NEW w \in Workers, NEW e \in sent, Take(w, e), NEW v \in Workers PROVE StepFits(v)'
  <2>1. CASE v = w
    <3>1. event'[v] = e /\ at'[v] = "find" /\ sent' = sent
      BY <1>0, <1>2, <2>1 DEF Take, TypeOK
    <3>2. e \in Kinds(w[2])
      BY <1>0, <1>2 DEF Take, Uncommitted, TopicsFit, Kinds, Workers
    <3>3. e # None
      BY <1>0, <1>2, NoneAssumption DEF TypeOK
    <3> QED
      BY <2>1, <3>1, <3>2, <3>3 DEF StepFits
  <2>2. CASE v # w
    <3>1. event'[v] = event[v] /\ at'[v] = at[v] /\ sent' = sent
      BY <1>0, <1>2, <2>2 DEF Take, TypeOK
    <3> QED
      BY <1>0, <3>1 DEF StepFits
  <2> QED
    BY <2>1, <2>2
<1>3. ASSUME NEW w \in Workers, Return(w), NEW v \in Workers PROVE StepFits(v)'
  <2>1. CASE v = w
    <3>1. event'[v] = None /\ at'[v] \in {"idle", "stopped"}
      BY <1>0, <1>3, <2>1 DEF Return, Goto, TypeOK
    <3> QED
      BY <3>1, KindsDisjoint DEF StepFits
  <2>2. CASE v # w
    <3>1. event'[v] = event[v] /\ at'[v] = at[v] /\ sent' = sent
      BY <1>0, <1>3, <2>2 DEF Return, Goto, TypeOK
    <3> QED
      BY <1>0, <3>1 DEF StepFits
  <2> QED
    BY <2>1, <2>2
<1>4. ASSUME NEW p \in Processes, Crash(p), NEW v \in Workers PROVE StepFits(v)'
  <2>1. /\ event'[v] = IF v[1] = p THEN None ELSE event[v]
        /\ at'[v] = IF v[1] = p THEN "idle" ELSE at[v]
        /\ sent' = sent
    BY <1>4 DEF Crash
  <2>2. CASE v[1] = p
    BY <2>1, <2>2, KindsDisjoint DEF StepFits
  <2>3. CASE v[1] # p
    BY <1>0, <2>1, <2>3 DEF StepFits
  <2> QED
    BY <2>2, <2>3
<1>5. ASSUME NEW w \in Workers, Works(w), NEW v \in Workers PROVE StepFits(v)'
  <2>1. event' = event /\ sent' = sent
    BY <1>0, <1>5, WorkLeaves
  <2>2. CASE v = w
    <3>1. StepFits(v) /\ event[v] # None
      BY <1>0, <1>5, <2>2, WorkGoes
    <3>2. event[v] \in Event
      BY <1>0, <3>1 DEF TypeOK
    <3>3. /\ event[v] \in Accepted  => at'[v] \in {"save", "publish", "returned", "failed"}
          /\ event[v] \in Location  => at'[v] \in {"add", "broadcast", "publish", "returned",
                                                   "failed"}
          /\ event[v] \in Confirmed => at'[v] \in {"measure", "update", "publish", "returned",
                                                   "failed"}
          /\ event[v] \in Unknown   => at'[v] \in {"returned", "failed"}
      BY <1>5, <2>2, WorkGoes
    <3>4. at'[v] \notin {"idle", "stopped"}
      BY <3>2, <3>3 DEF Event
    <3> QED
      BY <2>1, <3>1, <3>3, <3>4 DEF StepFits
  <2>3. CASE v # w
    <3>1. at'[v] = at[v]
      BY <1>0, <1>5, <2>3, WorkLeaves
    <3> QED
      BY <1>0, <2>1, <3>1 DEF StepFits
  <2> QED
    BY <2>2, <2>3
<1>6. ASSUME Publishes PROVE UNCHANGED <<event, at>> /\ sent \subseteq sent'
  BY <1>6, PublishedEvent DEF Send
<1>7. ASSUME UNCHANGED vars PROVE UNCHANGED <<event, at>> /\ sent \subseteq sent'
  BY <1>7 DEF vars
<1>8. ASSUME NEW v \in Workers PROVE StepFits(v)'
  BY <1>1, <1>2, <1>3, <1>4, <1>5, <1>6, <1>7, StepIs
<1> QED
  BY <1>8 DEF StepsFit, StepFits, Kinds

\* The one step that adds a row, and the one that changes a row.
Inserts(w, i) ==
  /\ w \in Workers /\ AcceptedSave(w)
  /\ event[w] \in Accepted /\ event[w].booking \in Bookings
  /\ ~Conflict(event[w].booking)
  /\ i \in Ids /\ \A r \in tracks : r.id # i
  /\ tracks' = tracks \cup {NewTripTrack(event[w].booking, i)}
  /\ onTime' = onTime
Completes(w) ==
  /\ w \in Workers /\ ConfirmedUpdate(w)
  /\ Overwrite(track[w])
  /\ event[w] \in Confirmed
  /\ track[w] \in TripTrack /\ track[w].status = "completed"
  /\ track[w].booking = event[w].booking
  /\ \E r \in tracks : IsCopy(track[w], r)

LEMMA TracksChange ==
  ASSUME TrackInv, [Next]_vars
  PROVE  \/ UNCHANGED <<tracks, onTime>>
         \/ \E w \in Workers, i \in Ids : Inserts(w, i)
         \/ \E w \in Workers : Completes(w)
<1>1. ASSUME NEW w \in Workers, AcceptedSave(w)
      PROVE  UNCHANGED <<tracks, onTime>> \/ \E i \in Ids : Inserts(w, i)
  <2>1. event[w] \in Accepted /\ event[w].booking \in Bookings
    BY <1>1, HandledEvent DEF AcceptedSave
  <2>2. UNCHANGED onTime
    BY <1>1 DEF AcceptedSave
  <2>3. CASE UNCHANGED tracks
    BY <2>2, <2>3
  <2>4. CASE ~UNCHANGED tracks
    <3>1. /\ ~Conflict(event[w].booking)
          /\ \E i \in Ids \ {r.id : r \in tracks} :
               tracks' = tracks \cup {NewTripTrack(event[w].booking, i)}
      BY <1>1, <2>4 DEF AcceptedSave
    <3> QED
      BY <1>1, <2>1, <2>2, <3>1 DEF Inserts
  <2> QED
    BY <2>3, <2>4
<1>2. ASSUME NEW w \in Workers, ConfirmedUpdate(w)
      PROVE  UNCHANGED <<tracks, onTime>> \/ Completes(w)
  <2>1. event[w] \in Confirmed /\ at[w] = "update"
    BY <1>2, HandledEvent DEF ConfirmedUpdate
  <2>2. /\ track[w] \in TripTrack /\ track[w].status = "completed"
        /\ track[w].booking = event[w].booking
        /\ \E r \in tracks : IsCopy(track[w], r)
    BY <2>1 DEF TrackInv, CopiesFit
  <2>3. Overwrite(track[w]) \/ UNCHANGED <<tracks, onTime>>
    BY <1>2 DEF ConfirmedUpdate
  <2> QED
    BY <1>2, <2>1, <2>2, <2>3 DEF Completes
<1>3. ASSUME NEW w \in Workers, Works(w), ~AcceptedSave(w), ~ConfirmedUpdate(w)
      PROVE  UNCHANGED <<tracks, onTime>>
  BY <1>3 DEF Works, AcceptedFind, AcceptedPublish, LocationFind, LocationAdd, LocationBroadcast,
     LocationPublish, ConfirmedFind, ConfirmedMeasure, ConfirmedPublish, Ignore, database
<1>4. ASSUME NEW w \in Workers, Return(w) PROVE UNCHANGED <<tracks, onTime>>
  BY <1>4 DEF Return, database
<1>5. ASSUME NEW w \in Workers, NEW e \in sent, Take(w, e) PROVE UNCHANGED <<tracks, onTime>>
  BY <1>5 DEF Take, database
<1>6. ASSUME NEW p \in Processes, Crash(p) PROVE UNCHANGED <<tracks, onTime>>
  BY <1>6 DEF Crash, database
<1>7. ASSUME Publishes PROVE UNCHANGED <<tracks, onTime>>
  BY <1>7, PublishedEvent DEF Send, database
<1>8. ASSUME UNCHANGED vars PROVE UNCHANGED <<tracks, onTime>>
  BY <1>8 DEF vars, database
<1> QED
  BY <1>1, <1>2, <1>3, <1>4, <1>5, <1>6, <1>7, <1>8, StepIs

\* The one step that stores a point.
Adds(w) ==
  /\ w \in Workers /\ LocationAdd(w) /\ AddWaypoint(w)
  /\ at[w] = "add" /\ event[w] \in Location /\ event[w].point \in Points
  /\ track[w] \in TripTrack /\ track[w].id \in Ids
  /\ \E r \in tracks : IsCopy(track[w], r)

LEMMA WaypointsChange ==
  ASSUME TrackInv, [Next]_vars
  PROVE  UNCHANGED waypoints \/ \E w \in Workers : Adds(w)
<1>1. ASSUME NEW w \in Workers, LocationAdd(w) PROVE UNCHANGED waypoints \/ Adds(w)
  <2>1. at[w] = "add" /\ event[w] \in Location /\ event[w].point \in Points
    BY <1>1, HandledEvent DEF LocationAdd
  <2>2. UNCHANGED waypoints \/ AddWaypoint(w)
    BY <1>1 DEF LocationAdd
  <2>3. /\ track[w] \in TripTrack /\ track[w].id \in Ids
        /\ \E r \in tracks : IsCopy(track[w], r)
    BY <2>1, HeldCopy
  <2> QED
    BY <1>1, <2>1, <2>2, <2>3 DEF Adds
<1>2. ASSUME NEW w \in Workers, Works(w), ~LocationAdd(w) PROVE UNCHANGED waypoints
  BY <1>2 DEF Works, AcceptedFind, AcceptedSave, AcceptedPublish, LocationFind, LocationBroadcast,
     LocationPublish, ConfirmedFind, ConfirmedMeasure, ConfirmedUpdate, ConfirmedPublish, Ignore,
     database
<1>3. ASSUME NEW w \in Workers, Return(w) PROVE UNCHANGED waypoints
  BY <1>3 DEF Return, database
<1>4. ASSUME NEW w \in Workers, NEW e \in sent, Take(w, e) PROVE UNCHANGED waypoints
  BY <1>4 DEF Take, database
<1>5. ASSUME NEW p \in Processes, Crash(p) PROVE UNCHANGED waypoints
  BY <1>5 DEF Crash, database
<1>6. ASSUME Publishes PROVE UNCHANGED waypoints
  BY <1>6, PublishedEvent DEF Send, database
<1>7. ASSUME UNCHANGED vars PROVE UNCHANGED waypoints
  BY <1>7 DEF vars, database
<1> QED
  BY <1>1, <1>2, <1>3, <1>4, <1>5, <1>6, <1>7, StepIs

\* The one step that shows a point.
Shows(w) ==
  /\ w \in Workers /\ LocationBroadcast(w)
  /\ at[w] = "broadcast" /\ event[w] \in Location /\ event[w].point \in Points
  /\ track[w] \in TripTrack /\ track[w].booking \in Bookings
  /\ \E r \in tracks : IsCopy(track[w], r)

LEMMA ShownChange ==
  ASSUME TrackInv, [Next]_vars
  PROVE  UNCHANGED shown \/ \E w \in Workers : Shows(w)
<1>1. ASSUME NEW w \in Workers, LocationBroadcast(w) PROVE Shows(w)
  <2>1. at[w] = "broadcast" /\ event[w] \in Location /\ event[w].point \in Points
    BY <1>1, HandledEvent DEF LocationBroadcast
  <2>2. /\ track[w] \in TripTrack /\ track[w].booking \in Bookings
        /\ \E r \in tracks : IsCopy(track[w], r)
    BY <2>1, HeldCopy
  <2> QED
    BY <1>1, <2>1, <2>2 DEF Shows
<1>2. ASSUME NEW w \in Workers, Works(w), ~LocationBroadcast(w) PROVE UNCHANGED shown
  BY <1>2 DEF Works, AcceptedFind, AcceptedSave, AcceptedPublish, LocationFind, LocationAdd,
     LocationPublish, ConfirmedFind, ConfirmedMeasure, ConfirmedUpdate, ConfirmedPublish, Ignore,
     world
<1>3. ASSUME NEW w \in Workers, Return(w) PROVE UNCHANGED shown
  BY <1>3 DEF Return, world
<1>4. ASSUME NEW w \in Workers, NEW e \in sent, Take(w, e) PROVE UNCHANGED shown
  BY <1>4 DEF Take, world
<1>5. ASSUME NEW p \in Processes, Crash(p) PROVE UNCHANGED shown
  BY <1>5 DEF Crash, world
<1>6. ASSUME Publishes PROVE UNCHANGED shown
  BY <1>6, PublishedEvent DEF Send, world
<1>7. ASSUME UNCHANGED vars PROVE UNCHANGED shown
  BY <1>7 DEF vars, world
<1> QED
  BY <1>1, <1>2, <1>3, <1>4, <1>5, <1>6, <1>7, StepIs

\* The fields of a row.
LEMMA TrackFields ==
  ASSUME NEW r \in TripTrack
  PROVE  /\ r.id \in Ids /\ r.booking \in Bookings /\ r.runner \in Runners
         /\ r.status \in Statuses /\ r.dist \in Distances
  BY DEF TripTrack

\* A row that is overwritten stays, and no row is added.
LEMMA OverwriteKeeps ==
  ASSUME TrackInv, NEW w, Completes(w)
  PROVE  /\ track[w] \in tracks'
         /\ \A s \in tracks' : s \in tracks \/ s = track[w]
         /\ \A s \in tracks' : \E r \in tracks : IsCopy(s, r)
         /\ \A r \in tracks : \E s \in tracks' : IsCopy(s, r)
<1>1. tracks' = {x \in tracks : x.id # track[w].id} \cup {track[w]}
  BY DEF Completes, Overwrite
<1>2. PICK o \in tracks : IsCopy(track[w], o)
  BY DEF Completes
<1>3. \A r, s \in tracks : r.id = s.id => r = s
  BY DEF TrackInv, TracksFit
<1>4. ASSUME NEW s \in tracks' PROVE \E r \in tracks : IsCopy(s, r)
  BY <1>1, <1>2 DEF IsCopy
<1>5. ASSUME NEW r \in tracks PROVE \E s \in tracks' : IsCopy(s, r)
  <2>1. CASE r.id = track[w].id
    <3>1. r = o
      BY <1>2, <1>3, <2>1 DEF IsCopy
    <3> QED
      BY <1>1, <1>2, <3>1
  <2>2. CASE r.id # track[w].id
    BY <1>1, <2>2 DEF IsCopy
  <2> QED
    BY <2>1, <2>2
<1> QED
  BY <1>1, <1>4, <1>5

\* Nothing that was sent is unsent, no row ever goes away, and a track keeps
\* its points.
LEMMA TablesGrow ==
  ASSUME TrackInv, [Next]_vars
  PROVE  /\ sent \subseteq sent'
         /\ \A r \in tracks : \E s \in tracks' : IsCopy(s, r)
         /\ \A i \in Ids : PointsOf(i) \subseteq PointsOf(i)'
<1>1. sent \subseteq sent'
  <2>1. ASSUME Publishes PROVE sent \subseteq sent'
    BY <2>1, PublishedEvent DEF Send
  <2>2. ASSUME NEW w \in Workers, Works(w) PROVE sent' = sent
    BY <2>2, WorkLeaves DEF TrackInv
  <2> QED
    BY <2>1, <2>2, StepIs DEF Take, Return, Crash, vars
<1>2. ASSUME NEW r \in tracks PROVE \E s \in tracks' : IsCopy(s, r)
  <2>1. CASE r \in tracks'
    BY <2>1 DEF IsCopy
  <2>2. CASE r \notin tracks'
    BY <2>2, TracksChange, OverwriteKeeps DEF Inserts
  <2> QED
    BY <2>1, <2>2
<1>3. ASSUME NEW i \in Ids PROVE PointsOf(i) \subseteq PointsOf(i)'
  <2>0. waypoints \in [Ids -> Seq(Points)] /\ waypoints[i] \in Seq(Points)
    BY DEF TrackInv, TypeOK
  <2>1. CASE UNCHANGED waypoints
    BY <2>1 DEF PointsOf
  <2>2. ASSUME NEW w \in Workers, Adds(w) PROVE PointsOf(i) \subseteq PointsOf(i)'
    <3>1. waypoints'[i] = waypoints[i] \/ waypoints'[i] = Append(waypoints[i], event[w].point)
      BY <2>0, <2>2 DEF Adds, AddWaypoint
    <3>2. event[w].point \in Points
      BY <2>2 DEF Adds
    <3>3. \A n \in 1..Len(waypoints[i]) :
            n \in 1..Len(waypoints'[i]) /\ waypoints'[i][n] = waypoints[i][n]
      BY <2>0, <3>1, <3>2
    <3> QED
      BY <3>3 DEF PointsOf
  <2> QED
    BY <2>1, <2>2, WaypointsChange
<1> QED
  BY <1>1, <1>2, <1>3

\* An event that says a booking was accepted or confirmed was sent as that.
LEMMA SentAs ==
  /\ \A e \in Accepted : e \in sent <=> IsSent("accepted", e.booking)
  /\ \A e \in Confirmed : e \in sent <=> IsSent("confirmed", e.booking)
<1>1. \A e \in Accepted : e = [type |-> "accepted", booking |-> e.booking]
  BY DEF Accepted
<1>2. \A e \in Confirmed : e = [type |-> "confirmed", booking |-> e.booking]
  BY DEF Confirmed
<1> QED
  BY <1>1, <1>2 DEF IsSent

\* The tables' constraints hold after every step.
LEMMA TracksStep ==
  ASSUME TrackInv, [Next]_vars
  PROVE  TracksFit'
<1>0. /\ \A r, s \in tracks : r.id = s.id \/ r.booking = s.booking => r = s
      /\ \A r \in tracks : /\ IsSent("accepted", r.booking) /\ IsSent("accepted", r.booking)'
                           /\ r.runner = RunnerOf[r.booking]
                           /\ r.status \in {"active", "completed"}
  BY TablesGrow DEF TrackInv, TracksFit, IsSent
<1>1. CASE UNCHANGED <<tracks, onTime>>
  BY <1>0, <1>1 DEF TracksFit
<1>2. ASSUME NEW w \in Workers, NEW i \in Ids, Inserts(w, i) PROVE TracksFit'
  <2> DEFINE b == event[w].booking
             new == NewTripTrack(b, i)
  <2>1. tracks' = tracks \cup {new} /\ b \in Bookings
    BY <1>2 DEF Inserts
  <2>2. new.id = i /\ new.booking = b /\ new.runner = RunnerOf[b] /\ new.status = "active"
    BY <2>1, NewTrackTyped
  <2>3. \A r \in tracks : r.id # i /\ r.booking # b
    BY <1>2 DEF Inserts, Conflict, TracksOf
  <2>4. [type |-> "accepted", booking |-> b] \in sent'
    <3>1. event[w] \in sent /\ event[w] \in Accepted
      BY <1>2, KindsDisjoint DEF Inserts, TrackInv, StepsFit
    <3> QED
      BY <3>1, SentAs, TablesGrow DEF IsSent
  <2> HIDE DEF new, b
  <2>5. \A r, s \in tracks' : r.id = s.id \/ r.booking = s.booking => r = s
    BY <1>0, <2>1, <2>2, <2>3
  <2>6. \A r \in tracks' : /\ IsSent("accepted", r.booking)'
                           /\ r.runner = RunnerOf[r.booking]
                           /\ r.status \in {"active", "completed"}
    BY <1>0, <2>1, <2>2, <2>4 DEF IsSent
  <2> QED
    BY <2>5, <2>6 DEF TracksFit
<1>3. ASSUME NEW w \in Workers, Completes(w) PROVE TracksFit'
  <2>1. tracks' = {x \in tracks : x.id # track[w].id} \cup {track[w]}
    BY <1>3 DEF Completes, Overwrite
  <2>2. PICK o \in tracks : IsCopy(track[w], o)
    BY <1>3 DEF Completes
  <2>3. track[w].status = "completed"
    BY <1>3 DEF Completes
  <2>4. track[w].id = o.id /\ track[w].booking = o.booking /\ track[w].runner = o.runner
    BY <2>2 DEF IsCopy
  <2>5. \A r \in tracks : r.id # track[w].id => r.booking # track[w].booking
    BY <1>0, <2>4
  <2>6. \A r, s \in tracks' : r.id = s.id \/ r.booking = s.booking => r = s
    BY <1>0, <2>1, <2>5
  <2>7. \A r \in tracks' : /\ IsSent("accepted", r.booking)'
                           /\ r.runner = RunnerOf[r.booking]
                           /\ r.status \in {"active", "completed"}
    BY <1>0, <2>1, <2>3, <2>4
  <2> QED
    BY <2>6, <2>7 DEF TracksFit
<1> QED
  BY <1>1, <1>2, <1>3, TracksChange

\* At these steps a handler uses the track it holds.
NeedsTrack(w) ==
  \/ at[w] \in {"add", "broadcast", "measure", "update"}
  \/ at[w] = "publish" /\ event[w] \notin Location

\* What CopiesFit says of one worker.
CopyFits(w) ==
  NeedsTrack(w) =>
    /\ track[w] \in TripTrack
    /\ \E r \in tracks : IsCopy(track[w], r)
    /\ event[w] \in Accepted \cup Confirmed => track[w].booking = event[w].booking
    /\ at[w] = "measure" => IsActive(track[w])
    /\ at[w] = "update" \/ (at[w] = "publish" /\ event[w] \in Confirmed) =>
         /\ track[w].status = "completed"
         /\ track[w].dist \subseteq PointsOf(track[w].id)

LEMMA CopiesFitAll == CopiesFit <=> \A w \in Workers : CopyFits(w)
  BY DEF CopiesFit, CopyFits, NeedsTrack

\* A copy of a row stays one, and a distance that was measured on the points
\* of a track stays one.
LEMMA CopyOfGrown ==
  ASSUME TrackInv, [Next]_vars, NEW x, x \in TripTrack, \E r \in tracks : IsCopy(x, r)
  PROVE  /\ \E s \in tracks' : IsCopy(x, s)
         /\ x.dist \subseteq PointsOf(x.id) => x.dist \subseteq PointsOf(x.id)'
<1>1. \E s \in tracks' : IsCopy(x, s)
  BY TablesGrow DEF IsCopy
<1>2. PointsOf(x.id) \subseteq PointsOf(x.id)'
  BY TablesGrow, TrackFields
<1> QED
  BY <1>1, <1>2

\* A handler that does nothing keeps its copy.
LEMMA CopyStays ==
  ASSUME TrackInv, [Next]_vars, NEW w \in Workers,
         at'[w] = at[w], event'[w] = event[w], track'[w] = track[w]
  PROVE  CopyFits(w)'
<1>1. SUFFICES ASSUME NeedsTrack(w)
               PROVE  CopyFits(w)'
  BY DEF CopyFits, NeedsTrack
<1>2. CopyFits(w)
  BY CopiesFitAll DEF TrackInv
<1>3. track[w] \in TripTrack /\ \E r \in tracks : IsCopy(track[w], r)
  BY <1>1, <1>2 DEF CopyFits
<1>4. PICK x : x = track[w]
  OBVIOUS
<1>5. /\ \E s \in tracks' : IsCopy(x, s)
      /\ x.dist \subseteq PointsOf(x.id) => x.dist \subseteq PointsOf(x.id)'
  BY <1>3, <1>4, CopyOfGrown
<1> QED
  BY <1>1, <1>2, <1>3, <1>4, <1>5 DEF CopyFits, IsActive, IsCopy, PointsOf

\* A handler that does a call has a copy where it needs one.
LEMMA CopyWorks ==
  ASSUME TrackInv, [Next]_vars, NEW w \in Workers, Works(w)
  PROVE  CopyFits(w)'
<1>0. TypeOK /\ CopyFits(w) /\ event' = event /\ w \in Workers
  BY CopiesFitAll, WorkLeaves DEF TrackInv
<1>1. \A s : Goto(w, s) => at'[w] = s
  BY <1>0 DEF TypeOK, Goto
<1>2. \A r : Hold(w, r) => track'[w] = r
  BY <1>0 DEF TypeOK, Hold
<1>3. \A r \in tracks : r \in TripTrack
  BY <1>0 DEF TypeOK
<1>4. CASE at'[w] \in {"find", "save", "returned", "failed"}
  BY <1>4 DEF CopyFits, NeedsTrack
<1>5. CASE AcceptedFind(w)
  BY <1>1, <1>4, <1>5 DEF AcceptedFind
<1>6. CASE AcceptedSave(w)
  <2> DEFINE b == event[w].booking
  <2>1. event[w] \in Accepted /\ b \in Bookings
    BY <1>6, HandledEvent DEF AcceptedSave
  <2>2. \/ at'[w] = "failed"
        \/ /\ at'[w] = "publish"
           /\ \E i \in Ids : track'[w] = NewTripTrack(b, i) /\ NewTripTrack(b, i) \in tracks'
    <3>1. \/ Goto(w, "failed")
          \/ /\ Goto(w, "publish")
             /\ \E i \in Ids : Hold(w, NewTripTrack(b, i)) /\ NewTripTrack(b, i) \in tracks'
      BY <1>6 DEF AcceptedSave
    <3> QED
      BY <1>1, <1>2, <3>1
  <2>3. ASSUME NEW i \in Ids, at'[w] = "publish", track'[w] = NewTripTrack(b, i),
               NewTripTrack(b, i) \in tracks'
        PROVE  CopyFits(w)'
    <3>1. track'[w] \in TripTrack /\ track'[w].booking = b /\ track'[w] \in tracks'
      BY <2>1, <2>3, NewTrackTyped
    <3>2. event'[w] \notin Confirmed
      BY <1>0, <2>1, KindsDisjoint
    <3> QED
      BY <1>0, <2>3, <3>1, <3>2 DEF CopyFits, IsCopy
  <2> QED
    BY <1>4, <2>2, <2>3
<1>7. CASE AcceptedPublish(w)
  BY <1>1, <1>4, <1>7 DEF AcceptedPublish
<1>8. CASE LocationFind(w)
  <2>1. event[w] \in Location
    BY <1>8, HandledEvent DEF LocationFind
  <2>2. \/ at'[w] = "returned"
        \/ at'[w] = "add" /\ track'[w] \in tracks /\ tracks' = tracks
    BY <1>1, <1>2, <1>8 DEF LocationFind, FirstActive, ActiveOf, database
  <2>3. ASSUME at'[w] = "add", track'[w] \in tracks, tracks' = tracks PROVE CopyFits(w)'
    <3>1. event'[w] \notin Accepted \cup Confirmed
      BY <1>0, <2>1, KindsDisjoint
    <3> QED
      BY <1>3, <2>3, <3>1 DEF CopyFits, IsCopy
  <2> QED
    BY <1>4, <2>2, <2>3
<1>9. CASE LocationAdd(w)
  <2>1. event[w] \in Location /\ at[w] = "add"
    BY <1>9, HandledEvent DEF LocationAdd
  <2>2. at'[w] \in {"broadcast", "failed"} /\ track' = track /\ tracks' = tracks
    BY <1>1, <1>9 DEF LocationAdd
  <2>3. event'[w] \notin Accepted \cup Confirmed
    BY <1>0, <2>1, KindsDisjoint
  <2>4. track[w] \in TripTrack /\ \E r \in tracks : IsCopy(track[w], r)
    BY <2>1, HeldCopy
  <2> QED
    BY <1>4, <2>2, <2>3, <2>4 DEF CopyFits, IsCopy
<1>10. CASE LocationBroadcast(w)
  <2>1. event'[w] \in Location /\ at'[w] = "publish"
    BY <1>0, <1>1, <1>10, HandledEvent DEF LocationBroadcast
  <2> QED
    BY <2>1 DEF CopyFits, NeedsTrack
<1>11. CASE LocationPublish(w)
  BY <1>1, <1>4, <1>11 DEF LocationPublish
<1>12. CASE ConfirmedFind(w)
  <2>1. \/ at'[w] \in {"failed", "returned"}
        \/ /\ at'[w] = "measure" /\ track'[w] \in TracksOf(event[w].booking)
           /\ IsActive(track'[w]) /\ tracks' = tracks
    BY <1>1, <1>2, <1>12 DEF ConfirmedFind, database
  <2>2. ASSUME at'[w] = "measure", track'[w] \in TracksOf(event[w].booking),
               IsActive(track'[w]), tracks' = tracks
        PROVE  CopyFits(w)'
    BY <1>0, <1>3, <2>2 DEF CopyFits, IsCopy, TracksOf, IsActive
  <2> QED
    BY <1>4, <2>1, <2>2
<1>13. CASE ConfirmedMeasure(w)
  <2>1. at[w] = "measure" /\ event[w] \in Confirmed
    BY <1>13, HandledEvent DEF ConfirmedMeasure
  <2>2. /\ track[w] \in TripTrack /\ \E r \in tracks : IsCopy(track[w], r)
        /\ track[w].booking = event[w].booking /\ track[w].status = "active"
    BY <1>0, <2>1, HeldCopy DEF CopyFits, NeedsTrack, IsActive
  <2>3. at'[w] = "update" /\ tracks' = tracks /\ waypoints' = waypoints
    BY <1>1, <1>13, <2>2 DEF ConfirmedMeasure, TryComplete, database
  <2>4. \E d \in Distances : d \subseteq PointsOf(track[w].id) /\ track'[w] = Complete(track[w], d)
    <3>1. \/ track'[w] = Complete(track[w], Distance(PointsOf(track[w].id)))
          \/ track'[w] = Complete(track[w], Distance({}))
      BY <1>2, <1>13, <2>2 DEF ConfirmedMeasure, TryComplete
    <3>2. /\ Distance(PointsOf(track[w].id)) \subseteq PointsOf(track[w].id)
          /\ Distance({}) \subseteq PointsOf(track[w].id)
          /\ Distance(PointsOf(track[w].id)) \in Distances /\ Distance({}) \in Distances
      BY <1>0, <2>2, DistanceTyped, TrackFields
    <3> QED
      BY <3>1, <3>2
  <2>5. PICK d \in Distances : d \subseteq PointsOf(track[w].id) /\ track'[w] = Complete(track[w], d)
    BY <2>4
  <2>6. /\ track'[w] \in TripTrack /\ IsCopy(track'[w], track[w])
        /\ track'[w].status = "completed" /\ track'[w].dist = d
    BY <2>2, <2>5, CompleteTyped
  <2>7. \E r \in tracks' : IsCopy(track'[w], r)
    BY <2>2, <2>3, <2>6 DEF IsCopy
  <2>8. PICK i : i = track[w].id /\ i = track'[w].id
    BY <2>6 DEF IsCopy
  <2>9. d \subseteq {waypoints'[i][n] : n \in 1..Len(waypoints'[i])}
    BY <2>3, <2>5, <2>8 DEF PointsOf
  <2> QED
    BY <1>0, <2>2, <2>3, <2>6, <2>7, <2>8, <2>9 DEF CopyFits, IsCopy, PointsOf
<1>14. CASE ConfirmedUpdate(w)
  <2>1. at[w] = "update" /\ event[w] \in Confirmed
    BY <1>14, HandledEvent DEF ConfirmedUpdate
  <2>2. at'[w] \in {"publish", "failed"} /\ track' = track
    BY <1>1, <1>14 DEF ConfirmedUpdate
  <2>3. /\ track[w] \in TripTrack /\ \E r \in tracks : IsCopy(track[w], r)
        /\ track[w].booking = event[w].booking
        /\ track[w].status = "completed" /\ track[w].dist \subseteq PointsOf(track[w].id)
    BY <1>0, <2>1 DEF CopyFits, NeedsTrack
  <2>4. PICK x : x = track[w]
    OBVIOUS
  <2>5. /\ \E s \in tracks' : IsCopy(x, s)
        /\ x.dist \subseteq PointsOf(x.id)'
    BY <2>3, <2>4, CopyOfGrown
  <2> QED
    BY <1>0, <1>4, <2>2, <2>3, <2>4, <2>5 DEF CopyFits, IsCopy, PointsOf
<1>15. CASE ConfirmedPublish(w)
  BY <1>1, <1>4, <1>15 DEF ConfirmedPublish
<1>16. CASE Ignore(w)
  BY <1>1, <1>4, <1>16 DEF Ignore
<1> QED
  BY <1>5, <1>6, <1>7, <1>8, <1>9, <1>10, <1>11, <1>12, <1>13, <1>14, <1>15, <1>16 DEF Works

\* In a step a worker stays as it is, or starts, ends or loses its event, or
\* does a call.
LEMMA WorkerStep ==
  ASSUME TypeOK, [Next]_vars, NEW v \in Workers
  PROVE  \/ at'[v] = at[v] /\ event'[v] = event[v] /\ track'[v] = track[v]
         \/ at'[v] \in {"idle", "find", "stopped"}
         \/ Works(v) /\ event'[v] = event[v]
<1>1. ASSUME NEW w \in Workers, NEW e \in sent, Take(w, e)
      PROVE  \/ at'[v] = at[v] /\ event'[v] = event[v] /\ track'[v] = track[v]
             \/ at'[v] = "find"
  BY <1>1 DEF Take, TypeOK
<1>2. ASSUME NEW w \in Workers, Return(w)
      PROVE  \/ at'[v] = at[v] /\ event'[v] = event[v] /\ track'[v] = track[v]
             \/ at'[v] \in {"idle", "stopped"}
  <2>1. CASE v = w
    BY <1>2, <2>1 DEF Return, Goto, TypeOK
  <2>2. CASE v # w
    BY <1>2, <2>2 DEF Return, Goto, Hold, TypeOK
  <2> QED
    BY <2>1, <2>2
<1>3. ASSUME NEW p \in Processes, Crash(p)
      PROVE  \/ at'[v] = at[v] /\ event'[v] = event[v] /\ track'[v] = track[v]
             \/ at'[v] = "idle"
  BY <1>3 DEF Crash
<1>4. ASSUME NEW w \in Workers, Works(w)
      PROVE  \/ at'[v] = at[v] /\ event'[v] = event[v] /\ track'[v] = track[v]
             \/ Works(v) /\ event'[v] = event[v]
  BY <1>4, WorkLeaves
<1>5. ASSUME Publishes \/ UNCHANGED vars PROVE UNCHANGED <<at, event, track>>
  <2>1. CASE UNCHANGED vars
    BY <2>1 DEF vars
  <2>2. CASE \E t \in Topics : \E e : Send(t, e)
    BY <2>2 DEF Send
  <2>3. Publishes => \E t \in Topics : \E e : Send(t, e)
    <3>1. "booking" \in Topics /\ "runner" \in Topics
      BY DEF Topics
    <3>2. \A e \in Unknowns : e.topic \in Topics
      BY UnknownsAssumption, EventKinds DEF Event
    <3> QED
      BY <3>1, <3>2 DEF Publishes, SendAccepted, SendConfirmed, SendLocation, SendUnknown
  <2> QED
    BY <1>5, <2>1, <2>2, <2>3
<1> QED
  BY <1>1, <1>2, <1>3, <1>4, <1>5, StepIs

\* The copies fit after every step.
LEMMA CopiesStep ==
  ASSUME TrackInv, [Next]_vars
  PROVE  CopiesFit'
<1>1. ASSUME NEW v \in Workers PROVE CopyFits(v)'
  <2>1. ASSUME at'[v] \in {"idle", "find", "stopped"} PROVE CopyFits(v)'
    BY <2>1 DEF CopyFits, NeedsTrack
  <2> QED
    BY <2>1, WorkerStep, CopyStays, CopyWorks DEF TrackInv
<1> QED
  BY <1>1 DEF CopiesFit, CopyFits, NeedsTrack

\* A point is stored and shown only of tracks that exist, after every step.
LEMMA StrayStep ==
  ASSUME TrackInv, [Next]_vars
  PROVE  NoStrayPoints'
<1>0. /\ TypeOK
      /\ \A i \in Ids : waypoints[i] # <<>> => \E r \in tracks : r.id = i
      /\ \A p \in Processes, b \in Bookings : shown[p][b] # <<>> => \E r \in tracks : r.booking = b
  BY DEF TrackInv, NoStrayPoints, TracksOf
<1>1. \A r \in tracks : \E s \in tracks' : s.id = r.id /\ s.booking = r.booking
  BY TablesGrow DEF IsCopy
<1>2. ASSUME NEW i \in Ids, waypoints'[i] # <<>> PROVE \E r \in tracks : r.id = i
  <2>1. CASE waypoints'[i] = waypoints[i]
    BY <1>0, <1>2, <2>1
  <2>2. ASSUME NEW w \in Workers, Adds(w), waypoints'[i] # waypoints[i]
        PROVE  \E r \in tracks : r.id = i
    <3>1. track[w].id = i
      BY <1>0, <2>2 DEF Adds, AddWaypoint, TypeOK
    <3> QED
      BY <2>2, <3>1 DEF Adds, IsCopy
  <2> QED
    BY <2>1, <2>2, WaypointsChange
<1>3. ASSUME NEW p \in Processes, NEW b \in Bookings, shown'[p][b] # <<>>
      PROVE  \E r \in tracks : r.booking = b
  <2>1. CASE shown'[p][b] = shown[p][b]
    BY <1>0, <1>3, <2>1
  <2>2. ASSUME NEW w \in Workers, Shows(w), shown'[p][b] # shown[p][b]
        PROVE  \E r \in tracks : r.booking = b
    <3>1. track[w].booking = b
      BY <1>0, <2>2 DEF Shows, LocationBroadcast, TypeOK
    <3> QED
      BY <2>2, <3>1 DEF Shows, IsCopy
  <2> QED
    BY <2>1, <2>2, ShownChange
<1> QED
  BY <1>1, <1>2, <1>3 DEF NoStrayPoints, TracksOf

\* The base invariant holds at the start and is kept by every step.
LEMMA TrackInit == ASSUME Init PROVE TrackInv
<1>1. \A w \in Workers : event[w] = None /\ at[w] = "idle" /\ track[w] = None
  BY DEF Init
<1>2. TypeOK
  BY BoundAssumption DEF Init, TypeOK, States
<1>3. TopicsFit
  BY FS_EmptySet DEF Init, TopicsFit
<1>4. StepsFit
  BY <1>1, KindsDisjoint DEF StepsFit
<1>5. TracksFit
  BY DEF Init, TracksFit
<1>6. CopiesFit
  BY <1>1 DEF CopiesFit
<1>7. NoStrayPoints
  BY DEF Init, NoStrayPoints
<1> QED
  BY <1>2, <1>3, <1>4, <1>5, <1>6, <1>7 DEF TrackInv

LEMMA TrackStep == ASSUME TrackInv, [Next]_vars PROVE TrackInv'
  BY TrackTypeStep, TopicsStep, StepsStep, TracksStep, CopiesStep, StrayStep DEF TrackInv

\* The topics, the handlers and the tables fit each other in every state, for
\* every number of processes and every policy of the consumer.
THEOREM TrackInvariant == Spec => []TrackInv
<1>1. Init => TrackInv
  BY TrackInit
<1>2. TrackInv /\ [Next]_vars => TrackInv'
  BY TrackStep
<1> QED
  BY <1>1, <1>2, PTL DEF Spec

\* Every variable has its type in every state.
THEOREM TrackTypes == Spec => []TypeOK
<1>1. TrackInv => TypeOK
  BY DEF TrackInv
<1> QED
  BY <1>1, TrackInvariant, PTL
=============================================================================
