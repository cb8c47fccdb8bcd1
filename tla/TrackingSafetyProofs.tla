------------------------ MODULE TrackingSafetyProofs ------------------------
(* Proofs of the safety of the tracks for any number of processes: a trip    *)
(* starts once, a completed one is soon closed, its viewers see its route,   *)
(* and its completion is told once for each process at most.  Each rests on  *)
(* TrackInv and an invariant of its own.  Together they make the tracks      *)
(* implement SharedTrips.                                                   *)
EXTENDS TrackingProofs

\* The tracks of a booking are none or one.
LEMMA TracksOfOne ==
  ASSUME TrackInv, NEW b \in Bookings
  PROVE  /\ IsFiniteSet(TracksOf(b)) /\ Cardinality(TracksOf(b)) <= 1
         /\ TracksOf(b) # {} => Cardinality(TracksOf(b)) = 1
<1>1. CASE TracksOf(b) = {}
  BY <1>1, FS_EmptySet
<1>2. ASSUME NEW r \in TracksOf(b)
      PROVE  IsFiniteSet(TracksOf(b)) /\ Cardinality(TracksOf(b)) = 1
  <2>1. TracksOf(b) = {r}
    BY <1>2 DEF TrackInv, TracksFit, TracksOf
  <2> QED
    BY <2>1, FS_Singleton
<1> QED
  BY <1>1, <1>2

-----------------------------------------------------------------------------
(* A trip starts once.                                                     *)

\* The step that announces a start.
Starts(w) ==
  /\ w \in Workers /\ Announces(w) /\ AcceptedPublish(w) /\ track[w].booking \in Bookings
  /\ \E r \in tracks : IsCopy(track[w], r)
  /\ started' = [started EXCEPT ![track[w].booking] = @ + 1]

LEMMA StartedChange ==
  ASSUME TrackInv, [Next]_vars
  PROVE  UNCHANGED started \/ \E w \in Workers : Starts(w)
<1>1. ASSUME NEW w \in Workers, AcceptedPublish(w) PROVE UNCHANGED started \/ Starts(w)
  <2>1. at[w] = "publish" /\ event[w] \in Accepted
    BY <1>1, HandledEvent DEF AcceptedPublish
  <2>2. track[w].booking \in Bookings /\ \E r \in tracks : IsCopy(track[w], r)
    BY <2>1, HeldCopy, KindsDisjoint
  <2> QED
    BY <1>1, <2>1, <2>2 DEF AcceptedPublish, Starts, Announces
<1>2. ASSUME NEW w \in Workers, Works(w), ~AcceptedPublish(w) PROVE UNCHANGED started
  BY <1>2 DEF Works, AcceptedFind, AcceptedSave, LocationFind, LocationAdd, LocationBroadcast,
     LocationPublish, ConfirmedFind, ConfirmedMeasure, ConfirmedUpdate, ConfirmedPublish, Ignore,
     world
<1>3. ASSUME NEW w \in Workers, Return(w) PROVE UNCHANGED started
  BY <1>3 DEF Return, world
<1>4. ASSUME NEW w \in Workers, NEW e \in sent, Take(w, e) PROVE UNCHANGED started
  BY <1>4 DEF Take, world
<1>5. ASSUME NEW p \in Processes, Crash(p) PROVE UNCHANGED started
  BY <1>5 DEF Crash, world
<1>6. ASSUME Publishes PROVE UNCHANGED started
  BY <1>6, PublishedEvent DEF Send, world
<1>7. ASSUME UNCHANGED vars PROVE UNCHANGED started
  BY <1>7 DEF vars, world
<1> QED
  BY <1>1, <1>2, <1>3, <1>4, <1>5, <1>6, <1>7, StepIs

\* A worker that is to announce a start was to before, or inserts the row now.
LEMMA AnnouncesFrom ==
  ASSUME TrackInv, [Next]_vars, NEW v \in Workers, Announces(v)'
  PROVE  \/ Announces(v) /\ track'[v] = track[v] /\ ~Starts(v)
         \/ \E i \in Ids : Inserts(v, i) /\ track'[v] = NewTripTrack(event[v].booking, i)
<1>0. TypeOK /\ at'[v] = "publish" /\ event'[v] \in Accepted
  BY DEF TrackInv, Announces
<1>1. \A s : Goto(v, s) => at'[v] = s
  BY <1>0 DEF Goto, TypeOK
<1>2. ASSUME at'[v] = at[v], event'[v] = event[v], track'[v] = track[v]
      PROVE  Announces(v) /\ track'[v] = track[v] /\ ~Starts(v)
  <2>1. AcceptedPublish(v) => at'[v] = "returned"
    BY <1>1 DEF AcceptedPublish
  <2> QED
    BY <1>0, <1>2, <2>1 DEF Announces, Starts
<1>3. ASSUME Works(v), event'[v] = event[v]
      PROVE  \E i \in Ids : Inserts(v, i) /\ track'[v] = NewTripTrack(event[v].booking, i)
  <2>1. event[v] \in Accepted /\ event[v] \notin Confirmed /\ event[v] \notin Location
    BY <1>0, <1>3, KindsDisjoint
  <2>2. AcceptedFind(v) \/ AcceptedPublish(v) \/ Ignore(v) => at'[v] # "publish"
    BY <1>1 DEF AcceptedFind, AcceptedPublish, Ignore
  <2>3. ~(LocationFind(v) \/ LocationAdd(v) \/ LocationBroadcast(v) \/ LocationPublish(v))
    BY <2>1, HandledEvent DEF LocationFind, LocationAdd, LocationBroadcast, LocationPublish
  <2>4. ~(ConfirmedFind(v) \/ ConfirmedMeasure(v) \/ ConfirmedUpdate(v) \/ ConfirmedPublish(v))
    BY <2>1, HandledEvent DEF ConfirmedFind, ConfirmedMeasure, ConfirmedUpdate, ConfirmedPublish
  <2>5. AcceptedSave(v)
    BY <1>0, <1>3, <2>2, <2>3, <2>4 DEF Works
  <2>6. ~Goto(v, "failed")
    BY <1>0, <1>1
  <2>7. PICK i \in Ids \ {r.id : r \in tracks} :
          /\ ~Conflict(event[v].booking)
          /\ tracks' = tracks \cup {NewTripTrack(event[v].booking, i)}
          /\ Hold(v, NewTripTrack(event[v].booking, i))
    BY <2>5, <2>6 DEF AcceptedSave
  <2>8. track'[v] = NewTripTrack(event[v].booking, i)
    BY <1>0, <2>7 DEF Hold, TypeOK
  <2>9. event[v].booking \in Bookings /\ onTime' = onTime
    BY <2>1, <2>5 DEF AcceptedSave, Accepted
  <2> QED
    BY <2>1, <2>5, <2>7, <2>8, <2>9 DEF Inserts
<1> QED
  BY <1>0, <1>2, <1>3, WorkerStep

\* A row that is inserted is the first of its booking, which was not announced.
LEMMA InsertsFirst ==
  ASSUME TrackInv, StartInv, NEW w \in Workers, NEW i \in Ids, Inserts(w, i)
  PROVE  /\ event[w].booking \in Bookings /\ started[event[w].booking] = 0
         /\ UNCHANGED started
         /\ \A v \in Workers : Announces(v) => track[v].booking # event[w].booking
<1>1. event[w].booking \in Bookings /\ TracksOf(event[w].booking) = {}
  BY DEF Inserts, Conflict
<1>2. started[event[w].booking] = 0
  <2>1. started[event[w].booking] \in Nat
    BY <1>1 DEF TrackInv, TypeOK
  <2> QED
    BY <1>1, <2>1 DEF StartInv
<1>3. ASSUME NEW v \in Workers, Announces(v) PROVE track[v].booking # event[w].booking
  <2>1. \E r \in tracks : IsCopy(track[v], r)
    BY <1>3, HeldCopy, KindsDisjoint DEF Announces
  <2> QED
    BY <1>1, <2>1 DEF TracksOf, IsCopy
<1>4. UNCHANGED started
  BY DEF Inserts, AcceptedSave, world
<1> QED
  BY <1>1, <1>2, <1>3, <1>4

LEMMA StartStep ==
  ASSUME TrackInv, StartInv, [Next]_vars
  PROVE  StartInv'
<1>0. /\ started \in [Bookings -> Nat]
      /\ \A b \in Bookings : started[b] <= 1 /\ (started[b] = 1 => TracksOf(b) # {})
      /\ \A w \in Workers : Announces(w) => started[track[w].booking] = 0
      /\ \A v, w \in Workers :
           Announces(v) /\ Announces(w) /\ track[v].booking = track[w].booking => v = w
  BY DEF TrackInv, TypeOK, StartInv
<1>1. ASSUME NEW b \in Bookings, TracksOf(b) # {} PROVE TracksOf(b)' # {}
  BY <1>1, TablesGrow DEF TracksOf, IsCopy
<1>2. ASSUME NEW b \in Bookings
      PROVE  started'[b] <= 1 /\ (started'[b] = 1 => TracksOf(b)' # {})
  <2>1. CASE started'[b] = started[b]
    BY <1>0, <1>1, <2>1
  <2>2. ASSUME NEW w \in Workers, Starts(w), started'[b] # started[b]
        PROVE  started'[b] <= 1 /\ TracksOf(b)' # {}
    <3>1. b = track[w].booking /\ started'[b] = started[b] + 1
      BY <1>0, <2>2 DEF Starts
    <3>2. started[b] = 0
      BY <1>0, <2>2, <3>1 DEF Starts
    <3>3. TracksOf(b) # {}
      BY <2>2, <3>1 DEF Starts, IsCopy, TracksOf
    <3> QED
      BY <1>1, <3>1, <3>2, <3>3
  <2> QED
    BY <2>1, <2>2, StartedChange
<1>3. ASSUME NEW v \in Workers, Announces(v)'
      PROVE  started'[track'[v].booking] = 0
  <2>1. ASSUME Announces(v), track'[v] = track[v], ~Starts(v)
        PROVE  started'[track'[v].booking] = 0
    <3>1. CASE UNCHANGED started
      BY <1>0, <2>1, <3>1
    <3>2. ASSUME NEW w \in Workers, Starts(w) PROVE started'[track'[v].booking] = 0
      <4>1. track[v].booking # track[w].booking
        BY <1>0, <2>1, <3>2 DEF Starts
      <4>2. started'[track[v].booking] = started[track[v].booking]
        <5>1. track[v].booking \in Bookings
          BY <2>1, HeldCopy, KindsDisjoint DEF Announces
        <5> QED
          BY <1>0, <3>2, <4>1, <5>1 DEF Starts
      <4> QED
        BY <1>0, <2>1, <4>2
    <3> QED
      BY <3>1, <3>2, StartedChange
  <2>2. ASSUME NEW i \in Ids, Inserts(v, i), track'[v] = NewTripTrack(event[v].booking, i)
        PROVE  started'[track'[v].booking] = 0
    BY <2>2, InsertsFirst, NewTrackTyped
  <2> QED
    BY <1>3, <2>1, <2>2, AnnouncesFrom
<1>4. ASSUME NEW v \in Workers, NEW w \in Workers, Announces(v)', Announces(w)',
             track'[v].booking = track'[w].booking, v # w
      PROVE  FALSE
  <2>1. ASSUME NEW x \in Workers, NEW y \in Workers, NEW i \in Ids, Inserts(x, i),
               track'[x] = NewTripTrack(event[x].booking, i),
               Announces(y), track'[y] = track[y],
               track'[x].booking = track'[y].booking
        PROVE  FALSE
    BY <2>1, InsertsFirst, NewTrackTyped
  <2>2. ASSUME NEW i \in Ids, Inserts(v, i), NEW j \in Ids, Inserts(w, j) PROVE FALSE
    <3>1. Works(v) /\ Works(w) /\ at[w] = "save"
      BY <2>2 DEF Inserts, Works, AcceptedSave, Handles
    <3>2. at'[w] = at[w]
      BY <1>4, <3>1, WorkLeaves DEF TrackInv
    <3> QED
      BY <1>4, <3>1, <3>2 DEF Announces
  <2>3. CASE Announces(v) /\ track'[v] = track[v] /\ Announces(w) /\ track'[w] = track[w]
    BY <1>0, <1>4, <2>3
  <2>4. \/ Announces(v) /\ track'[v] = track[v]
        \/ \E i \in Ids : Inserts(v, i) /\ track'[v] = NewTripTrack(event[v].booking, i)
    BY <1>4, AnnouncesFrom
  <2>5. \/ Announces(w) /\ track'[w] = track[w]
        \/ \E i \in Ids : Inserts(w, i) /\ track'[w] = NewTripTrack(event[w].booking, i)
    BY <1>4, AnnouncesFrom
  <2> QED
    BY <1>4, <2>1, <2>2, <2>3, <2>4, <2>5
<1> QED
  BY <1>2, <1>3, <1>4 DEF StartInv

\* Of the workers of a booking one is to announce its start, or did.
LEMMA StartInvariant == Spec => []StartInv
<1>1. Init => StartInv
  BY DEF Init, StartInv, Announces
<1>2. TrackInv /\ StartInv /\ [Next]_vars => StartInv'
  BY StartStep
<1> QED
  BY <1>1, <1>2, TrackInvariant, PTL DEF Spec

\* A trip starts once: a booking has one track at most, and its start is told
\* once at most, however many processes handle its event, however often.
THEOREM TripsStartOnce == Spec => []StartedOnce
<1>1. TrackInv /\ StartInv => StartedOnce
  <2> SUFFICES ASSUME TrackInv, StartInv, NEW b \in Bookings
               PROVE  /\ Cardinality(TracksOf(b)) <= 1
                      /\ started[b] <= Cardinality(TracksOf(b))
    BY DEF StartedOnce
  <2>1. started[b] \in Nat /\ started[b] <= 1 /\ (started[b] = 1 => TracksOf(b) # {})
    BY DEF TrackInv, TypeOK, StartInv
  <2>2. Cardinality(TracksOf(b)) \in Nat
    BY TracksOfOne, FS_CardinalityType
  <2> QED
    BY <2>1, <2>2, TracksOfOne
<1> QED
  BY <1>1, TrackInvariant, StartInvariant, PTL

-----------------------------------------------------------------------------
(* A completed trip is soon closed.                                        *)

LEMMA LocationWorkers ==
  ASSUME NEW p \in Processes
  PROVE  LocationWorker(p) \in Workers /\ LocationWorker(p)[1] = p /\ LocationWorker(p)[2] = "runner"
  BY DEF LocationWorker, Workers, Topics

\* A worker with a location is its process's location worker.
LEMMA LocationsWorker ==
  ASSUME TrackInv, NEW w \in Workers, event[w] \in Location
  PROVE  w[1] \in Processes /\ w = LocationWorker(w[1])
<1>1. w[2] = "runner"
  BY KindsDisjoint DEF TrackInv, StepsFit
<1> QED
  BY <1>1 DEF Workers, LocationWorker

\* The processes about to store a point for a track are finitely many.
LEMMA AddersFinite ==
  ASSUME NEW i
  PROVE  /\ IsFiniteSet(Adders(i)) /\ Cardinality(Adders(i)) \in Nat
         /\ Cardinality(Adders(i)) <= Cardinality(Processes)
         /\ Cardinality(Processes) \in Nat
<1>1. Adders(i) \subseteq Processes
  BY DEF Adders
<1> QED
  BY <1>1, ProcessAssumption, FS_Subset, FS_CardinalityType

\* A process about to store a point was so before, or found the track active.
LEMMA AddersFrom ==
  ASSUME TrackInv, [Next]_vars, NEW p \in Processes, NEW w, w = LocationWorker(p), at'[w] = "add"
  PROVE  \/ at[w] = "add" /\ track'[w] = track[w] /\ ~LocationAdd(w)
         \/ track'[w] \in tracks /\ IsActive(track'[w]) /\ UNCHANGED <<tracks, onTime, waypoints>>
<1>0. TypeOK /\ w \in Workers
  BY LocationWorkers DEF TrackInv
<1>1. \A s : Goto(w, s) => at'[w] = s
  BY <1>0 DEF Goto, TypeOK
<1>2. LocationAdd(w) => at'[w] # "add"
  BY <1>1 DEF LocationAdd
<1>3. ASSUME Works(w)
      PROVE  track'[w] \in tracks /\ IsActive(track'[w]) /\ UNCHANGED <<tracks, onTime, waypoints>>
  <2>1. ~(AcceptedFind(w) \/ AcceptedSave(w) \/ AcceptedPublish(w) \/ Ignore(w))
    BY <1>1 DEF AcceptedFind, AcceptedSave, AcceptedPublish, Ignore
  <2>2. ~(ConfirmedFind(w) \/ ConfirmedMeasure(w) \/ ConfirmedUpdate(w) \/ ConfirmedPublish(w))
    BY <1>1 DEF ConfirmedFind, ConfirmedMeasure, TryComplete, ConfirmedUpdate, ConfirmedPublish
  <2>3. ~(LocationBroadcast(w) \/ LocationPublish(w) \/ Goto(w, "returned"))
    BY <1>1 DEF LocationBroadcast, LocationPublish
  <2>4. LocationFind(w)
    BY <1>2, <1>3, <2>1, <2>2, <2>3 DEF Works
  <2>5. PICK x \in FirstActive(event[w].runner) : Hold(w, x)
    BY <2>3, <2>4 DEF LocationFind
  <2>6. track'[w] = x
    BY <1>0, <2>5 DEF Hold, TypeOK
  <2> QED
    BY <2>4, <2>5, <2>6 DEF LocationFind, database, FirstActive, ActiveOf, IsActive
<1> QED
  BY <1>0, <1>2, <1>3, WorkerStep

\* A completed track that is kept gets no new process about to store a point.
LEMMA AddersShrink ==
  ASSUME TrackInv, [Next]_vars, NEW r \in tracks, ~IsActive(r)
  PROVE  Adders(r.id)' \subseteq Adders(r.id)
<1>1. ASSUME NEW p \in Processes, at'[LocationWorker(p)] = "add",
             track'[LocationWorker(p)].id = r.id
      PROVE  p \in Adders(r.id)
  <2>1. CASE /\ at[LocationWorker(p)] = "add"
             /\ track'[LocationWorker(p)] = track[LocationWorker(p)]
    BY <1>1, <2>1 DEF Adders
  <2>2. CASE track'[LocationWorker(p)] \in tracks /\ IsActive(track'[LocationWorker(p)])
    BY <1>1, <2>2 DEF TrackInv, TracksFit
  <2> QED
    BY <1>1, <2>1, <2>2, AddersFrom
<1> QED
  BY <1>1 DEF Adders

\* What LateInv says of a track, by its id.
Late(i) ==
  Len(waypoints[i]) + Cardinality(Adders(i)) <= onTime[i] + Cardinality(Processes)

LEMMA LateStep ==
  ASSUME TrackInv, LateInv, [Next]_vars
  PROVE  LateInv'
<1>0. /\ waypoints \in [Ids -> Seq(Points)] /\ onTime \in [Ids -> Nat]
      /\ \A i \in Ids : Len(waypoints[i]) \in Nat /\ onTime[i] \in Nat
      /\ tracks \subseteq TripTrack
      /\ \A r \in tracks : ~IsActive(r) => Late(r.id)
  BY DEF TrackInv, TypeOK, LateInv, Late
<1> DEFINE N == Cardinality(Processes)
<1>1. \A i : Cardinality(Adders(i)) \in Nat /\ Cardinality(Adders(i)) <= N
  BY AddersFinite
<1>2. \A i : Cardinality(Adders(i)') \in Nat /\ Cardinality(Adders(i)') <= N
  <2> SUFFICES ASSUME NEW i
               PROVE  Cardinality(Adders(i)') \in Nat /\ Cardinality(Adders(i)') <= N
    OBVIOUS
  <2>1. Adders(i)' \subseteq Processes
    BY DEF Adders
  <2> QED
    BY <2>1, ProcessAssumption, FS_Subset, FS_CardinalityType
<1>3. N \in Nat
  BY ProcessAssumption, FS_CardinalityType
<1> HIDE DEF N
<1>4. ASSUME NEW r \in tracks, ~IsActive(r), UNCHANGED onTime PROVE Late(r.id)'
  <2>1. r.id \in Ids
    BY <1>0, TrackFields
  <2>2. Adders(r.id)' \subseteq Adders(r.id)
    BY <1>4, AddersShrink
  <2>3. Cardinality(Adders(r.id)') <= Cardinality(Adders(r.id))
    BY <2>2, AddersFinite, FS_Subset
  <2>4. Late(r.id)
    BY <1>0, <1>4
  <2>5. CASE waypoints'[r.id] = waypoints[r.id]
    BY <1>0, <1>1, <1>2, <1>3, <1>4, <2>1, <2>3, <2>4, <2>5 DEF Late, N
  <2>6. ASSUME NEW w \in Workers, Adds(w), waypoints'[r.id] # waypoints[r.id]
        PROVE  Late(r.id)'
    <3>1. track[w].id = r.id /\ waypoints'[r.id] = Append(waypoints[r.id], event[w].point)
      BY <1>0, <2>1, <2>6 DEF Adds, AddWaypoint
    <3>2. event[w].point \in Points /\ waypoints[r.id] \in Seq(Points)
      BY <1>0, <2>1, <2>6 DEF Adds
    <3>3. Len(waypoints'[r.id]) = Len(waypoints[r.id]) + 1
      BY <3>1, <3>2
    <3>4. w[1] \in Processes /\ w = LocationWorker(w[1])
      BY <2>6, LocationsWorker DEF Adds
    <3>5. w[1] \in Adders(r.id)
      BY <2>6, <3>1, <3>4 DEF Adds, Adders
    <3>6. w[1] \notin Adders(r.id)'
      <4>1. at'[w] # "add"
        BY <2>6 DEF Adds, LocationAdd, Goto, TrackInv, TypeOK
      <4> QED
        BY <3>4, <4>1 DEF Adders
    <3>7. Adders(r.id)' \subseteq Adders(r.id) \ {w[1]}
      BY <2>2, <3>6
    <3>8. /\ IsFiniteSet(Adders(r.id) \ {w[1]})
          /\ Cardinality(Adders(r.id) \ {w[1]}) = Cardinality(Adders(r.id)) - 1
      BY <3>5, AddersFinite, FS_RemoveElement
    <3>9. Cardinality(Adders(r.id)') <= Cardinality(Adders(r.id)) - 1
      BY <3>7, <3>8, FS_Subset
    <3> QED
      BY <1>0, <1>1, <1>2, <1>3, <1>4, <2>1, <2>4, <3>3, <3>9 DEF Late, N
  <2> QED
    BY <2>5, <2>6, WaypointsChange
<1>5. ASSUME NEW r \in tracks', ~IsActive(r), UNCHANGED <<tracks, onTime>> PROVE Late(r.id)'
  BY <1>4, <1>5
<1>6. ASSUME NEW w \in Workers, NEW i \in Ids, Inserts(w, i), NEW r \in tracks', ~IsActive(r)
      PROVE  Late(r.id)'
  <2>1. UNCHANGED onTime
    BY <1>6 DEF Inserts
  <2>2. r \in tracks
    BY <1>6, NewTrackTyped DEF Inserts, IsActive
  <2> QED
    BY <1>4, <1>6, <2>1, <2>2
<1>7. ASSUME NEW w \in Workers, Completes(w), NEW r \in tracks', ~IsActive(r)
      PROVE  Late(r.id)'
  <2>1. PICK o \in tracks : IsCopy(r, o)
    BY <1>7, OverwriteKeeps
  <2>2. o.id = r.id /\ r.id \in Ids
    BY <1>0, <2>1, TrackFields DEF IsCopy
  <2>3. waypoints' = waypoints
    BY <1>7 DEF Completes, ConfirmedUpdate
  <2>4. onTime' = IF \E x \in tracks : x.id = track[w].id /\ IsActive(x)
                    THEN [onTime EXCEPT ![track[w].id] = Len(waypoints[track[w].id])]
                    ELSE onTime
    BY <1>7 DEF Completes, Overwrite
  <2>5. CASE onTime'[r.id] = onTime[r.id] /\ ~IsActive(o)
    <3>1. Adders(o.id)' \subseteq Adders(o.id)
      BY <2>5, AddersShrink
    <3>2. Cardinality(Adders(r.id)') <= Cardinality(Adders(r.id))
      BY <2>2, <3>1, AddersFinite, FS_Subset
    <3>3. Late(r.id)
      BY <1>0, <2>2, <2>5
    <3> QED
      BY <1>0, <1>1, <1>2, <1>3, <2>2, <2>3, <2>5, <3>2, <3>3 DEF Late, N
  <2>6. CASE onTime'[r.id] = Len(waypoints[r.id])
    BY <1>0, <1>2, <1>3, <2>2, <2>3, <2>6 DEF Late, N
  <2>7. CASE r.id = track[w].id
    BY <1>0, <2>2, <2>4, <2>5, <2>6, <2>7
  <2>8. CASE r.id # track[w].id
    <3>1. r \in tracks
      BY <1>7, <2>8, OverwriteKeeps
    <3>2. o = r
      BY <2>2, <3>1 DEF TrackInv, TracksFit
    <3>3. onTime'[r.id] = onTime[r.id]
      BY <1>0, <2>2, <2>4, <2>8
    <3> QED
      BY <1>7, <2>5, <3>2, <3>3
  <2> QED
    BY <2>7, <2>8
<1>8. ASSUME NEW r \in tracks', ~IsActive(r) PROVE Late(r.id)'
  BY <1>5, <1>6, <1>7, <1>8, TracksChange
<1> QED
  BY <1>8 DEF LateInv, Late, IsActive

\* A completed trip has room for the waypoints on their way.
LEMMA LateInvariant == Spec => []LateInv
<1>1. Init => LateInv
  BY DEF Init, LateInv
<1>2. TrackInv /\ LateInv /\ [Next]_vars => LateInv'
  BY LateStep
<1> QED
  BY <1>1, <1>2, TrackInvariant, PTL DEF Spec

\* A completed trip takes no waypoint but those of the handlers that had found
\* it active, one for each process.
THEOREM LateWaypointsAreFew == Spec => []LateBounded
<1>1. TrackInv /\ LateInv => LateBounded
  <2> SUFFICES ASSUME TrackInv, LateInv, NEW r \in tracks, ~IsActive(r)
               PROVE  Len(waypoints[r.id]) <= onTime[r.id] + Cardinality(Processes)
    BY DEF LateBounded
  <2>1. r.id \in Ids
    BY TrackFields DEF TrackInv, TypeOK
  <2>2. waypoints[r.id] \in Seq(Points)
    BY <2>1 DEF TrackInv, TypeOK
  <2>3. Len(waypoints[r.id]) \in Nat
    BY <2>2
  <2>4. onTime[r.id] \in Nat
    BY <2>1 DEF TrackInv, TypeOK
  <2>5. Len(waypoints[r.id]) + Cardinality(Adders(r.id)) <= onTime[r.id] + Cardinality(Processes)
    BY DEF LateInv
  <2>6. Cardinality(Adders(r.id)) \in Nat /\ Cardinality(Processes) \in Nat
    BY AddersFinite
  <2> QED
    BY <2>3, <2>4, <2>5, <2>6
<1> QED
  BY <1>1, TrackInvariant, LateInvariant, PTL

-----------------------------------------------------------------------------
(* Viewers see the route in its order.                                     *)

LEMMA FollowsNothing == ASSUME NEW route PROVE Follows(<<>>, route)
<1> DEFINE f == [n \in 1..0 |-> n]
<1>1. f \in [1..Len(<<>>) -> 1..Len(route)]
  OBVIOUS
<1>2. \A n \in 1..Len(<<>>) : <<>>[n] = route[f[n]] /\ \A m \in 1..(n - 1) : f[m] < f[n]
  OBVIOUS
<1> QED
  BY <1>1, <1>2 DEF Follows

\* What follows a route follows it when it grows.
LEMMA FollowsLonger ==
  ASSUME NEW S, NEW s \in Seq(S), NEW route \in Seq(S), NEW x \in S, Follows(s, route)
  PROVE  Follows(s, Append(route, x))
<1>1. PICK f \in [1..Len(s) -> 1..Len(route)] :
        \A n \in 1..Len(s) : s[n] = route[f[n]] /\ \A m \in 1..(n - 1) : f[m] < f[n]
  BY DEF Follows
<1>2. /\ Len(Append(route, x)) = Len(route) + 1 /\ Len(route) \in Nat
      /\ \A i \in 1..Len(route) : Append(route, x)[i] = route[i]
  OBVIOUS
<1>3. f \in [1..Len(s) -> 1..Len(Append(route, x))]
  BY <1>1, <1>2
<1>4. \A n \in 1..Len(s) : s[n] = Append(route, x)[f[n]] /\ \A m \in 1..(n - 1) : f[m] < f[n]
  BY <1>1, <1>2
<1> QED
  BY <1>3, <1>4 DEF Follows

\* It still does with one more point that is the route's last.
LEMMA FollowsOneMore ==
  ASSUME NEW S, NEW s \in Seq(S), NEW route \in Seq(S), NEW x \in S, Follows(s, route)
  PROVE  Follows(Append(s, x), Append(route, x))
<1>1. PICK f \in [1..Len(s) -> 1..Len(route)] :
        \A n \in 1..Len(s) : s[n] = route[f[n]] /\ \A m \in 1..(n - 1) : f[m] < f[n]
  BY DEF Follows
<1> DEFINE a == Append(s, x)
           b == Append(route, x)
           g == [n \in 1..Len(a) |-> IF n <= Len(s) THEN f[n] ELSE Len(b)]
<1>2. /\ Len(b) = Len(route) + 1 /\ Len(route) \in Nat /\ b[Len(b)] = x
      /\ \A i \in 1..Len(route) : b[i] = route[i]
  OBVIOUS
<1>3. /\ Len(a) = Len(s) + 1 /\ Len(s) \in Nat /\ a[Len(a)] = x
      /\ \A i \in 1..Len(s) : a[i] = s[i]
  OBVIOUS
<1> HIDE DEF a, b
<1>4. \A n \in 1..Len(s) : f[n] \in 1..Len(route)
  BY <1>1
<1>5. /\ \A n \in 1..Len(s) : g[n] = f[n]
      /\ g[Len(a)] = Len(b)
  BY <1>3
<1>6. g \in [1..Len(a) -> 1..Len(b)]
  BY <1>2, <1>3, <1>4
<1> HIDE DEF g
<1>7. ASSUME NEW n \in 1..Len(a) PROVE a[n] = b[g[n]] /\ \A m \in 1..(n - 1) : g[m] < g[n]
  <2>1. CASE n \in 1..Len(s)
    <3>1. a[n] = b[g[n]]
      BY <1>1, <1>2, <1>3, <1>4, <1>5, <2>1
    <3>2. \A m \in 1..(n - 1) : m \in 1..Len(s)
      BY <1>3, <2>1
    <3> QED
      BY <1>1, <1>5, <2>1, <3>1, <3>2
  <2>2. CASE n = Len(a)
    <3>1. \A m \in 1..(n - 1) : m \in 1..Len(s)
      BY <1>3, <2>2
    <3>2. \A m \in 1..(n - 1) : g[m] \in 1..Len(route)
      BY <1>4, <1>5, <3>1
    <3> QED
      BY <1>2, <1>3, <1>5, <2>2, <3>2
  <2> QED
    BY <1>3, <2>1, <2>2
<1> QED
  BY <1>6, <1>7 DEF Follows, a, b

\* A process about to show a point was so before, or stored it now.
LEMMA ShowersFrom ==
  ASSUME TrackInv, [Next]_vars, NEW w \in Workers, at'[w] = "broadcast"
  PROVE  \/ /\ at[w] = "broadcast" /\ track'[w] = track[w] /\ event'[w] = event[w]
            /\ ~LocationBroadcast(w)
         \/ /\ at[w] = "add" /\ Adds(w) /\ track'[w] = track[w] /\ event'[w] = event[w]
            /\ UNCHANGED <<tracks, shown>>
<1>0. TypeOK
  BY DEF TrackInv
<1>1. \A s : Goto(w, s) => at'[w] = s
  BY <1>0 DEF Goto, TypeOK
<1>2. LocationBroadcast(w) => at'[w] # "broadcast"
  BY <1>1 DEF LocationBroadcast
<1>3. ASSUME Works(w)
      PROVE  /\ at[w] = "add" /\ Adds(w) /\ track'[w] = track[w] /\ UNCHANGED <<tracks, shown>>
  <2>1. ~(AcceptedFind(w) \/ AcceptedSave(w) \/ AcceptedPublish(w) \/ Ignore(w))
    BY <1>1 DEF AcceptedFind, AcceptedSave, AcceptedPublish, Ignore
  <2>2. ~(ConfirmedFind(w) \/ ConfirmedMeasure(w) \/ ConfirmedUpdate(w) \/ ConfirmedPublish(w))
    BY <1>1 DEF ConfirmedFind, ConfirmedMeasure, TryComplete, ConfirmedUpdate, ConfirmedPublish
  <2>3. ~(LocationFind(w) \/ LocationPublish(w) \/ Goto(w, "failed"))
    BY <1>1 DEF LocationFind, LocationPublish
  <2>4. LocationAdd(w)
    BY <1>2, <1>3, <2>1, <2>2, <2>3 DEF Works
  <2>5. AddWaypoint(w)
    BY <2>3, <2>4 DEF LocationAdd
  <2>6. at[w] = "add" /\ event[w] \in Location /\ event[w].point \in Points
    BY <2>4, HandledEvent DEF LocationAdd
  <2>7. /\ track[w] \in TripTrack /\ track[w].id \in Ids
        /\ \E r \in tracks : IsCopy(track[w], r)
    BY <2>6, HeldCopy
  <2> QED
    BY <2>4, <2>5, <2>6, <2>7 DEF LocationAdd, Adds, world
<1> QED
  BY <1>0, <1>2, <1>3, WorkerStep

\* The points that are stored and shown.
LEMMA PointsTyped ==
  ASSUME TypeOK
  PROVE  /\ \A i \in Ids : waypoints[i] \in Seq(Points)
         /\ \A p \in Processes, b \in Bookings : shown[p][b] \in Seq(Points)
  BY DEF TypeOK

\* A process that shows nothing shows what it showed, to each booking.
LEMMA ShownStays ==
  ASSUME TrackInv, [Next]_vars, NEW p \in Processes,
         ~Shows(LocationWorker(p)) \/ at'[LocationWorker(p)] = "broadcast"
  PROVE  shown'[p] = shown[p]
<1>1. CASE UNCHANGED shown
  BY <1>1
<1>2. ASSUME NEW w \in Workers, Shows(w) PROVE shown'[p] = shown[p]
  <2>1. w = LocationWorker(w[1]) /\ w[1] \in Processes
    BY <1>2, LocationsWorker DEF Shows
  <2>2. at'[w] = "publish"
    BY <1>2 DEF Shows, LocationBroadcast, Goto, TrackInv, TypeOK
  <2>3. w[1] # p
    BY <1>2, <2>1, <2>2
  <2> QED
    BY <1>2, <2>3 DEF Shows, LocationBroadcast, TrackInv, TypeOK
<1> QED
  BY <1>1, <1>2, ShownChange

\* What follows a stored route still does after a step.
LEMMA FollowsOn ==
  ASSUME TrackInv, [Next]_vars, NEW s \in Seq(Points), NEW i \in Ids, Follows(s, waypoints[i])
  PROVE  Follows(s, waypoints'[i])
<1>1. waypoints \in [Ids -> Seq(Points)]
  BY DEF TrackInv, TypeOK
<1>2. ASSUME NEW w \in Workers, Adds(w), waypoints'[i] # waypoints[i]
      PROVE  Follows(s, waypoints'[i])
  <2>1. waypoints'[i] = Append(waypoints[i], event[w].point) /\ event[w].point \in Points
    BY <1>1, <1>2 DEF Adds, AddWaypoint
  <2> QED
    BY <1>1, <2>1, FollowsLonger
<1> QED
  BY <1>2, WaypointsChange

LEMMA OrderStep ==
  ASSUME TrackInv, OrderInv, [Next]_vars
  PROVE  OrderInv'
<1>0. TypeOK /\ tracks \subseteq TripTrack
  BY DEF TrackInv, TypeOK
<1>1. \A r \in tracks, p \in Processes : Follows(shown[p][r.booking], waypoints[r.id])
  BY DEF OrderInv, ShownInOrder
<1>2. ASSUME NEW p \in Processes, NEW w, w = LocationWorker(p), at[w] = "broadcast"
      PROVE  Follows(Append(shown[p][track[w].booking], event[w].point), waypoints[track[w].id])
  BY <1>2 DEF OrderInv
<1>3. ASSUME NEW o \in tracks, NEW p \in Processes
      PROVE  Follows(shown'[p][o.booking], waypoints'[o.id])
  <2>1. o.id \in Ids /\ o.booking \in Bookings
    BY <1>0, TrackFields
  <2>2. CASE shown'[p][o.booking] = shown[p][o.booking]
    BY <1>0, <1>1, <2>1, <2>2, FollowsOn, PointsTyped
  <2>3. CASE shown'[p][o.booking] # shown[p][o.booking]
    <3>1. PICK w \in Workers : Shows(w)
      BY <2>3, ShownChange
    <3>2. w[1] = p /\ track[w].booking = o.booking
      BY <1>0, <2>1, <2>3, <3>1 DEF Shows, LocationBroadcast, TypeOK
    <3>3. w = LocationWorker(p) /\ at[w] = "broadcast"
      BY <3>1, <3>2, LocationsWorker DEF Shows
    <3>4. shown'[p][o.booking] = Append(shown[p][o.booking], event[w].point)
      BY <1>0, <2>1, <3>1, <3>2 DEF Shows, LocationBroadcast, TypeOK
    <3>5. track[w].id = o.id
      BY <3>1, <3>2 DEF Shows, IsCopy, TrackInv, TracksFit
    <3>6. Follows(shown'[p][o.booking], waypoints[o.id])
      BY <1>2, <3>2, <3>3, <3>4, <3>5
    <3>7. waypoints' = waypoints
      BY <3>1 DEF Shows, LocationBroadcast, database
    <3> QED
      BY <3>6, <3>7
  <2> QED
    BY <2>2, <2>3
<1>4. ASSUME NEW r \in tracks', NEW p \in Processes
      PROVE  Follows(shown'[p][r.booking], waypoints'[r.id])
  <2>1. CASE \E o \in tracks : IsCopy(r, o)
    BY <1>3, <2>1 DEF IsCopy
  <2>2. ASSUME NEW w \in Workers, NEW i \in Ids, Inserts(w, i),
               r = NewTripTrack(event[w].booking, i)
        PROVE  Follows(shown'[p][r.booking], waypoints'[r.id])
    <3>1. r.booking = event[w].booking /\ r.booking \in Bookings
      BY <2>2, NewTrackTyped DEF Inserts
    <3>2. TracksOf(r.booking) = {}
      BY <2>2, <3>1 DEF Inserts, Conflict
    <3>3. shown[p][r.booking] = <<>>
      BY <3>1, <3>2 DEF TrackInv, NoStrayPoints
    <3>4. shown' = shown
      BY <2>2 DEF Inserts, AcceptedSave, world
    <3> QED
      BY <3>3, <3>4, FollowsNothing
  <2>3. (\E o \in tracks : IsCopy(r, o)) \/
          \E w \in Workers, i \in Ids : Inserts(w, i) /\ r = NewTripTrack(event[w].booking, i)
    <3>1. CASE r \in tracks
      BY <3>1 DEF IsCopy
    <3>2. CASE r \notin tracks
      BY <3>2, TracksChange, OverwriteKeeps DEF Inserts
    <3> QED
      BY <3>1, <3>2
  <2> QED
    BY <2>1, <2>2, <2>3
<1>5. ASSUME NEW p \in Processes, NEW w, w = LocationWorker(p), at'[w] = "broadcast"
      PROVE  Follows(Append(shown'[p][track'[w].booking], event'[w].point), waypoints'[track'[w].id])
  <2>1. w \in Workers
    BY <1>5, LocationWorkers
  <2>2. shown'[p] = shown[p]
    BY <1>5, ShownStays
  <2>3. at[w] \in {"add", "broadcast"} /\ track'[w] = track[w] /\ event'[w] = event[w]
    BY <1>5, <2>1, ShowersFrom
  <2>4. /\ track[w].id \in Ids /\ track[w].booking \in Bookings
        /\ \E r \in tracks : IsCopy(track[w], r)
    BY <2>1, <2>3, HeldCopy
  <2>5. event[w] \in Location /\ event[w].point \in Points
    <3>1. event[w] # None /\ event[w] \in Event
      BY <2>1, <2>3, <1>0 DEF TrackInv, StepsFit, TypeOK
    <3>2. event[w] \in Location
      BY <2>1, <2>3, <3>1 DEF TrackInv, StepsFit, Event
    <3> QED
      BY <3>2 DEF Location
  <2>6. CASE at[w] = "broadcast"
    <3>1. Follows(Append(shown[p][track[w].booking], event[w].point), waypoints[track[w].id])
      BY <1>2, <1>5, <2>6
    <3>2. Append(shown[p][track[w].booking], event[w].point) \in Seq(Points)
      <4>1. shown[p][track[w].booking] \in Seq(Points)
        BY <1>0, <2>4, PointsTyped
      <4> QED
        BY <2>5, <4>1
    <3>3. Follows(Append(shown[p][track[w].booking], event[w].point), waypoints'[track[w].id])
      BY <2>4, <3>1, <3>2, FollowsOn
    <3> QED
      BY <2>2, <2>3, <3>3
  <2>7. CASE at[w] = "add"
    <3>1. Adds(w)
      BY <1>5, <2>1, <2>7, ShowersFrom
    <3>2. waypoints'[track[w].id] = Append(waypoints[track[w].id], event[w].point)
      BY <1>0, <2>4, <3>1 DEF Adds, AddWaypoint, TypeOK
    <3>3. Follows(shown[p][track[w].booking], waypoints[track[w].id])
      BY <1>1, <2>4 DEF IsCopy
    <3>4. shown[p][track[w].booking] \in Seq(Points) /\ waypoints[track[w].id] \in Seq(Points)
      BY <1>0, <2>4, PointsTyped
    <3>5. Follows(Append(shown[p][track[w].booking], event[w].point),
                  Append(waypoints[track[w].id], event[w].point))
      BY <2>5, <3>3, <3>4, FollowsOneMore
    <3> QED
      BY <2>2, <2>3, <3>2, <3>5
  <2> QED
    BY <2>3, <2>6, <2>7
<1>6. \A p \in Processes :
        at'[LocationWorker(p)] = "broadcast" =>
          Follows(Append(shown'[p][track'[LocationWorker(p)].booking], event'[LocationWorker(p)].point),
                  waypoints'[track'[LocationWorker(p)].id])
  BY <1>5
<1> QED
  BY <1>4, <1>6 DEF OrderInv, ShownInOrder, Follows, LocationWorker

\* A point that is about to be shown follows what was shown.
LEMMA OrderInvariant == Spec => []OrderInv
<1>1. Init => OrderInv
  <2> SUFFICES ASSUME Init PROVE OrderInv
    OBVIOUS
  <2>1. ShownInOrder
    BY DEF Init, ShownInOrder
  <2>2. \A p \in Processes : at[LocationWorker(p)] = "idle"
    BY LocationWorkers DEF Init
  <2> QED
    BY <2>1, <2>2 DEF OrderInv
<1>2. TrackInv /\ OrderInv /\ [Next]_vars => OrderInv'
  BY OrderStep
<1> QED
  BY <1>1, <1>2, TrackInvariant, PTL DEF Spec

\* What the viewers of a process see of a trip is its stored route in order.
THEOREM ViewersSeeTheRoute == Spec => []ShownInOrder
<1>1. OrderInv => ShownInOrder
  BY DEF OrderInv
<1> QED
  BY <1>1, TrackInvariant, OrderInvariant, PTL

-----------------------------------------------------------------------------
(* A point that is stored once is shown once.                              *)

LEMMA SendsAre ==
  ASSUME NEW b, NEW n, NEW x
  PROVE  x \in Sends(b, n) <=>
           \E p \in Processes : \E i \in 1..Len(shown[p][b]) : shown[p][b][i] = n /\ x = <<p, i>>
  BY DEF Sends

LEMMA StoresAre ==
  ASSUME NEW b, NEW n, NEW x
  PROVE  x \in Stores(b, n) <=>
           \E r \in TracksOf(b) :
             \E i \in 1..Len(waypoints[r.id]) : waypoints[r.id][i] = n /\ x = <<r.id, i>>
  BY DEF Stores

\* The processes about to show a point are finitely many, after a step too.
LEMMA ShowersFinite ==
  ASSUME NEW b, NEW n
  PROVE  /\ IsFiniteSet(Showers(b, n)) /\ Cardinality(Showers(b, n)) \in Nat
         /\ Showers(b, n)' \subseteq Processes
<1>1. Showers(b, n) \subseteq Processes /\ Showers(b, n)' \subseteq Processes
  BY DEF Showers
<1> QED
  BY <1>1, ProcessAssumption, FS_Subset, FS_CardinalityType

\* A worker stores a point of a booking.
AddsTo(w, b, n) == Adds(w) /\ track[w].booking = b /\ event[w].point = n
ShowsTo(w, b, n) == Shows(w) /\ track[w].booking = b /\ event[w].point = n

\* Who is about to show a point after a step.
LEMMA ShowersGrow ==
  ASSUME TrackInv, [Next]_vars, NEW b, NEW n, NEW p \in Showers(b, n)'
  PROVE  \/ p \in Showers(b, n) /\ ~ShowsTo(LocationWorker(p), b, n)
         \/ AddsTo(LocationWorker(p), b, n)
<1>1. /\ p \in Processes /\ at'[LocationWorker(p)] = "broadcast"
      /\ track'[LocationWorker(p)].booking = b /\ event'[LocationWorker(p)].point = n
  BY DEF Showers, LocationWorker
<1>2. LocationWorker(p) \in Workers
  BY <1>1, LocationWorkers
<1> QED
  BY <1>1, <1>2, ShowersFrom DEF Showers, AddsTo, ShowsTo, Shows

\* Sends after a step, of the worker that shows, if one does.
LEMMA SendsStay ==
  ASSUME TrackInv, [Next]_vars, NEW b \in Bookings, NEW n \in Points,
         \A w \in Workers : ~ShowsTo(w, b, n)
  PROVE  Sends(b, n)' = Sends(b, n)
<1>0. TypeOK /\ \A p \in Processes : shown[p][b] \in Seq(Points)
  BY PointsTyped DEF TrackInv
<1>1. ASSUME NEW p \in Processes
      PROVE  \A i : i \in 1..Len(shown'[p][b]) /\ shown'[p][b][i] = n
                      <=> i \in 1..Len(shown[p][b]) /\ shown[p][b][i] = n
  <2>1. CASE shown'[p][b] = shown[p][b]
    BY <2>1
  <2>2. ASSUME NEW w \in Workers, Shows(w), shown'[p][b] # shown[p][b]
        PROVE  \A i : i \in 1..Len(shown'[p][b]) /\ shown'[p][b][i] = n
                        <=> i \in 1..Len(shown[p][b]) /\ shown[p][b][i] = n
    <3>1. /\ track[w].booking = b
          /\ shown'[p][b] = Append(shown[p][b], event[w].point)
      BY <1>0, <2>2 DEF Shows, LocationBroadcast, TypeOK
    <3>2. event[w].point # n /\ event[w].point \in Points
      BY <2>2, <3>1 DEF ShowsTo, Shows
    <3>3. /\ Len(shown'[p][b]) = Len(shown[p][b]) + 1 /\ Len(shown[p][b]) \in Nat
          /\ shown'[p][b][Len(shown[p][b]) + 1] = event[w].point
          /\ \A i \in 1..Len(shown[p][b]) : shown'[p][b][i] = shown[p][b][i]
      BY <1>0, <3>1, <3>2
    <3>4. \A i : i \in 1..Len(shown'[p][b])
                   <=> i \in 1..Len(shown[p][b]) \/ i = Len(shown[p][b]) + 1
      BY <3>3
    <3>5. Len(shown[p][b]) + 1 \notin 1..Len(shown[p][b])
      BY <3>3
    <3> QED
      BY <3>2, <3>3, <3>4, <3>5, Zenon
  <2> QED
    BY <2>1, <2>2, ShownChange
<1>2. ASSUME NEW x PROVE x \in Sends(b, n)' <=> x \in Sends(b, n)
  <2>1. x \in Sends(b, n)' <=>
          \E p \in Processes : \E i \in 1..Len(shown'[p][b]) : shown'[p][b][i] = n /\ x = <<p, i>>
    BY DEF Sends
  <2> QED
    BY <1>1, <2>1, SendsAre
<1> QED
  BY <1>2

LEMMA SendsGrow ==
  ASSUME TrackInv, NEW b \in Bookings, NEW n \in Points, NEW w \in Workers, ShowsTo(w, b, n)
  PROVE  \E x : x \notin Sends(b, n) /\ Sends(b, n)' = Sends(b, n) \cup {x}
<1>0. TypeOK /\ \A p \in Processes : shown[p][b] \in Seq(Points)
  BY PointsTyped DEF TrackInv
<1> DEFINE q == w[1]
           k == Len(shown[q][b]) + 1
<1>1. q \in Processes
  BY DEF Workers
<1>2. shown[q][b] \in Seq(Points)
  BY <1>0, <1>1
<1>3. /\ shown'[q][b] = Append(shown[q][b], n)
      /\ \A p \in Processes \ {q} : shown'[p][b] = shown[p][b]
  BY <1>0, <1>1 DEF ShowsTo, Shows, LocationBroadcast, TypeOK
<1>4. /\ Len(shown'[q][b]) = k /\ Len(shown[q][b]) \in Nat
      /\ shown'[q][b][k] = n
      /\ \A i \in 1..Len(shown[q][b]) : shown'[q][b][i] = shown[q][b][i]
  BY <1>2, <1>3
<1>5. <<q, k>> \notin Sends(b, n)
  BY <1>4, SendsAre
<1>6. ASSUME NEW x PROVE x \in Sends(b, n)' <=> x \in Sends(b, n) \/ x = <<q, k>>
  <2>1. x \in Sends(b, n)' <=>
          \E p \in Processes : \E i \in 1..Len(shown'[p][b]) : shown'[p][b][i] = n /\ x = <<p, i>>
    BY DEF Sends
  <2>2. \A i : i \in 1..k <=> i \in 1..Len(shown[q][b]) \/ i = k
    BY <1>4
  <2>3. (\E i \in 1..Len(shown'[q][b]) : shown'[q][b][i] = n /\ x = <<q, i>>) <=>
          \/ \E i \in 1..Len(shown[q][b]) : shown[q][b][i] = n /\ x = <<q, i>>
          \/ x = <<q, k>>
    BY <1>4, <2>2
  <2>4. x \in Sends(b, n) <=>
          \E p \in Processes : \E i \in 1..Len(shown[p][b]) : shown[p][b][i] = n /\ x = <<p, i>>
    BY SendsAre
  <2>5. \A p \in Processes \ {q} :
          (\E i \in 1..Len(shown'[p][b]) : shown'[p][b][i] = n /\ x = <<p, i>>) <=>
            \E i \in 1..Len(shown[p][b]) : shown[p][b][i] = n /\ x = <<p, i>>
    BY <1>3
  <2> HIDE DEF q, k
  <2> QED
    BY <1>1, <2>1, <2>3, <2>4, <2>5, Zenon
<1>7. Sends(b, n)' = Sends(b, n) \cup {<<q, k>>}
  BY <1>6
<1> QED
  BY <1>5, <1>7

\* What is stored of a booking stays stored, and a track that is inserted
\* brings nothing.
LEMMA StoresStay ==
  ASSUME TrackInv, [Next]_vars, NEW b \in Bookings, NEW n \in Points,
         \A w \in Workers : ~AddsTo(w, b, n)
  PROVE  Stores(b, n)' = Stores(b, n)
<1>0. TypeOK /\ tracks \subseteq TripTrack /\ \A i \in Ids : waypoints[i] \in Seq(Points)
  BY PointsTyped DEF TrackInv, TypeOK
<1>1. \A r \in tracks : \E s \in tracks' : s.id = r.id /\ s.booking = r.booking
  BY TablesGrow DEF IsCopy
<1>2. ASSUME NEW s \in tracks', Len(waypoints[s.id]) # 0
      PROVE  \E r \in tracks : s.id = r.id /\ s.booking = r.booking
  <2>1. CASE \E r \in tracks : IsCopy(s, r)
    BY <2>1 DEF IsCopy
  <2>2. ASSUME NEW w \in Workers, NEW i \in Ids, Inserts(w, i),
               s = NewTripTrack(event[w].booking, i)
        PROVE  FALSE
    <3>1. s.id = i
      BY <2>2, NewTrackTyped DEF Inserts
    <3>2. waypoints[i] = <<>>
      BY <2>2 DEF Inserts, TrackInv, NoStrayPoints
    <3> QED
      BY <1>2, <3>1, <3>2
  <2>3. CASE s \notin tracks
    BY <2>1, <2>2, <2>3, TracksChange, OverwriteKeeps DEF Inserts
  <2>4. CASE s \in tracks
    BY <2>4
  <2> QED
    BY <2>3, <2>4
<1>3. ASSUME NEW r \in tracks, r.booking = b
      PROVE  \A i : i \in 1..Len(waypoints'[r.id]) /\ waypoints'[r.id][i] = n
                      <=> i \in 1..Len(waypoints[r.id]) /\ waypoints[r.id][i] = n
  <2>1. CASE waypoints'[r.id] = waypoints[r.id]
    BY <2>1
  <2>2. ASSUME NEW w \in Workers, Adds(w), waypoints'[r.id] # waypoints[r.id]
        PROVE  \A i : i \in 1..Len(waypoints'[r.id]) /\ waypoints'[r.id][i] = n
                        <=> i \in 1..Len(waypoints[r.id]) /\ waypoints[r.id][i] = n
    <3>0. r.id \in Ids
      BY <1>0, TrackFields
    <3>1. track[w].id = r.id /\ waypoints'[r.id] = Append(waypoints[r.id], event[w].point)
      BY <1>0, <2>2, <3>0 DEF Adds, AddWaypoint
    <3>2. track[w].booking = b
      BY <1>3, <2>2, <3>1 DEF Adds, IsCopy, TrackInv, TracksFit
    <3>3. event[w].point # n /\ event[w].point \in Points
      BY <2>2, <3>2 DEF AddsTo, Adds
    <3>4. /\ Len(waypoints'[r.id]) = Len(waypoints[r.id]) + 1 /\ Len(waypoints[r.id]) \in Nat
          /\ waypoints'[r.id][Len(waypoints[r.id]) + 1] = event[w].point
          /\ \A i \in 1..Len(waypoints[r.id]) : waypoints'[r.id][i] = waypoints[r.id][i]
      BY <1>0, <3>0, <3>1, <3>3
    <3>5. \A i : i \in 1..Len(waypoints'[r.id]) <=>
                   i \in 1..Len(waypoints[r.id]) \/ i = Len(waypoints[r.id]) + 1
      BY <3>4
    <3>6. Len(waypoints[r.id]) + 1 \notin 1..Len(waypoints[r.id])
      BY <3>4
    <3> QED
      BY <3>3, <3>4, <3>5, <3>6, Zenon
  <2> QED
    BY <2>1, <2>2, WaypointsChange
<1>4. ASSUME NEW s \in tracks', s.booking = b, NEW i \in 1..Len(waypoints'[s.id])
      PROVE  \E r \in tracks : s.id = r.id /\ s.booking = r.booking
  <2>1. CASE UNCHANGED waypoints
    BY <1>2, <1>4, <2>1
  <2>2. ASSUME NEW w \in Workers, Adds(w) PROVE tracks' = tracks
    BY <2>2 DEF Adds, LocationAdd
  <2> QED
    BY <1>4, <2>1, <2>2, WaypointsChange
<1>5. ASSUME NEW x PROVE x \in Stores(b, n)' <=> x \in Stores(b, n)
  <2>1. x \in Stores(b, n)' <=>
          \E r \in tracks' : r.booking = b /\
            \E i \in 1..Len(waypoints'[r.id]) : waypoints'[r.id][i] = n /\ x = <<r.id, i>>
    BY DEF Stores, TracksOf
  <2>2. x \in Stores(b, n) <=>
          \E r \in tracks : r.booking = b /\
            \E i \in 1..Len(waypoints[r.id]) : waypoints[r.id][i] = n /\ x = <<r.id, i>>
    BY StoresAre DEF TracksOf
  <2>3. x \in Stores(b, n)' => x \in Stores(b, n)
    BY <1>3, <1>4, <2>1, <2>2
  <2>4. x \in Stores(b, n) => x \in Stores(b, n)'
    BY <1>1, <1>3, <2>1, <2>2
  <2> QED
    BY <2>3, <2>4
<1> QED
  BY <1>5

LEMMA StoresGrow ==
  ASSUME TrackInv, NEW b \in Bookings, NEW n \in Points, NEW w \in Workers, AddsTo(w, b, n)
  PROVE  \E x : x \notin Stores(b, n) /\ Stores(b, n)' = Stores(b, n) \cup {x}
<1>0. TypeOK /\ tracks \subseteq TripTrack /\ \A i \in Ids : waypoints[i] \in Seq(Points)
  BY PointsTyped DEF TrackInv, TypeOK
<1>1. PICK o \in tracks : IsCopy(track[w], o)
  BY DEF AddsTo, Adds
<1>2. /\ o.id = track[w].id /\ o.booking = b /\ o.id \in Ids
      /\ TracksOf(b) = {o} /\ tracks' = tracks
  BY <1>1 DEF AddsTo, Adds, IsCopy, TracksOf, TrackInv, TracksFit, LocationAdd
<1> DEFINE k == Len(waypoints[o.id]) + 1
<1>3. waypoints'[o.id] = Append(waypoints[o.id], n) /\ waypoints[o.id] \in Seq(Points)
  BY <1>0, <1>2 DEF AddsTo, Adds, AddWaypoint, TypeOK
<1>4. /\ Len(waypoints'[o.id]) = k /\ Len(waypoints[o.id]) \in Nat
      /\ waypoints'[o.id][k] = n
      /\ \A i \in 1..Len(waypoints[o.id]) : waypoints'[o.id][i] = waypoints[o.id][i]
  BY <1>3
<1>5. <<o.id, k>> \notin Stores(b, n)
  BY <1>2, <1>4, StoresAre
<1>6. ASSUME NEW x PROVE x \in Stores(b, n)' <=> x \in Stores(b, n) \/ x = <<o.id, k>>
  <2>1. x \in Stores(b, n)' <=>
          \E i \in 1..Len(waypoints'[o.id]) : waypoints'[o.id][i] = n /\ x = <<o.id, i>>
    <3>1. TracksOf(b)' = {o}
      BY <1>2 DEF TracksOf
    <3> QED
      BY <3>1 DEF Stores
  <2>2. x \in Stores(b, n) <=>
          \E i \in 1..Len(waypoints[o.id]) : waypoints[o.id][i] = n /\ x = <<o.id, i>>
    BY <1>2, StoresAre
  <2>3. \A i : i \in 1..k <=> i \in 1..Len(waypoints[o.id]) \/ i = k
    BY <1>4
  <2> QED
    BY <1>4, <2>1, <2>2, <2>3
<1>7. Stores(b, n)' = Stores(b, n) \cup {<<o.id, k>>}
  BY <1>6
<1> QED
  BY <1>5, <1>7

LEMMA ShowStep ==
  ASSUME TrackInv, ShowInv, [Next]_vars
  PROVE  ShowInv'
<1> SUFFICES ASSUME NEW b \in Bookings, NEW n \in Points
             PROVE  /\ IsFiniteSet(Sends(b, n)') /\ IsFiniteSet(Stores(b, n)')
                    /\ Cardinality(Sends(b, n)') + Cardinality(Showers(b, n)')
                         <= Cardinality(Stores(b, n)')
  BY DEF ShowInv
<1> DEFINE S == Sends(b, n)
           T == Stores(b, n)
           U == Showers(b, n)
           S1 == Sends(b, n)'
           T1 == Stores(b, n)'
           U1 == Showers(b, n)'
<1>1. /\ IsFiniteSet(S) /\ IsFiniteSet(T) /\ IsFiniteSet(U) /\ IsFiniteSet(U1)
      /\ Cardinality(S) + Cardinality(U) <= Cardinality(T)
  BY ShowersFinite, ProcessAssumption, FS_Subset DEF ShowInv
<1>2. Cardinality(S) \in Nat /\ Cardinality(T) \in Nat /\ Cardinality(U) \in Nat
  BY <1>1, FS_CardinalityType
<1>3. \A p \in U1 : p \in U \/ AddsTo(LocationWorker(p), b, n)
  BY ShowersGrow
<1>4. CASE (\A w \in Workers : ~ShowsTo(w, b, n)) /\ (\A w \in Workers : ~AddsTo(w, b, n))
  <2>1. S1 = S /\ T1 = T
    BY <1>4, SendsStay, StoresStay
  <2>2. U1 \subseteq U
    BY <1>3, <1>4, LocationWorkers, ShowersFinite
  <2>3. Cardinality(U1) <= Cardinality(U) /\ Cardinality(U1) \in Nat
    BY <1>1, <2>2, FS_Subset, FS_CardinalityType
  <2> HIDE DEF S, T, U, S1, T1, U1
  <2>4. Cardinality(S1) + Cardinality(U1) <= Cardinality(T1)
    BY <1>1, <1>2, <2>1, <2>3
  <2> QED
    BY <1>1, <2>1, <2>4 DEF S1, T1, U1
<1>5. ASSUME NEW w \in Workers, ShowsTo(w, b, n)
      PROVE  IsFiniteSet(S1) /\ IsFiniteSet(T1) /\ Cardinality(S1) + Cardinality(U1) <= Cardinality(T1)
  <2>1. \A v \in Workers : ~AddsTo(v, b, n)
    <3>1. Works(w) /\ \A v \in Workers : Adds(v) => Works(v) /\ at[v] = "add"
      BY <1>5 DEF Adds, ShowsTo, Shows, Works
    <3>2. UNCHANGED waypoints
      BY <1>5 DEF ShowsTo, Shows, LocationBroadcast, database
    <3>3. ASSUME NEW v \in Workers, Adds(v) PROVE FALSE
      <4>1. waypoints'[track[v].id] = Append(waypoints[track[v].id], event[v].point)
        BY <3>3 DEF Adds, AddWaypoint, TrackInv, TypeOK
      <4>2. waypoints[track[v].id] \in Seq(Points) /\ event[v].point \in Points
        BY <3>3 DEF Adds, TrackInv, TypeOK
      <4>3. Len(Append(waypoints[track[v].id], event[v].point)) = Len(waypoints[track[v].id]) + 1
        BY <4>2
      <4>4. Len(waypoints[track[v].id]) \in Nat
        BY <4>2
      <4> QED
        BY <3>2, <4>1, <4>3, <4>4
    <3> QED
      BY <3>3 DEF AddsTo
  <2>2. PICK x : x \notin S /\ S1 = S \cup {x}
    BY <1>5, SendsGrow
  <2>3. T1 = T
    BY <2>1, StoresStay
  <2>4. w[1] \in Processes /\ w = LocationWorker(w[1])
    BY <1>5, LocationsWorker DEF ShowsTo, Shows
  <2>5. w[1] \in U
    BY <1>5, <2>4 DEF ShowsTo, Shows, Showers
  <2>6. w[1] \notin U1
    <3>1. at'[w] # "broadcast"
      BY <1>5 DEF ShowsTo, Shows, LocationBroadcast, Goto, TrackInv, TypeOK
    <3> QED
      BY <2>4, <3>1 DEF Showers, LocationWorker
  <2>7. U1 \subseteq U \ {w[1]}
    BY <1>3, <2>1, <2>6, LocationWorkers, ShowersFinite
  <2> HIDE DEF S, T, U, S1, T1, U1
  <2>8. IsFiniteSet(S1) /\ Cardinality(S1) = Cardinality(S) + 1
    BY <1>1, <2>2, FS_AddElement
  <2>9. IsFiniteSet(U \ {w[1]}) /\ Cardinality(U \ {w[1]}) = Cardinality(U) - 1
    BY <1>1, <2>5, FS_RemoveElement
  <2>10. Cardinality(U1) <= Cardinality(U) - 1 /\ Cardinality(U1) \in Nat
    BY <1>1, <2>7, <2>9, FS_Subset, FS_CardinalityType
  <2> QED
    BY <1>1, <1>2, <2>3, <2>8, <2>10
<1>6. ASSUME \A w \in Workers : ~ShowsTo(w, b, n), NEW w \in Workers, AddsTo(w, b, n)
      PROVE  IsFiniteSet(S1) /\ IsFiniteSet(T1) /\ Cardinality(S1) + Cardinality(U1) <= Cardinality(T1)
  <2>1. S1 = S
    BY <1>6, SendsStay
  <2>2. PICK x : x \notin T /\ T1 = T \cup {x}
    BY <1>6, StoresGrow
  <2>3. ASSUME NEW v \in Workers, AddsTo(v, b, n) PROVE v = w
    <3>1. Works(w) /\ Works(v) /\ at[v] = "add"
      BY <1>6, <2>3 DEF AddsTo, Adds, Works
    <3>2. at'[v] # "add"
      BY <2>3 DEF AddsTo, Adds, LocationAdd, Goto, TrackInv, TypeOK
    <3> QED
      BY <3>1, <3>2, WorkLeaves DEF TrackInv
  <2>4. U1 \subseteq U \cup {w[1]}
    <3>1. \A p \in Processes : LocationWorker(p) = w => p = w[1]
      BY LocationWorkers
    <3> QED
      BY <1>3, <2>3, <3>1, LocationWorkers, ShowersFinite
  <2> HIDE DEF S, T, U, S1, T1, U1
  <2>5. IsFiniteSet(T1) /\ Cardinality(T1) = Cardinality(T) + 1
    BY <1>1, <2>2, FS_AddElement
  <2>6. IsFiniteSet(U \cup {w[1]}) /\ Cardinality(U \cup {w[1]}) <= Cardinality(U) + 1
    <3>1. CASE w[1] \in U
      <4>1. U \cup {w[1]} = U
        BY <3>1
      <4>2. Cardinality(U) <= Cardinality(U) + 1
        BY <1>2
      <4> QED
        BY <1>1, <4>1, <4>2, Zenon
    <3>2. CASE w[1] \notin U
      BY <1>1, <1>2, <3>2, FS_AddElement
    <3> QED
      BY <3>1, <3>2
  <2>7. Cardinality(U1) <= Cardinality(U \cup {w[1]}) /\ Cardinality(U1) \in Nat
    BY <1>1, <2>4, <2>6, FS_Subset, FS_CardinalityType
  <2>8. Cardinality(U \cup {w[1]}) \in Nat
    BY <2>6, FS_CardinalityType
  <2> QED
    BY <1>1, <1>2, <2>1, <2>5, <2>6, <2>7, <2>8
<1> QED
  BY <1>4, <1>5, <1>6

\* A point that is about to be shown is stored once for that.
LEMMA ShowInvariant == Spec => []ShowInv
<1>1. Init => ShowInv
  <2> SUFFICES ASSUME Init, NEW b \in Bookings, NEW n \in Points
               PROVE  /\ IsFiniteSet(Sends(b, n)) /\ IsFiniteSet(Stores(b, n))
                      /\ Cardinality(Sends(b, n)) + Cardinality(Showers(b, n))
                           <= Cardinality(Stores(b, n))
    BY DEF ShowInv
  <2>1. Sends(b, n) = {}
    BY DEF Init, Sends
  <2>2. Stores(b, n) = {}
    BY DEF Init, Stores, TracksOf
  <2>3. Showers(b, n) = {}
    BY LocationWorkers DEF Init, Showers
  <2> QED
    BY <2>1, <2>2, <2>3, FS_EmptySet
<1>2. TrackInv /\ ShowInv /\ [Next]_vars => ShowInv'
  BY ShowStep
<1> QED
  BY <1>1, <1>2, TrackInvariant, PTL DEF Spec

\* Viewers are only shown points that are stored of their booking, each as
\* often, on all the processes together, as it is stored.
THEOREM PointsShownAreStored == Spec => []ShownIsStored
<1>1. ShowInv => ShownIsStored
  <2> SUFFICES ASSUME ShowInv, NEW b \in Bookings, NEW n \in Points
               PROVE  Cardinality(Sends(b, n)) <= Cardinality(Stores(b, n))
    BY DEF ShownIsStored
  <2>1. /\ IsFiniteSet(Sends(b, n)) /\ IsFiniteSet(Stores(b, n))
        /\ Cardinality(Sends(b, n)) + Cardinality(Showers(b, n)) <= Cardinality(Stores(b, n))
    BY DEF ShowInv
  <2>2. /\ Cardinality(Sends(b, n)) \in Nat /\ Cardinality(Stores(b, n)) \in Nat
        /\ Cardinality(Showers(b, n)) \in Nat
    BY <2>1, FS_CardinalityType, ShowersFinite
  <2> QED
    BY <2>1, <2>2
<1> QED
  BY <1>1, TrackInvariant, ShowInvariant, PTL

-----------------------------------------------------------------------------
(* Each process tells of a completion once.                                *)

LEMMA EventsOf ==
  /\ \A b \in Bookings : AcceptedOf(b) \in Accepted /\ AcceptedOf(b).booking = b
  /\ \A b \in Bookings : ConfirmedOf(b) \in Confirmed /\ ConfirmedOf(b).booking = b
  /\ \A e \in Accepted : e.booking \in Bookings /\ e = AcceptedOf(e.booking)
  /\ \A e \in Confirmed : e.booking \in Bookings /\ e = ConfirmedOf(e.booking)
  BY DEF Accepted, Confirmed, AcceptedOf, ConfirmedOf

\* A row is the only one of its booking and of its id.
LEMMA OneRow ==
  ASSUME TrackInv, NEW r \in tracks
  PROVE  /\ r.booking \in Bookings /\ r.id \in Ids /\ TracksOf(r.booking) = {r}
         /\ \A s \in tracks : s.id = r.id \/ s.booking = r.booking => s = r
<1>1. r \in TripTrack
  BY DEF TrackInv, TypeOK
<1>2. \A s \in tracks : s.id = r.id \/ s.booking = r.booking => s = r
  BY DEF TrackInv, TracksFit
<1> QED
  BY <1>1, <1>2, TrackFields DEF TracksOf

\* A worker that completes a trip handles a confirmation.
LEMMA CompletingConfirms ==
  ASSUME TrackInv, NEW w \in Workers, Completing(w)
  PROVE  /\ event[w] \in Confirmed /\ w[2] = "booking" /\ event[w].booking \in Bookings
         /\ track[w] \in TripTrack /\ track[w].booking = event[w].booking
         /\ \E r \in tracks : IsCopy(track[w], r)
<1>1. event[w] # None
  BY DEF Completing, TrackInv, StepsFit
<1>2. event[w] \in Confirmed
  BY <1>1 DEF Completing, TrackInv, StepsFit
<1>3. w[2] = "booking"
  <2>1. w[2] \in {"booking", "runner"}
    BY DEF Workers, Topics
  <2> QED
    BY <1>1, <1>2, <2>1, KindsDisjoint DEF TrackInv, StepsFit
<1>4. event[w] \notin Location
  BY <1>2, KindsDisjoint
<1>5. /\ track[w] \in TripTrack /\ track[w].booking = event[w].booking
      /\ \E r \in tracks : IsCopy(track[w], r)
  BY <1>2, <1>4, HeldCopy DEF Completing
<1> QED
  BY <1>2, <1>3, <1>5, EventsOf

\* The step that tells of a completion.
Finishes(w) ==
  /\ w \in Workers /\ ConfirmedPublish(w) /\ at[w] = "publish" /\ event[w] \in Confirmed
  /\ completed' = [completed EXCEPT ![track[w].booking] = Append(@, track[w].dist)]

LEMMA CompletedChange ==
  ASSUME TrackInv, [Next]_vars
  PROVE  UNCHANGED completed \/ \E w \in Workers : Finishes(w)
<1>1. ASSUME NEW w \in Workers, ConfirmedPublish(w) PROVE UNCHANGED completed \/ Finishes(w)
  <2>1. at[w] = "publish" /\ event[w] \in Confirmed
    BY <1>1, HandledEvent DEF ConfirmedPublish
  <2> QED
    BY <1>1, <2>1 DEF ConfirmedPublish, Finishes
<1>2. ASSUME NEW w \in Workers, Works(w), ~ConfirmedPublish(w) PROVE UNCHANGED completed
  BY <1>2 DEF Works, AcceptedFind, AcceptedSave, AcceptedPublish, LocationFind, LocationAdd,
     LocationBroadcast, LocationPublish, ConfirmedFind, ConfirmedMeasure, ConfirmedUpdate, Ignore,
     world
<1>3. ASSUME NEW w \in Workers, Return(w) PROVE UNCHANGED completed
  BY <1>3 DEF Return, world
<1>4. ASSUME NEW w \in Workers, NEW e \in sent, Take(w, e) PROVE UNCHANGED completed
  BY <1>4 DEF Take, world
<1>5. ASSUME NEW q \in Processes, Crash(q) PROVE UNCHANGED completed
  BY <1>5 DEF Crash, world
<1>6. ASSUME Publishes PROVE UNCHANGED completed
  BY <1>6, PublishedEvent DEF Send, world
<1>7. ASSUME UNCHANGED vars PROVE UNCHANGED completed
  BY <1>7 DEF vars, world
<1> QED
  BY <1>1, <1>2, <1>3, <1>4, <1>5, <1>6, <1>7, StepIs

\* Where a worker that completes a trip comes from.
LEMMA CompletingFrom ==
  ASSUME TrackInv, [Next]_vars, NEW v \in Workers, Completing(v)'
  PROVE  \/ /\ Completing(v) /\ at'[v] = at[v] /\ event'[v] = event[v] /\ track'[v] = track[v]
            /\ ~ConfirmedUpdate(v) /\ ~ConfirmedPublish(v)
         \/ /\ at'[v] = "measure" /\ event'[v] = event[v] /\ event[v] \in Confirmed
            /\ \E r \in TracksOf(event[v].booking) : IsActive(r)
            /\ UNCHANGED <<tracks, completed>>
         \/ /\ at[v] = "measure" /\ at'[v] = "update" /\ event'[v] = event[v]
            /\ UNCHANGED <<tracks, completed>>
         \/ /\ at[v] = "update" /\ at'[v] = "publish" /\ event'[v] = event[v]
            /\ Completes(v) /\ track'[v] = track[v] /\ UNCHANGED completed
<1>0. TypeOK
  BY DEF TrackInv
<1>1. \A s : Goto(v, s) => at'[v] = s
  BY <1>0 DEF Goto, TypeOK
<1>2. ASSUME at'[v] = at[v], event'[v] = event[v], track'[v] = track[v]
      PROVE  Completing(v) /\ ~ConfirmedUpdate(v) /\ ~ConfirmedPublish(v)
  <2>1. ConfirmedUpdate(v) => at[v] = "update" /\ at'[v] \in {"publish", "failed"}
    BY <1>1 DEF ConfirmedUpdate, Handles
  <2>2. ConfirmedPublish(v) => at[v] = "publish" /\ at'[v] = "returned"
    BY <1>1 DEF ConfirmedPublish, Handles
  <2> QED
    BY <1>2, <2>1, <2>2 DEF Completing
<1>3. ASSUME Works(v), event'[v] = event[v]
      PROVE  \/ /\ at'[v] = "measure" /\ event[v] \in Confirmed
                /\ \E r \in TracksOf(event[v].booking) : IsActive(r)
                /\ UNCHANGED <<tracks, completed>>
             \/ at[v] = "measure" /\ at'[v] = "update" /\ UNCHANGED <<tracks, completed>>
             \/ /\ at[v] = "update" /\ at'[v] = "publish"
                /\ Completes(v) /\ track'[v] = track[v] /\ UNCHANGED completed
  <2>1. event[v] # None
    BY <1>3, WorkGoes
  <2>2. event[v] \in Confirmed
    <3>1. /\ event[v] \in Accepted => at'[v] \in {"save", "publish", "returned", "failed"}
          /\ event[v] \in Location => at'[v] \in {"add", "broadcast", "publish", "returned",
                                                  "failed"}
          /\ event[v] \in Unknown  => at'[v] \in {"returned", "failed"}
      BY <1>3, WorkGoes
    <3>2. event[v] \in Accepted \cup Confirmed \cup Location \cup Unknown
      BY <1>0, <2>1 DEF TypeOK, Event
    <3>3. event[v] \notin Confirmed => at'[v] \in {"measure", "update"}
      BY <1>3 DEF Completing
    <3> QED
      BY <3>1, <3>2, <3>3
  <2>3. at'[v] \in {"measure", "update", "publish"}
    BY DEF Completing
  <2>4. ~(AcceptedFind(v) \/ AcceptedSave(v) \/ AcceptedPublish(v) \/ Ignore(v))
    BY <2>2, HandledEvent, KindsDisjoint DEF AcceptedFind, AcceptedSave, AcceptedPublish, Ignore
  <2>5. ~(LocationFind(v) \/ LocationAdd(v) \/ LocationBroadcast(v) \/ LocationPublish(v))
    BY <2>2, HandledEvent, KindsDisjoint
       DEF LocationFind, LocationAdd, LocationBroadcast, LocationPublish
  <2>6. CASE ConfirmedFind(v)
    BY <1>1, <2>2, <2>3, <2>6 DEF ConfirmedFind, database, world
  <2>7. CASE ConfirmedMeasure(v)
    BY <1>1, <2>3, <2>7 DEF ConfirmedMeasure, TryComplete, Handles, database, world
  <2>8. CASE ConfirmedUpdate(v)
    <3>1. at[v] = "update" /\ track' = track /\ UNCHANGED completed
      BY <2>8 DEF ConfirmedUpdate, Handles, world
    <3>2. at'[v] = "publish" /\ Overwrite(track[v])
      BY <1>1, <2>3, <2>8 DEF ConfirmedUpdate
    <3>3. /\ track[v] \in TripTrack /\ track[v].status = "completed"
          /\ track[v].booking = event[v].booking
          /\ \E r \in tracks : IsCopy(track[v], r)
      BY <2>2, <3>1 DEF TrackInv, CopiesFit
    <3> QED
      BY <2>2, <2>8, <3>1, <3>2, <3>3 DEF Completes
  <2>9. CASE ConfirmedPublish(v)
    BY <1>1, <2>3, <2>9 DEF ConfirmedPublish
  <2> QED
    BY <1>3, <2>4, <2>5, <2>6, <2>7, <2>8, <2>9 DEF Works
<1>4. at'[v] \notin {"idle", "find", "stopped"}
  BY DEF Completing
<1> QED
  BY <1>0, <1>2, <1>3, <1>4, WorkerStep

\* The processes about to tell of a booking's completion are finitely many.
LEMMA TellersFinite ==
  ASSUME NEW b
  PROVE  /\ IsFiniteSet(Tellers(b)) /\ Cardinality(Tellers(b)) \in Nat
         /\ Cardinality(Tellers(b)') \in Nat
         /\ Cardinality(Tellers(b)') <= Cardinality(Processes)
         /\ Cardinality(Processes) \in Nat
<1>1. Tellers(b) \subseteq Processes /\ Tellers(b)' \subseteq Processes
  BY DEF Tellers
<1> QED
  BY <1>1, ProcessAssumption, FS_Subset, FS_CardinalityType

\* A worker that completes a trip is one of its booking's tellers.
LEMMA CompletingTells ==
  ASSUME TrackInv, NEW w \in Workers, Completing(w)
  PROVE  w[1] \in Tellers(event[w].booking) /\ w = <<w[1], "booking">>
<1>1. w[2] = "booking"
  BY CompletingConfirms
<1>2. w[1] \in Processes /\ w = <<w[1], "booking">>
  BY <1>1 DEF Workers
<1> QED
  BY <1>2 DEF Tellers

\* Of a completed trip no new process is about to tell.
LEMMA TellersShrink ==
  ASSUME TrackInv, [Next]_vars, NEW r \in tracks, ~IsActive(r)
  PROVE  Tellers(r.booking)' \subseteq Tellers(r.booking)
<1>1. ASSUME NEW p \in Processes, NEW v, v = <<p, "booking">>,
             Completing(v)', event'[v].booking = r.booking
      PROVE  Completing(v) /\ event[v].booking = r.booking
  <2>1. v \in Workers
    BY <1>1 DEF Workers, Topics
  <2>2. ~\E s \in TracksOf(r.booking) : IsActive(s)
    BY OneRow
  <2>3. at[v] \in {"measure", "update"} => Completing(v)
    BY DEF Completing
  <2> QED
    BY <1>1, <2>1, <2>2, <2>3, CompletingFrom
<1> QED
  BY <1>1 DEF Tellers, Completing

\* A trip that is completed stays so.
LEMMA ClosedStays ==
  ASSUME TrackInv, [Next]_vars, NEW r \in tracks, ~IsActive(r)
  PROVE  /\ \A s \in tracks' : s.booking = r.booking => ~IsActive(s)
         /\ \E s \in tracks' : s.booking = r.booking
<1>1. ASSUME NEW s \in tracks', s.booking = r.booking PROVE ~IsActive(s)
  <2>1. CASE s \in tracks
    BY <1>1, <2>1, OneRow
  <2>2. ASSUME NEW w \in Workers, NEW i \in Ids, Inserts(w, i),
               s = NewTripTrack(event[w].booking, i)
        PROVE  FALSE
    <3>1. s.booking = event[w].booking
      BY <2>2, NewTrackTyped DEF Inserts
    <3> QED
      BY <1>1, <2>2, <3>1 DEF Inserts, Conflict, TracksOf
  <2>3. ASSUME NEW w \in Workers, Completes(w), s = track[w] PROVE ~IsActive(s)
    BY <2>3 DEF Completes, IsActive
  <2> QED
    BY <2>1, <2>2, <2>3, TracksChange, OverwriteKeeps DEF Inserts
<1>2. \E s \in tracks' : s.booking = r.booking
  BY TablesGrow DEF IsCopy
<1> QED
  BY <1>1, <1>2

\* What ToldInv says of a completed booking.
Told(b) == Len(completed[b]) + Cardinality(Tellers(b)) <= Cardinality(Processes)

\* A completed trip's room is kept, or becomes that of one process less.
LEMMA ToldStays ==
  ASSUME TrackInv, [Next]_vars, NEW o \in tracks, ~IsActive(o), Told(o.booking)
  PROVE  Told(o.booking)'
<1> DEFINE N == Cardinality(Processes)
<1>0. PICK b \in Bookings : b = o.booking
  BY OneRow
<1>1. /\ Cardinality(Tellers(b)) \in Nat /\ Cardinality(Tellers(b)') \in Nat /\ N \in Nat
      /\ IsFiniteSet(Tellers(b))
  BY TellersFinite
<1>2. completed[b] \in Seq(Distances) /\ Len(completed[b]) \in Nat
  <2>1. completed[b] \in Seq(Distances)
    BY DEF TrackInv, TypeOK
  <2> QED
    BY <2>1
<1>3. Tellers(b)' \subseteq Tellers(b)
  BY <1>0, TellersShrink
<1>4. Cardinality(Tellers(b)') <= Cardinality(Tellers(b))
  BY <1>1, <1>3, FS_Subset
<1>5. Len(completed[b]) + Cardinality(Tellers(b)) <= N
  BY <1>0 DEF Told
<1>6. CASE completed'[b] = completed[b]
  <2> HIDE DEF N
  <2>1. Len(completed'[b]) + Cardinality(Tellers(b)') <= N
    BY <1>1, <1>2, <1>4, <1>5, <1>6
  <2> QED
    BY <1>0, <2>1 DEF Told, N
<1>7. ASSUME NEW w \in Workers, Finishes(w), completed'[b] # completed[b]
      PROVE  Told(b)'
  <2>1. Completing(w)
    BY <1>7 DEF Finishes, Completing
  <2>2. /\ track[w].booking = event[w].booking /\ event[w].booking \in Bookings
        /\ track[w] \in TripTrack
    BY <2>1, CompletingConfirms
  <2>3. event[w].booking = b /\ completed'[b] = Append(completed[b], track[w].dist)
    BY <1>7, <2>2 DEF Finishes, TrackInv, TypeOK
  <2>4. Len(completed'[b]) = Len(completed[b]) + 1
    BY <1>2, <2>2, <2>3, TrackFields
  <2>5. w[1] \in Tellers(b) /\ w = <<w[1], "booking">>
    BY <2>1, <2>3, CompletingTells
  <2>6. w[1] \notin Tellers(b)'
    <3>1. at'[w] = "returned"
      BY <1>7 DEF Finishes, ConfirmedPublish, Goto, TrackInv, TypeOK
    <3>2. ~Completing(w)'
      BY <3>1 DEF Completing
    <3> QED
      BY <2>5, <3>2 DEF Tellers, Completing
  <2>7. Tellers(b)' \subseteq Tellers(b) \ {w[1]}
    BY <1>3, <2>6
  <2>8. /\ IsFiniteSet(Tellers(b) \ {w[1]})
        /\ Cardinality(Tellers(b) \ {w[1]}) = Cardinality(Tellers(b)) - 1
    BY <1>1, <2>5, FS_RemoveElement
  <2>9. Cardinality(Tellers(b)') <= Cardinality(Tellers(b)) - 1
    BY <2>7, <2>8, FS_Subset
  <2> HIDE DEF N
  <2>10. Len(completed'[b]) + Cardinality(Tellers(b)') <= N
    BY <1>1, <1>2, <1>5, <2>4, <2>9
  <2> QED
    BY <2>10 DEF Told, N
<1>8. completed'[b] = completed[b] \/ \E w \in Workers : Finishes(w)
  BY CompletedChange
<1> QED
  BY <1>0, <1>6, <1>7, <1>8

LEMMA ToldStep ==
  ASSUME TrackInv, ToldInv, [Next]_vars
  PROVE  ToldInv'
<1>0. /\ \A b \in Bookings : completed[b] # <<>> =>
           \E r \in tracks : r.booking = b /\ ~IsActive(r)
      /\ \A w \in Workers : at[w] = "publish" /\ event[w] \in Confirmed =>
           \A r \in tracks : r.booking = event[w].booking => ~IsActive(r)
      /\ \A r \in tracks : ~IsActive(r) => Told(r.booking)
  BY DEF ToldInv, Told, TracksOf
\* A worker that is to tell of a completion tells of a row that is completed.
<1>1. ASSUME NEW w \in Workers, at[w] = "publish", event[w] \in Confirmed
      PROVE  \E o \in tracks : /\ o.booking = event[w].booking /\ ~IsActive(o)
                               /\ o.booking = track[w].booking
  BY <1>0, <1>1, CompletingConfirms DEF Completing, IsCopy
<1>2. ASSUME NEW b \in Bookings, completed'[b] # <<>>
      PROVE  \E r \in tracks' : r.booking = b /\ ~IsActive(r)
  <2>1. ASSUME NEW w \in Workers, Finishes(w), completed[b] = <<>>
        PROVE  \E o \in tracks : o.booking = b /\ ~IsActive(o)
    <3>1. b = track[w].booking
      BY <1>2, <2>1 DEF Finishes, TrackInv, TypeOK
    <3> QED
      BY <1>1, <2>1, <3>1 DEF Finishes
  <2>2. \E o \in tracks : o.booking = b /\ ~IsActive(o)
    BY <1>0, <1>2, <2>1, CompletedChange
  <2> QED
    BY <2>2, ClosedStays
<1>3. ASSUME NEW v \in Workers, at'[v] = "publish", event'[v] \in Confirmed,
             NEW r \in tracks', r.booking = event'[v].booking
      PROVE  ~IsActive(r)
  <2>0. Completing(v)' /\ at'[v] \notin {"measure", "update"}
    BY <1>3 DEF Completing
  <2>1. CASE Completing(v) /\ at'[v] = at[v] /\ event'[v] = event[v]
    BY <1>1, <1>3, <2>1, ClosedStays
  <2>2. CASE event'[v] = event[v] /\ Completes(v)
    <3>1. PICK o \in tracks : IsCopy(track[v], o)
      BY <2>2 DEF Completes
    <3>2. r \in tracks => r = o
      BY <1>3, <2>2, <3>1, OneRow DEF Completes, IsCopy
    <3>3. r = track[v]
      BY <2>2, <3>1, <3>2 DEF Completes, Overwrite, IsCopy
    <3> QED
      BY <2>2, <3>3 DEF Completes, IsActive
  <2> QED
    BY <2>0, <2>1, <2>2, CompletingFrom
<1>4. ASSUME NEW r \in tracks', ~IsActive(r) PROVE Told(r.booking)'
  <2>1. ASSUME NEW o \in tracks, o.booking = r.booking, ~IsActive(o) PROVE Told(r.booking)'
    <3>1. Told(o.booking)'
      BY <1>0, <2>1, ToldStays
    <3> QED
      BY <2>1, <3>1
  <2>2. ASSUME NEW w \in Workers, NEW i \in Ids, Inserts(w, i) PROVE r \in tracks
    BY <1>4, <2>2, NewTrackTyped DEF Inserts, IsActive
  <2>3. ASSUME NEW w \in Workers, Completes(w), NEW o \in tracks, o.booking = r.booking,
               IsActive(o)
        PROVE  Told(r.booking)'
    <3>1. PICK b \in Bookings : b = r.booking
      BY <2>3, OneRow
    <3>2. completed[b] = <<>>
      BY <1>0, <2>3, <3>1, OneRow
    <3>3. completed'[b] = <<>>
      BY <2>3, <3>2 DEF Completes, ConfirmedUpdate, world
    <3>4. Len(completed'[b]) = 0
      BY <3>3
    <3>5. /\ Cardinality(Tellers(b)') \in Nat
          /\ Cardinality(Tellers(b)') <= Cardinality(Processes)
      BY TellersFinite
    <3>6. 0 + Cardinality(Tellers(b)') = Cardinality(Tellers(b)')
      BY <3>5
    <3> QED
      BY <3>1, <3>4, <3>5, <3>6 DEF Told
  <2>4. r \in tracks \/ \E w \in Workers : Completes(w)
    BY <2>2, TracksChange
  <2>5. ASSUME NEW w \in Workers, Completes(w) PROVE Told(r.booking)'
    <3>1. PICK o \in tracks : IsCopy(r, o)
      BY <2>5, OverwriteKeeps
    <3> QED
      BY <2>1, <2>3, <2>5, <3>1 DEF IsCopy
  <2> QED
    BY <1>4, <2>1, <2>4, <2>5
<1> QED
  BY <1>2, <1>3, <1>4 DEF ToldInv, Told, TracksOf, IsActive

\* Of a completed trip there is room for what is still to be told.
LEMMA ToldInvariant == Spec => []ToldInv
<1>1. Init => ToldInv
  BY KindsDisjoint DEF Init, ToldInv
<1>2. TrackInv /\ ToldInv /\ [Next]_vars => ToldInv'
  BY ToldStep
<1> QED
  BY <1>1, <1>2, TrackInvariant, PTL DEF Spec

-----------------------------------------------------------------------------
\* The invariants of the tracks hold for any number of processes, whatever the
\* order of the topics and whatever the consumer does with a failed event.
THEOREM TracksAreSafe == Spec => []TrackSafe
<1>1. TrackInv /\ StartInv /\ LateInv /\ OrderInv /\ ShowInv /\ ToldInv => TrackSafe
  BY DEF TrackSafe
<1> QED
  BY <1>1, TrackInvariant, StartInvariant, LateInvariant, OrderInvariant, ShowInvariant,
     ToldInvariant, PTL

-----------------------------------------------------------------------------
(* The life cycle of a trip.                                               *)

\* Storing a point adds it to the points of its track, and to no other's.
LEMMA AddsPoint ==
  ASSUME TrackInv, NEW w \in Workers, Adds(w), NEW i \in Ids
  PROVE  /\ track[w].id # i => waypoints'[i] = waypoints[i]
         /\ track[w].id = i =>
              /\ Len(waypoints'[i]) = Len(waypoints[i]) + 1
              /\ PointsOf(i)' = PointsOf(i) \cup {event[w].point}
<1>1. waypoints \in [Ids -> Seq(Points)] /\ waypoints[i] \in Seq(Points)
  BY DEF TrackInv, TypeOK
<1>2. event[w].point \in Points
  BY DEF Adds
<1>3. ASSUME track[w].id = i
      PROVE  /\ Len(waypoints'[i]) = Len(waypoints[i]) + 1
             /\ PointsOf(i)' = PointsOf(i) \cup {event[w].point}
  <2>1. waypoints'[i] = Append(waypoints[i], event[w].point)
    BY <1>1, <1>3 DEF Adds, AddWaypoint
  <2> DEFINE k == Len(waypoints[i])
  <2>2. /\ Len(waypoints'[i]) = k + 1 /\ k \in Nat
        /\ waypoints'[i][k + 1] = event[w].point
        /\ \A n \in 1..k : waypoints'[i][n] = waypoints[i][n]
    BY <1>1, <1>2, <2>1
  <2>3. \A n : n \in 1..(k + 1) <=> n \in 1..k \/ n = k + 1
    BY <2>2
  <2>4. PointsOf(i)' = {waypoints'[i][n] : n \in 1..(k + 1)}
    BY <2>2 DEF PointsOf
  <2> QED
    BY <2>2, <2>3, <2>4 DEF PointsOf
<1>4. track[w].id # i => waypoints'[i] = waypoints[i]
  BY <1>1 DEF Adds, AddWaypoint
<1> QED
  BY <1>3, <1>4

\* The variables of the life cycle.
TripDist(b)  == UNION {s.dist : s \in TracksOf(b)}
TripRoute(b) == UNION {PointsOf(s.id) : s \in TracksOf(b)}
Trips  == [b \in Bookings |-> Trip(b)]
Dists  == [b \in Bookings |-> TripDist(b)]
Routes == [b \in Bookings |-> TripRoute(b)]

\* What the life cycle sees of a booking: its row, if there is one.
LEMMA TripOf ==
  ASSUME NEW b
  PROVE  /\ TracksOf(b) = {} => Trip(b) = "none" /\ TripDist(b) = {} /\ TripRoute(b) = {}
         /\ \A r : TracksOf(b) = {r} =>
              Trip(b) = r.status /\ TripDist(b) = r.dist /\ TripRoute(b) = PointsOf(r.id)
<1>1. ASSUME TracksOf(b) = {} PROVE Trip(b) = "none" /\ TripDist(b) = {} /\ TripRoute(b) = {}
  BY <1>1 DEF Trip, TripDist, TripRoute
<1>2. ASSUME NEW r, TracksOf(b) = {r}
      PROVE  Trip(b) = r.status /\ TripDist(b) = r.dist /\ TripRoute(b) = PointsOf(r.id)
  <2>1. Trip(b) = r.status
    BY <1>2 DEF Trip
  <2>2. TripDist(b) = r.dist
    BY <1>2 DEF TripDist
  <2>3. TripRoute(b) = PointsOf(r.id)
    BY <1>2 DEF TripRoute
  <2> QED
    BY <2>1, <2>2, <2>3
<1> QED
  BY <1>1, <1>2

\* The same, after a step.
LEMMA TripOfNext ==
  ASSUME NEW b
  PROVE  /\ TracksOf(b)' = {} => Trip(b)' = "none" /\ TripDist(b)' = {} /\ TripRoute(b)' = {}
         /\ \A r : TracksOf(b)' = {r} =>
              Trip(b)' = r.status /\ TripDist(b)' = r.dist /\ TripRoute(b)' = PointsOf(r.id)'
<1>1. ASSUME TracksOf(b)' = {} PROVE Trip(b)' = "none" /\ TripDist(b)' = {} /\ TripRoute(b)' = {}
  BY <1>1 DEF Trip, TripDist, TripRoute
<1>2. ASSUME NEW r, TracksOf(b)' = {r}
      PROVE  Trip(b)' = r.status /\ TripDist(b)' = r.dist /\ TripRoute(b)' = PointsOf(r.id)'
  <2>1. Trip(b)' = r.status
    BY <1>2 DEF Trip
  <2>2. TripDist(b)' = r.dist
    BY <1>2 DEF TripDist
  <2>3. TripRoute(b)' = PointsOf(r.id)'
    BY <1>2 DEF TripRoute
  <2> QED
    BY <2>1, <2>2, <2>3
<1> QED
  BY <1>1, <1>2

LEMMA LifecycleIs ==
  /\ Lifecycle!vars = <<Trips, Dists, Routes, started, completed>>
  /\ \A b \in Bookings : Lifecycle!Start(b) <=>
       /\ Trips[b] = "none"
       /\ Trips' = [Trips EXCEPT ![b] = "active"]
       /\ UNCHANGED <<Dists, Routes, started, completed>>
  /\ \A b \in Bookings : \A n \in Points : Lifecycle!Gather(b, n) <=>
       /\ Trips[b] # "none"
       /\ Routes' = [Routes EXCEPT ![b] = @ \cup {n}]
       /\ UNCHANGED <<Trips, Dists, started, completed>>
  /\ \A b \in Bookings : \A d \in Distances : Lifecycle!Complete(b, d) <=>
       /\ Trips[b] = "active"
       /\ d \subseteq Routes[b]
       /\ Trips' = [Trips EXCEPT ![b] = "completed"]
       /\ Dists' = [Dists EXCEPT ![b] = d]
       /\ UNCHANGED <<Routes, started, completed>>
  /\ \A b \in Bookings : Lifecycle!AnnounceStart(b) <=>
       /\ Trips[b] # "none"
       /\ started[b] = 0
       /\ started' = [started EXCEPT ![b] = 1]
       /\ UNCHANGED <<Trips, Dists, Routes, completed>>
  /\ \A b \in Bookings : Lifecycle!AnnounceCompletion(b) <=>
       /\ Trips[b] = "completed"
       /\ completed[b] = <<>>
       /\ completed' = [completed EXCEPT ![b] = <<Dists[b]>>]
       /\ UNCHANGED <<Trips, Dists, Routes, started>>
<1>1. Lifecycle!vars = <<Trips, Dists, Routes, started, completed>>
  BY DEF Lifecycle!vars, Trips, Dists, Routes, TripDist, TripRoute
<1> QED
  BY <1>1 DEF Lifecycle!Start, Lifecycle!Gather, Lifecycle!Complete, Lifecycle!AnnounceStart,
     Lifecycle!AnnounceCompletion, Trips, Dists, Routes, TripDist, TripRoute

\* Both life cycles have the distances of the tracks.
LEMMA DistancesAre == Lifecycle!Distances = Distances /\ Shared!Distances = Distances
<1>1. /\ \A S : Lifecycle!Cardinality(S) = Cardinality(S)
      /\ \A S : Shared!Cardinality(S) = Cardinality(S)
  BY DEF Lifecycle!Cardinality, Shared!Cardinality, Cardinality
<1> QED
  BY <1>1 DEF Lifecycle!Distances, Shared!Distances, Distances

\* The life cycle that several processes share has the steps of the other,
\* and two of its own.
LEMMA SharedIs ==
  /\ Shared!vars = Lifecycle!vars
  /\ Shared!Init <=> Lifecycle!Init
  /\ \A b \in Bookings : Shared!Start(b) <=> Lifecycle!Start(b)
  /\ \A b \in Bookings : Shared!AnnounceStart(b) <=> Lifecycle!AnnounceStart(b)
  /\ \A b \in Bookings : \A n \in Points : Shared!Gather(b, n) <=> Lifecycle!Gather(b, n)
  /\ \A b \in Bookings : \A d \in Distances :
       Shared!Complete(b, d) <=> Lifecycle!Complete(b, d)
  /\ \A b \in Bookings : \A d \in Distances : Shared!Recomplete(b, d) <=>
       /\ Trips[b] = "completed"
       /\ d \subseteq Routes[b]
       /\ Dists' = [Dists EXCEPT ![b] = d]
       /\ UNCHANGED <<Trips, Routes, started, completed>>
  /\ \A b \in Bookings : \A d \in Distances : Shared!AnnounceOwn(b, d) <=>
       /\ Trips[b] = "completed"
       /\ d \subseteq Routes[b]
       /\ Len(completed[b]) < Cardinality(Processes)
       /\ completed' = [completed EXCEPT ![b] = Append(@, d)]
       /\ UNCHANGED <<Trips, Dists, Routes, started>>
<1>1. Shared!vars = Lifecycle!vars /\ (Shared!Init <=> Lifecycle!Init)
  BY DEF Shared!vars, Lifecycle!vars, Shared!Init, Lifecycle!Init
<1>2. \A b \in Bookings : /\ Shared!Start(b) <=> Lifecycle!Start(b)
                          /\ Shared!AnnounceStart(b) <=> Lifecycle!AnnounceStart(b)
  BY DEF Shared!Start, Lifecycle!Start, Shared!AnnounceStart, Lifecycle!AnnounceStart
<1>3. \A b \in Bookings : \A n \in Points : Shared!Gather(b, n) <=> Lifecycle!Gather(b, n)
  BY DEF Shared!Gather, Lifecycle!Gather
<1>4. \A b \in Bookings : \A d \in Distances :
        Shared!Complete(b, d) <=> Lifecycle!Complete(b, d)
  BY DEF Shared!Complete, Lifecycle!Complete
<1>5. \A b \in Bookings : \A d \in Distances : Shared!Recomplete(b, d) <=>
        /\ Trips[b] = "completed"
        /\ d \subseteq Routes[b]
        /\ Dists' = [Dists EXCEPT ![b] = d]
        /\ UNCHANGED <<Trips, Routes, started, completed>>
  BY DEF Shared!Recomplete, Trips, Dists, Routes, TripDist, TripRoute
<1>6. \A b \in Bookings : \A d \in Distances : Shared!AnnounceOwn(b, d) <=>
        /\ Trips[b] = "completed"
        /\ d \subseteq Routes[b]
        /\ Len(completed[b]) < Cardinality(Processes)
        /\ completed' = [completed EXCEPT ![b] = Append(@, d)]
        /\ UNCHANGED <<Trips, Dists, Routes, started>>
  <2>1. Shared!Cardinality(Processes) = Cardinality(Processes)
    BY DEF Shared!Cardinality, Cardinality
  <2> QED
    BY <2>1 DEF Shared!AnnounceOwn, Trips, Dists, Routes, TripDist, TripRoute
<1> QED
  BY <1>1, <1>2, <1>3, <1>4, <1>5, <1>6

\* A booking whose row and whose points stay keeps its trip.
LEMMA TripStays ==
  ASSUME TrackInv, NEW b, TracksOf(b)' = TracksOf(b),
         \A r \in TracksOf(b) : PointsOf(r.id)' = PointsOf(r.id)
  PROVE  Trip(b)' = Trip(b) /\ TripDist(b)' = TripDist(b) /\ TripRoute(b)' = TripRoute(b)
<1>1. CASE TracksOf(b) = {}
  BY <1>1, TripOf, TripOfNext
<1>2. ASSUME NEW r \in TracksOf(b)
      PROVE  Trip(b)' = Trip(b) /\ TripDist(b)' = TripDist(b) /\ TripRoute(b)' = TripRoute(b)
  <2>1. r \in tracks /\ r.booking = b
    BY DEF TracksOf
  <2>2. TracksOf(b) = {r} /\ TracksOf(b)' = {r} /\ PointsOf(r.id)' = PointsOf(r.id)
    BY <1>2, <2>1, OneRow
  <2>3. Trip(b) = r.status /\ TripDist(b) = r.dist /\ TripRoute(b) = PointsOf(r.id)
    BY <2>2, TripOf
  <2>4. Trip(b)' = r.status /\ TripDist(b)' = r.dist /\ TripRoute(b)' = PointsOf(r.id)'
    BY <2>2, TripOfNext
  <2> QED
    BY <2>2, <2>3, <2>4
<1> QED
  BY <1>1, <1>2

\* A row that is inserted starts a trip.
LEMMA InsertStarts ==
  ASSUME TrackInv, NEW w \in Workers, NEW i \in Ids, Inserts(w, i)
  PROVE  Lifecycle!Start(event[w].booking)
<1> DEFINE a == NewTripTrack(event[w].booking, i)
<1>1. PICK b \in Bookings : b = event[w].booking
  BY DEF Inserts
<1>2. /\ tracks' = tracks \cup {a} /\ waypoints' = waypoints
      /\ started' = started /\ completed' = completed /\ TracksOf(b) = {}
  BY <1>1 DEF Inserts, AcceptedSave, Conflict, world
<1>3. a.booking = b /\ a.id = i /\ a.status = "active" /\ a.dist = {}
  BY <1>1, NewTrackTyped
<1> HIDE DEF a
<1>4. TracksOf(b)' = {a}
  BY <1>2, <1>3 DEF TracksOf
<1>5. PointsOf(i)' = {}
  <2>1. waypoints[i] = <<>>
    BY DEF Inserts, TrackInv, NoStrayPoints
  <2> QED
    BY <1>2, <2>1 DEF PointsOf
<1>6. Trip(b) = "none" /\ TripDist(b) = {} /\ TripRoute(b) = {}
  BY <1>2, TripOf
<1>7. Trip(b)' = "active" /\ TripDist(b)' = {} /\ TripRoute(b)' = {}
  BY <1>3, <1>4, <1>5, TripOfNext
<1>8. ASSUME NEW c \in Bookings, c # b
      PROVE  Trip(c)' = Trip(c) /\ TripDist(c)' = TripDist(c) /\ TripRoute(c)' = TripRoute(c)
  <2>1. TracksOf(c)' = TracksOf(c)
    BY <1>2, <1>3, <1>8 DEF TracksOf
  <2>2. \A r \in TracksOf(c) : PointsOf(r.id)' = PointsOf(r.id)
    BY <1>2 DEF PointsOf
  <2> QED
    BY <2>1, <2>2, TripStays
<1>9. /\ Trips[b] = "none" /\ Trips' = [Trips EXCEPT ![b] = "active"]
      /\ Dists' = Dists /\ Routes' = Routes
  BY <1>6, <1>7, <1>8 DEF Trips, Dists, Routes
<1> QED
  BY <1>1, <1>2, <1>9, LifecycleIs

\* A point that is stored is gathered.
LEMMA AddGathers ==
  ASSUME TrackInv, NEW w \in Workers, Adds(w)
  PROVE  \E b \in Bookings : \E n \in Points : Lifecycle!Gather(b, n)
<1>1. PICK r \in tracks : IsCopy(track[w], r)
  BY DEF Adds
<1>2. PICK b \in Bookings, n \in Points, i \in Ids :
        b = r.booking /\ n = event[w].point /\ i = r.id /\ TracksOf(b) = {r}
  BY OneRow DEF Adds
<1>3. tracks' = tracks /\ started' = started /\ completed' = completed
  BY DEF Adds, LocationAdd, world
<1>4. PointsOf(i)' = PointsOf(i) \cup {n}
  BY <1>1, <1>2, AddsPoint DEF IsCopy
<1>5. Trip(b) = r.status /\ TripDist(b) = r.dist /\ TripRoute(b) = PointsOf(i)
  BY <1>2, TripOf
<1>6. TracksOf(b)' = {r}
  BY <1>2, <1>3 DEF TracksOf
<1>7. Trip(b)' = r.status /\ TripDist(b)' = r.dist /\ TripRoute(b)' = PointsOf(i)'
  <2>1. PointsOf(r.id)' = PointsOf(i)'
    BY <1>2 DEF PointsOf
  <2> QED
    BY <1>6, <2>1, TripOfNext
<1>8. ASSUME NEW c \in Bookings, c # b
      PROVE  Trip(c)' = Trip(c) /\ TripDist(c)' = TripDist(c) /\ TripRoute(c)' = TripRoute(c)
  <2>1. TracksOf(c)' = TracksOf(c)
    BY <1>3 DEF TracksOf
  <2>2. ASSUME NEW s \in TracksOf(c) PROVE PointsOf(s.id)' = PointsOf(s.id)
    <3>1. s \in tracks /\ s # r
      BY <1>2, <1>8 DEF TracksOf
    <3>2. PICK j \in Ids : j = s.id
      BY <3>1, OneRow
    <3>3. track[w].id # j
      BY <1>1, <3>1, <3>2, OneRow DEF IsCopy
    <3>4. waypoints'[j] = waypoints[j]
      BY <3>3, AddsPoint
    <3> QED
      BY <3>2, <3>4 DEF PointsOf
  <2> QED
    BY <2>1, <2>2, TripStays
<1>9. r.status # "none"
  BY <1>1, TrackFields DEF TrackInv, TypeOK, Statuses
<1>10. /\ Trips[b] # "none" /\ Routes' = [Routes EXCEPT ![b] = @ \cup {n}]
       /\ Trips' = Trips /\ Dists' = Dists
  BY <1>4, <1>5, <1>7, <1>8, <1>9 DEF Trips, Dists, Routes
<1> QED
  BY <1>3, <1>10, LifecycleIs

\* A row that is overwritten is completed with a distance measured on points
\* it has; if it was completed, its distance is overwritten.
LEMMA UpdateCompletes ==
  ASSUME TrackInv, NEW w \in Workers, Completes(w)
  PROVE  \E r \in tracks : \E d \in Distances :
           /\ IsCopy(track[w], r)
           /\ r.status = "active" => Lifecycle!Complete(r.booking, d)
           /\ r.status = "completed" => Shared!Recomplete(r.booking, d)
<1>0. /\ at[w] = "update" /\ track[w].booking = event[w].booking /\ track[w].status = "completed"
      /\ waypoints' = waypoints /\ started' = started /\ completed' = completed
  BY DEF Completes, ConfirmedUpdate, Handles, world
<1>1. PICK r \in tracks : IsCopy(track[w], r)
  BY DEF Completes
<1>2. PICK x \in TripTrack, b \in Bookings, i \in Ids :
        x = track[w] /\ b = x.booking /\ i = x.id
  <2>1. track[w].booking \in Bookings /\ track[w].id \in Ids
    BY TrackFields DEF Completes
  <2> QED
    BY <2>1 DEF Completes
<1>3. r.booking = b /\ r.id = i /\ TracksOf(b) = {r}
  <2>1. r.booking = b /\ r.id = i
    BY <1>1, <1>2 DEF IsCopy
  <2> QED
    BY <1>0, <1>2, <2>1, OneRow
<1>4. tracks' = {s \in tracks : s.id # i} \cup {x}
  BY <1>2 DEF Completes, Overwrite
<1>5. \A s \in tracks : s.id = i \/ s.booking = b => s = r
  BY <1>3, OneRow
<1>6. TracksOf(b)' = {x}
  BY <1>2, <1>3, <1>4, <1>5 DEF TracksOf
<1>7. x.dist \in Distances /\ x.dist \subseteq PointsOf(i)
  <2>1. track[w].dist \subseteq PointsOf(track[w].id)
    BY <1>0 DEF TrackInv, CopiesFit
  <2> QED
    BY <1>2, <2>1, TrackFields
<1>8. Trip(b) = r.status /\ TripRoute(b) = PointsOf(i)
  BY <1>3, TripOf
<1>9. Trip(b)' = "completed" /\ TripDist(b)' = x.dist /\ TripRoute(b)' = PointsOf(i)
  <2>1. PointsOf(x.id)' = PointsOf(i)
    BY <1>0, <1>2 DEF PointsOf
  <2> QED
    BY <1>0, <1>2, <1>6, <2>1, TripOfNext
<1>10. ASSUME NEW c \in Bookings, c # b
       PROVE  Trip(c)' = Trip(c) /\ TripDist(c)' = TripDist(c) /\ TripRoute(c)' = TripRoute(c)
  <2>1. TracksOf(c)' = TracksOf(c)
    BY <1>2, <1>3, <1>4, <1>5, <1>10 DEF TracksOf
  <2>2. \A s \in TracksOf(c) : PointsOf(s.id)' = PointsOf(s.id)
    BY <1>0 DEF PointsOf
  <2> QED
    BY <2>1, <2>2, TripStays
<1>11. /\ Trips[b] = r.status /\ x.dist \subseteq Routes[b]
       /\ Trips' = [Trips EXCEPT ![b] = "completed"]
       /\ Dists' = [Dists EXCEPT ![b] = x.dist] /\ Routes' = Routes
  BY <1>7, <1>8, <1>9, <1>10 DEF Trips, Dists, Routes
<1>12. r.status = "completed" => Trips' = Trips
  BY <1>8, <1>9, <1>10 DEF Trips
<1>13. PICK d \in Distances : d = x.dist
  BY <1>7
<1>14. r.status = "active" => Lifecycle!Complete(b, d)
  BY <1>0, <1>11, <1>13, LifecycleIs
<1>15. r.status = "completed" => Shared!Recomplete(b, d)
  BY <1>0, <1>11, <1>12, <1>13, SharedIs
<1> QED
  BY <1>1, <1>3, <1>14, <1>15

\* Where no row and no point changes, no trip does.
LEMMA TripsStay ==
  ASSUME TrackInv, tracks' = tracks, waypoints' = waypoints
  PROVE  Trips' = Trips /\ Dists' = Dists /\ Routes' = Routes
<1>1. ASSUME NEW c \in Bookings
      PROVE  Trip(c)' = Trip(c) /\ TripDist(c)' = TripDist(c) /\ TripRoute(c)' = TripRoute(c)
  <2>1. TracksOf(c)' = TracksOf(c)
    BY DEF TracksOf
  <2>2. \A s \in TracksOf(c) : PointsOf(s.id)' = PointsOf(s.id)
    BY DEF PointsOf
  <2> QED
    BY <2>1, <2>2, TripStays
<1> QED
  BY <1>1 DEF Trips, Dists, Routes

\* A step that changes no row, no point and nothing told changes no life cycle.
LEMMA NothingSeen ==
  ASSUME TrackInv, UNCHANGED <<tracks, waypoints, started, completed>>
  PROVE  Lifecycle!vars' = Lifecycle!vars /\ Shared!vars' = Shared!vars
<1>1. tracks' = tracks /\ waypoints' = waypoints /\ started' = started /\ completed' = completed
  OBVIOUS
<1>2. Trips' = Trips /\ Dists' = Dists /\ Routes' = Routes
  BY <1>1, TripsStay
<1>3. Lifecycle!vars' = Lifecycle!vars
  BY <1>1, <1>2 DEF Lifecycle!vars, Trips, Dists, Routes, TripDist, TripRoute
<1>4. Shared!vars' = Shared!vars
  BY <1>1, <1>2 DEF Shared!vars, Trips, Dists, Routes, TripDist, TripRoute
<1> QED
  BY <1>3, <1>4

\* A start that is told of is that of a trip that started, and the first.
LEMMA StartsAnnounces ==
  ASSUME TrackInv, StartInv, NEW w \in Workers, Starts(w)
  PROVE  \E b \in Bookings : Lifecycle!AnnounceStart(b)
<1>1. PICK b \in Bookings : b = track[w].booking
  BY DEF Starts
<1>2. tracks' = tracks /\ waypoints' = waypoints /\ completed' = completed
  BY DEF Starts, AcceptedPublish, database
<1>3. started[b] = 0 /\ started' = [started EXCEPT ![b] = 1]
  <2>1. started[b] = 0
    BY <1>1 DEF Starts, StartInv
  <2>2. started' = [started EXCEPT ![b] = started[b] + 1]
    BY <1>1 DEF Starts
  <2> QED
    BY <2>1, <2>2
<1>4. Trips[b] # "none"
  <2>1. PICK r \in tracks : IsCopy(track[w], r)
    BY DEF Starts
  <2>2. TracksOf(b) = {r}
    BY <1>1, <2>1, OneRow DEF IsCopy
  <2>3. Trip(b) = r.status /\ r.status # "none"
    BY <2>2, TripOf, TrackFields DEF TrackInv, TypeOK, Statuses
  <2> QED
    BY <2>3 DEF Trips
<1> QED
  BY <1>2, <1>3, <1>4, TripsStay, LifecycleIs

LEMMA LifecycleInit == ASSUME Init PROVE Lifecycle!Init
<1>1. \A b \in Bookings : TracksOf(b) = {}
  BY DEF Init, TracksOf
<1>2. \A b \in Bookings : Trip(b) = "none" /\ TripDist(b) = {} /\ TripRoute(b) = {}
  BY <1>1, TripOf
<1> QED
  BY <1>2 DEF Init, Lifecycle!Init, TripDist, TripRoute

\* A completion that is told of is that of a completed trip, with a distance
\* measured on points it has, and not yet told of by as many as there are.
LEMMA FinishesOwn ==
  ASSUME TrackInv, ToldInv, NEW w \in Workers, Finishes(w)
  PROVE  \E b \in Bookings : \E d \in Distances : Shared!AnnounceOwn(b, d)
<1>0. Completing(w)
  BY DEF Finishes, Completing
<1>1. tracks' = tracks /\ waypoints' = waypoints /\ started' = started
  BY DEF Finishes, ConfirmedPublish, database
<1>2. PICK b \in Bookings : b = event[w].booking /\ b = track[w].booking
  BY <1>0, CompletingConfirms
<1>3. PICK r \in tracks : IsCopy(track[w], r)
  BY <1>0, CompletingConfirms
<1>4. r.booking = b /\ r.id = track[w].id /\ TracksOf(b) = {r}
  BY <1>2, <1>3, OneRow DEF IsCopy
<1>5. ~IsActive(r) /\ r.status = "completed"
  <2>1. ~IsActive(r)
    BY <1>2, <1>4 DEF Finishes, ToldInv
  <2> QED
    BY <2>1 DEF TrackInv, TracksFit, IsActive
<1>6. track[w].dist \subseteq PointsOf(r.id) /\ track[w].dist \in Distances
  <2>1. event[w] \notin Location
    BY KindsDisjoint DEF Finishes
  <2>2. track[w].dist \subseteq PointsOf(track[w].id) /\ track[w] \in TripTrack
    BY <2>1 DEF Finishes, TrackInv, CopiesFit
  <2> QED
    BY <1>4, <2>2, TrackFields
<1>7. Len(completed[b]) < Cardinality(Processes)
  <2> DEFINE N == Cardinality(Processes)
  <2>1. Len(completed[b]) + Cardinality(Tellers(b)) <= N
    BY <1>4, <1>5 DEF ToldInv
  <2>2. IsFiniteSet(Tellers(b)) /\ Cardinality(Tellers(b)) \in Nat /\ N \in Nat
    BY TellersFinite
  <2>3. w[1] \in Tellers(b)
    BY <1>0, <1>2, CompletingTells
  <2>4. Cardinality(Tellers(b)) # 0
    BY <2>2, <2>3, FS_EmptySet
  <2>5. Len(completed[b]) \in Nat
    <3>1. completed[b] \in Seq(Distances)
      BY DEF TrackInv, TypeOK
    <3> QED
      BY <3>1
  <2> HIDE DEF N
  <2>6. Len(completed[b]) < N
    BY <2>1, <2>2, <2>4, <2>5
  <2> QED
    BY <2>6 DEF N
<1>8. PICK d \in Distances : d = track[w].dist
  BY <1>6
<1>9. Trips[b] = "completed" /\ d \subseteq Routes[b]
  <2>1. Trip(b) = "completed" /\ TripRoute(b) = PointsOf(r.id)
    BY <1>4, <1>5, TripOf
  <2> QED
    BY <1>6, <1>8, <2>1 DEF Trips, Routes
<1>10. completed' = [completed EXCEPT ![b] = Append(@, d)]
  BY <1>2, <1>8 DEF Finishes
<1>11. Trips' = Trips /\ Dists' = Dists /\ Routes' = Routes
  BY <1>1, TripsStay
<1>12. Shared!AnnounceOwn(b, d)
  BY <1>1, <1>7, <1>9, <1>10, <1>11, SharedIs
<1> QED
  BY <1>12

\* A step is one of the shared life cycle, or changes nothing it sees.
LEMMA SharedStep ==
  ASSUME TrackInv, StartInv, ToldInv, [Next]_vars
  PROVE  [Shared!SharedNext]_(Shared!vars)
<1>1. ASSUME NEW w \in Workers, NEW i \in Ids, Inserts(w, i) PROVE Shared!SharedNext
  <2>1. event[w].booking \in Bookings
    BY <1>1 DEF Inserts
  <2> QED
    BY <1>1, <2>1, InsertStarts, SharedIs DEF Shared!SharedNext, Shared!TripNext
<1>2. ASSUME NEW w \in Workers, Completes(w) PROVE Shared!SharedNext
  <2>1. PICK r \in tracks, d \in Distances :
          /\ r.status = "active" => Lifecycle!Complete(r.booking, d)
          /\ r.status = "completed" => Shared!Recomplete(r.booking, d)
    BY <1>2, UpdateCompletes
  <2>2. r.booking \in Bookings /\ r.status \in {"active", "completed"}
    BY OneRow DEF TrackInv, TracksFit
  <2> QED
    BY <2>1, <2>2, SharedIs, DistancesAre DEF Shared!SharedNext, Shared!TripNext
<1>3. ASSUME NEW w \in Workers, Adds(w) PROVE Shared!SharedNext
  BY <1>3, AddGathers, SharedIs DEF Shared!SharedNext, Shared!TripNext
<1>4. ASSUME NEW w \in Workers, Starts(w) PROVE Shared!SharedNext
  BY <1>4, StartsAnnounces, SharedIs DEF Shared!SharedNext
<1>5. ASSUME NEW w \in Workers, Finishes(w) PROVE Shared!SharedNext
  BY <1>5, FinishesOwn, DistancesAre DEF Shared!SharedNext
<1>6. CASE UNCHANGED <<tracks, waypoints, started, completed>>
  BY <1>6, NothingSeen, SharedIs
<1> QED
  BY <1>1, <1>2, <1>3, <1>4, <1>5, <1>6, TracksChange, WaypointsChange, StartedChange,
     CompletedChange

\* However many processes share the tables, the tracks implement SharedTrips:
\* a trip starts once and is announced once, never goes back, only has a
\* distance that was measured on points it had gathered, and its completion is
\* told when it is completed, no more often than there are processes.
THEOREM TracksImplementSharedTrips == Spec => SharedSpec
<1>1. Init => Shared!Init
  BY LifecycleInit, SharedIs
<1>2. TrackInv /\ StartInv /\ ToldInv /\ [Next]_vars => [Shared!SharedNext]_(Shared!vars)
  BY SharedStep
<1> QED
  BY <1>1, <1>2, TrackInvariant, StartInvariant, ToldInvariant, PTL
     DEF Spec, SharedSpec, Shared!SharedSpec

\* What a reader of the tables can see, however many processes write them, is
\* what TripViews supposes of the trips: its TripStep is a step of TripNext.
\* The steps of SharedTrips that are not, the announcements, leave the tables
\* alone.
THEOREM ReadersSeeTrips == Spec => Shared!TripSpec
<1>1. [Shared!SharedNext]_(Shared!vars) => [Shared!TripNext]_(Shared!seen)
  BY DEF Shared!SharedNext, Shared!AnnounceStart, Shared!AnnounceOwn, Shared!vars, Shared!seen
<1> QED
  BY <1>1, TracksImplementSharedTrips, PTL DEF SharedSpec, Shared!SharedSpec, Shared!TripSpec
=============================================================================
