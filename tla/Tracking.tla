------------------------------ MODULE Tracking ------------------------------
(***************************************************************************)
(* The trip tracks: application/tracking_service.go, the two consumers of   *)
(* events/kafka_consumer.go that call it, domain/tracking and              *)
(* repository/tracking_repository.go.                                      *)
(*                                                                         *)
(* A process of the service runs two workers, one for each topic.  A       *)
(* worker takes an event, runs its handler, and commits it.  Every call of *)
(* the database, the hub or the producer is a step of its own; the         *)
(* database is shared by all processes.                                    *)
(*                                                                         *)
(* Kafka and the consumer of lib-common are external: an event stays in    *)
(* its topic until it is committed, so it is delivered again after a crash *)
(* (and, with several processes, to another one that a rebalance gave its  *)
(* partition); when a handler fails the event is delivered again, or is    *)
(* skipped, or the consumer stops, as main only logs (OnFailure); events   *)
(* of one partition are taken in their order: none is taken before those   *)
(* ahead of it are committed.                                              *)
(*                                                                         *)
(* Of a waypoint the model keeps when it was recorded, 1, 2, ...; a        *)
(* distance is the set of the points it was computed from, empty for fewer *)
(* than two (calculateTotalDistance returns 0 for these, and a point that  *)
(* is stored twice adds nothing).                                          *)
(***************************************************************************)
EXTENDS Naturals, Sequences, FiniteSets

CONSTANTS
  Processes,    \* the running instances of the service
  Bookings, Runners,
  RunnerOf,     \* the runner that accepts a booking
  MaxPoints,    \* bound: the locations the runners report, in all
  Grades,       \* what reported locations are like; see Location below
  Unknowns,     \* the other events that may come; see Unknown below
  MaxUnknowns,  \* bound: how many of them
  Partitions,   \* the partitions of a topic
  PartitionOf,  \* the partition that an event is in
  OnFailure,    \* what the consumer may do then: "retry", "skip", "stop"
  MaxFaults,    \* bound: crashes and failed calls
  None

Topics  == {"booking", "runner"}
Workers == Processes \X Topics
Ids     == 1..Cardinality(Bookings)
Points  == 1..MaxPoints
\* The distances: one point has none.
Distances == {d \in SUBSET Points : Cardinality(d) # 1}

Statuses == {"active", "completed", "cancelled"}
\* A row of trip_tracks.  The ids are random: their order says nothing.
TripTrack == [id : Ids, booking : Bookings, runner : Runners, status : Statuses,
              dist : Distances, version : {1}]

\* A location is "good", "invalid" (NewWaypoint refuses its coordinates) or
\* "overflow" (its speed does not fit the column, DECIMAL(6,2)).
Location  == [type : {"location"}, runner : Runners, point : Points, grade : Grades]
Accepted  == [type : {"accepted"}, booking : Bookings]
Confirmed == [type : {"confirmed"}, booking : Bookings]
\* An event of another type is "ignored", one that cannot be parsed is
\* "malformed".  It may have any key.
Unknown   == [type : {"unknown"}, is : {"ignored", "malformed"}, topic : Topics,
              key : 1..Partitions]
Event     == Accepted \cup Confirmed \cup Location \cup Unknown

AcceptedOf(b)  == [type |-> "accepted", booking |-> b]
ConfirmedOf(b) == [type |-> "confirmed", booking |-> b]

ASSUME RunnerAssumption    == RunnerOf \in [Bookings -> Runners]
ASSUME BoundAssumption     == {MaxPoints, MaxUnknowns, MaxFaults} \subseteq Nat /\ Partitions \in Nat \ {0}
ASSUME PartitionAssumption == PartitionOf \in [Event -> 1..Partitions]
ASSUME ProcessAssumption   == IsFiniteSet(Processes)
ASSUME PolicyAssumption    == OnFailure \subseteq {"retry", "skip", "stop"}
ASSUME GradesAssumption    == Grades \subseteq {"good", "invalid", "overflow"}
ASSUME UnknownsAssumption  == Unknowns \subseteq Unknown
ASSUME NoneAssumption      == None \notin Event \cup TripTrack

VARIABLES
  sent,       \* the events the other services have published
  topic,      \* of these, the ones not yet committed, in their order
  tracks,     \* the table trip_tracks, a set of rows
  waypoints,  \* the table waypoints: the points of a track, in insertion order
  event,      \* the event a worker handles
  at,         \* where its handler is
  track,      \* the handler's copy of a track
  started,    \* how many TrackingStarted events a booking had
  completed,  \* the distances its TrackingCompleted events told
  shown,      \* the points a process's hub was given to send, by booking
  onTime,     \* how many waypoints the trip had when it was completed
  faults      \* crashes and failed calls so far

database == <<tracks, waypoints, onTime>>
world    == <<started, completed, shown>>
vars     == <<sent, topic, database, event, at, track, world, faults>>

States == {"idle", "find", "save", "measure", "update", "add", "broadcast",
           "publish", "returned", "failed", "stopped"}

Init ==
  /\ sent      = {}
  /\ topic     = [t \in Topics |-> <<>>]
  /\ tracks    = {}
  /\ waypoints = [i \in Ids |-> <<>>]
  /\ event     = [w \in Workers |-> None]
  /\ at        = [w \in Workers |-> "idle"]
  /\ track     = [w \in Workers |-> None]
  /\ started   = [b \in Bookings |-> 0]
  /\ completed = [b \in Bookings |-> <<>>]
  /\ shown     = [p \in Processes |-> [b \in Bookings |-> <<>>]]
  /\ onTime    = [i \in Ids |-> 0]
  /\ faults    = 0

-----------------------------------------------------------------------------
(* The services that publish the events.  A runner accepts a booking when   *)
(* the delivery before it is confirmed.                                    *)

IsSent(type, b) == [type |-> type, booking |-> b] \in sent

Send(t, e) ==
  /\ e \notin sent
  /\ sent'  = sent \cup {e}
  /\ topic' = [topic EXCEPT ![t] = Append(@, e)]
  /\ UNCHANGED <<database, event, at, track, world, faults>>

SendAccepted(b) ==
  /\ \A a \in Bookings :
       RunnerOf[a] = RunnerOf[b] /\ IsSent("accepted", a) => IsSent("confirmed", a)
  /\ Send("booking", AcceptedOf(b))

SendConfirmed(b) ==
  /\ IsSent("accepted", b)
  /\ Send("booking", ConfirmedOf(b))

SendLocation(r, g) ==
  LET n == Cardinality(sent \cap Location)
  IN  /\ n < MaxPoints
      /\ Send("runner", [type |-> "location", runner |-> r, point |-> n + 1, grade |-> g])

SendUnknown(e) ==
  /\ Cardinality(sent \cap Unknown) < MaxUnknowns
  /\ Send(e.topic, e)

-----------------------------------------------------------------------------
(* The consumers.                                                          *)

\* A topic holds an event once.
Without(s, e) ==
  IF \E i \in 1..Len(s) : s[i] = e
    THEN LET i == CHOOSE i \in 1..Len(s) : s[i] = e
         IN  SubSeq(s, 1, i - 1) \o SubSeq(s, i + 1, Len(s))
    ELSE s

\* The events not yet committed, and those of them that are ahead of e in its
\* partition.
Uncommitted(t) == {topic[t][i] : i \in 1..Len(topic[t])}
AheadOf(t, e) ==
  {d \in Uncommitted(t) :
     /\ PartitionOf[d] = PartitionOf[e]
     /\ \E i, j \in 1..Len(topic[t]) : i < j /\ topic[t][i] = d /\ topic[t][j] = e}

\* handleMessage is called with the first event of a partition.
Take(w, e) ==
  /\ at[w] = "idle"
  /\ e \in Uncommitted(w[2]) /\ AheadOf(w[2], e) = {}
  /\ event' = [event EXCEPT ![w] = e]
  /\ at'    = [at EXCEPT ![w] = "find"]
  /\ UNCHANGED <<sent, topic, database, track, world, faults>>

Goto(w, s) == at' = [at EXCEPT ![w] = s]
Hold(w, r) == track' = [track EXCEPT ![w] = r]
Commit(w)  == topic' = [topic EXCEPT ![w[2]] = Without(@, event[w])]

\* The handler is back.  An event it handled is committed; one it failed on
\* is left to be delivered again, committed unhandled, or ends the consumer.
Return(w) ==
  /\ \/ at[w] = "returned" /\ Commit(w) /\ Goto(w, "idle")
     \/ at[w] = "failed" /\ "skip" \in OnFailure /\ Commit(w) /\ Goto(w, "idle")
     \/ at[w] = "failed" /\ "retry" \in OnFailure /\ UNCHANGED topic /\ Goto(w, "idle")
     \/ at[w] = "failed" /\ "stop" \in OnFailure /\ UNCHANGED topic /\ Goto(w, "stopped")
  /\ event' = [event EXCEPT ![w] = None]
  /\ Hold(w, None)
  /\ UNCHANGED <<sent, database, world, faults>>

\* A process dies, and is started again, with both its workers.
Crash(p) ==
  /\ faults < MaxFaults
  /\ faults' = faults + 1
  /\ \E t \in Topics : at[<<p, t>>] # "idle"
  /\ event' = [w \in Workers |-> IF w[1] = p THEN None ELSE event[w]]
  /\ track' = [w \in Workers |-> IF w[1] = p THEN None ELSE track[w]]
  /\ at'    = [w \in Workers |-> IF w[1] = p THEN "idle" ELSE at[w]]
  /\ UNCHANGED <<sent, topic, database, world>>

Succeeds   == UNCHANGED faults
Fails      == faults < MaxFaults /\ faults' = faults + 1
Handles(w, type, s) == at[w] = s /\ event[w].type = type

\* The default branch and the early returns of handleMessage.
Ignore(w) ==
  /\ Handles(w, "unknown", "find")
  /\ Goto(w, IF event[w].is = "ignored" THEN "returned" ELSE "failed")
  /\ UNCHANGED <<sent, topic, database, event, track, world, faults>>

-----------------------------------------------------------------------------
(* HandleBookingAccepted.                                                  *)

TracksOf(b) == {r \in tracks : r.booking = b}

\* FindByBookingID; its error is dropped, as if there were no track.
AcceptedFind(w) ==
  /\ Handles(w, "accepted", "find")
  /\ \/ Succeeds /\ Goto(w, IF TracksOf(event[w].booking) = {} THEN "save" ELSE "returned")
     \/ Fails /\ Goto(w, "save")
  /\ UNCHANGED <<sent, topic, database, event, track, world>>

\* The UNIQUE constraint on booking_id.
Conflict(b) == TracksOf(b) # {}

NewTripTrack(b, i) ==
  [id |-> i, booking |-> b, runner |-> RunnerOf[b], status |-> "active",
   dist |-> {}, version |-> 1]

\* Mutant: the insert does nothing on a conflict, and says so to nobody.
AcceptedSaveOnce(w) ==
  LET b == event[w].booking
  IN  /\ Handles(w, "accepted", "save")
      /\ \E i \in Ids :
           /\ tracks' = IF Conflict(b) THEN tracks ELSE tracks \cup {NewTripTrack(b, i)}
           /\ Hold(w, NewTripTrack(b, i))
      /\ Goto(w, "publish")
      /\ UNCHANGED <<sent, topic, waypoints, onTime, event, world, faults>>

\* Save inserts the new track, and may fail to report that it did.
AcceptedSave(w) ==
  LET b == event[w].booking
  IN  /\ Handles(w, "accepted", "save")
      /\ \/ /\ ~Conflict(b)
            /\ \E i \in Ids \ {r.id : r \in tracks} :
                 LET new == NewTripTrack(b, i)
                 IN  /\ tracks' = tracks \cup {new}
                     /\ \/ Succeeds /\ Goto(w, "publish") /\ Hold(w, new)
                        \/ Fails /\ Goto(w, "failed") /\ UNCHANGED track
         \/ /\ IF Conflict(b) THEN Succeeds ELSE Fails
            /\ Goto(w, "failed")
            /\ UNCHANGED <<tracks, track>>
      /\ UNCHANGED <<sent, topic, waypoints, onTime, event, world>>

\* PublishEvent, whose failure is only logged.
AcceptedPublish(w) ==
  /\ Handles(w, "accepted", "publish")
  /\ \/ Succeeds /\ started' = [started EXCEPT ![track[w].booking] = @ + 1]
     \/ Fails /\ UNCHANGED started
  /\ Goto(w, "returned")
  /\ UNCHANGED <<sent, topic, database, event, track, completed, shown>>

-----------------------------------------------------------------------------
(* HandleRunnerLocationUpdate.                                             *)

ActiveOf(r) == {x \in tracks : x.runner = r /\ x.status = "active"}

\* Mutant: FindActiveByRunnerID forgets the status.
AnyOf(r) ==
  LET T == {x \in tracks : x.runner = r}
  IN  {x \in T : \A y \in T : x.id <= y.id}
\* FindActiveByRunnerID: First orders by the primary key.
FirstActive(r) == {x \in ActiveOf(r) : \A y \in ActiveOf(r) : x.id <= y.id}

\* Mutant: no active track is an error of the handler.
LocationFindOrFail(w) ==
  /\ Handles(w, "location", "find")
  /\ \/ /\ Succeeds
        /\ IF FirstActive(event[w].runner) = {} \/ event[w].grade = "invalid"
             THEN /\ Goto(w, IF FirstActive(event[w].runner) = {} THEN "failed" ELSE "returned")
                  /\ UNCHANGED track
             ELSE Goto(w, "add") /\ \E x \in FirstActive(event[w].runner) : Hold(w, x)
     \/ Fails /\ Goto(w, "failed") /\ UNCHANGED track
  /\ UNCHANGED <<sent, topic, database, event, world>>

\* The track is found, then NewWaypoint checks the location; without a track,
\* and for an invalid location, the update is ignored.
LocationFind(w) ==
  /\ Handles(w, "location", "find")
  /\ \/ /\ Succeeds
        /\ IF FirstActive(event[w].runner) = {} \/ event[w].grade = "invalid"
             THEN Goto(w, "returned") /\ UNCHANGED track
             ELSE Goto(w, "add") /\ \E x \in FirstActive(event[w].runner) : Hold(w, x)
     \/ Fails /\ Goto(w, "returned") /\ UNCHANGED track
  /\ UNCHANGED <<sent, topic, database, event, world>>

AddWaypoint(w) ==
  waypoints' = [waypoints EXCEPT ![track[w].id] = Append(@, event[w].point)]

\* Mutant: an error of AddWaypoint is logged and dropped.
LocationAddDropsError(w) ==
  /\ Handles(w, "location", "add")
  /\ \/ event[w].grade # "overflow" /\ Succeeds /\ AddWaypoint(w)
     \/ /\ IF event[w].grade = "overflow" THEN Succeeds ELSE Fails
        /\ UNCHANGED waypoints
  /\ Goto(w, "broadcast")
  /\ UNCHANGED <<sent, topic, tracks, onTime, event, track, world>>

\* AddWaypoint inserts whatever the track's status is by now.
LocationAdd(w) ==
  /\ Handles(w, "location", "add")
  /\ \/ event[w].grade # "overflow" /\ Succeeds /\ AddWaypoint(w) /\ Goto(w, "broadcast")
     \/ event[w].grade # "overflow" /\ Fails /\ AddWaypoint(w) /\ Goto(w, "failed")
     \/ /\ IF event[w].grade = "overflow" THEN Succeeds ELSE Fails
        /\ Goto(w, "failed")
        /\ UNCHANGED waypoints
  /\ UNCHANGED <<sent, topic, tracks, onTime, event, track, world>>

\* Mutant: a busy hub is an error of the handler.
LocationBroadcastOrFail(w) ==
  /\ Handles(w, "location", "broadcast")
  /\ \/ /\ shown' = [shown EXCEPT ![w[1]][track[w].booking] = Append(@, event[w].point)]
        /\ Goto(w, "publish")
     \/ Goto(w, "failed") /\ UNCHANGED shown
  /\ UNCHANGED <<sent, topic, database, event, track, started, completed, faults>>

\* hub.Broadcast, to the viewers connected to this process alone; from there
\* the hub's channel keeps the order.
LocationBroadcast(w) ==
  /\ Handles(w, "location", "broadcast")
  /\ shown' = [shown EXCEPT ![w[1]][track[w].booking] = Append(@, event[w].point)]
  /\ Goto(w, "publish")
  /\ UNCHANGED <<sent, topic, database, event, track, started, completed, faults>>

\* PublishEvent; its event, like its failure, leaves no trace here.
LocationPublish(w) ==
  /\ Handles(w, "location", "publish")
  /\ Goto(w, "returned")
  /\ UNCHANGED <<sent, topic, database, event, track, world, faults>>

-----------------------------------------------------------------------------
(* HandleDeliveryConfirmed.                                                *)

IsActive(r)  == r.status = "active"

ConfirmedFind(w) ==
  /\ Handles(w, "confirmed", "find")
  /\ \/ /\ Succeeds
        /\ IF TracksOf(event[w].booking) = {}
             THEN Goto(w, "failed") /\ UNCHANGED track
             ELSE \E r \in TracksOf(event[w].booking) :
                    IF IsActive(r)
                      THEN Goto(w, "measure") /\ Hold(w, r)
                      ELSE Goto(w, "returned") /\ UNCHANGED track
     \/ Fails /\ Goto(w, "failed") /\ UNCHANGED track
  /\ UNCHANGED <<sent, topic, database, event, world>>

PointsOf(i) == {waypoints[i][n] : n \in 1..Len(waypoints[i])}
Distance(S) == IF Cardinality(S) < 2 THEN {} ELSE S

\* Mutant: the distance is set, the status is not.
CompleteDistance(r, d) == [r EXCEPT !.dist = d]
Complete(r, d) == [r EXCEPT !.status = "completed", !.dist = d]

\* Complete refuses a track that is not active, and the handler returns its
\* error.
TryComplete(w, d) ==
  IF track[w].status = "active"
    THEN Hold(w, Complete(track[w], d)) /\ Goto(w, "update")
    ELSE UNCHANGED track /\ Goto(w, "failed")

\* GetWaypoints, whose error leaves no waypoints to measure, and Complete.
ConfirmedMeasure(w) ==
  /\ Handles(w, "confirmed", "measure")
  /\ \/ Succeeds /\ TryComplete(w, Distance(PointsOf(track[w].id)))
     \/ Fails /\ TryComplete(w, Distance({}))
  /\ UNCHANGED <<sent, topic, database, event, world>>

\* WHERE id = ? AND version = ?; nothing increments a version.
Matches(r) == \E x \in tracks : x.id = r.id /\ x.version = r.version - 1

\* Mutant: Save updates only the row that WHERE names.
MatchedOnly(r) == Matches(r)
\* gorm's Save: when its UPDATE matches no row, it inserts the record and, on
\* a conflict of the ids, overwrites the one that is there.
Writes(r) == Matches(r) \/ TRUE

Overwrite(r) ==
  /\ tracks' = {x \in tracks : x.id # r.id} \cup {r}
  /\ onTime' = IF \E x \in tracks : x.id = r.id /\ IsActive(x)
                 THEN [onTime EXCEPT ![r.id] = Len(waypoints[r.id])]
                 ELSE onTime

\* Mutant: an error of Update is logged and dropped.
ConfirmedUpdateDropsError(w) ==
  /\ Handles(w, "confirmed", "update")
  /\ \/ Writes(track[w]) /\ Succeeds /\ Overwrite(track[w])
     \/ Writes(track[w]) /\ Fails /\ Overwrite(track[w])
     \/ /\ IF Writes(track[w]) THEN Fails ELSE Succeeds
        /\ UNCHANGED <<tracks, onTime>>
  /\ Goto(w, "publish")
  /\ UNCHANGED <<sent, topic, waypoints, event, track, world>>

ConfirmedUpdate(w) ==
  /\ Handles(w, "confirmed", "update")
  /\ \/ Writes(track[w]) /\ Succeeds /\ Overwrite(track[w]) /\ Goto(w, "publish")
     \/ Writes(track[w]) /\ Fails /\ Overwrite(track[w]) /\ Goto(w, "failed")
     \/ /\ IF Writes(track[w]) THEN Fails ELSE Succeeds
        /\ Goto(w, "failed")
        /\ UNCHANGED <<tracks, onTime>>
  /\ UNCHANGED <<sent, topic, waypoints, event, track, world>>

\* PublishEvent, whose failure is only logged.
ConfirmedPublish(w) ==
  /\ Handles(w, "confirmed", "publish")
  /\ \/ Succeeds /\ completed' = [completed EXCEPT ![track[w].booking] = Append(@, track[w].dist)]
     \/ Fails /\ UNCHANGED completed
  /\ Goto(w, "returned")
  /\ UNCHANGED <<sent, topic, database, event, track, started, shown>>

-----------------------------------------------------------------------------
Handle(w) ==
  \/ AcceptedFind(w)  \/ AcceptedSave(w) \/ AcceptedPublish(w)
  \/ LocationFind(w)  \/ LocationAdd(w)  \/ LocationBroadcast(w) \/ LocationPublish(w)
  \/ ConfirmedFind(w) \/ ConfirmedMeasure(w)
  \/ ConfirmedUpdate(w) \/ ConfirmedPublish(w)
  \/ Ignore(w) \/ Return(w)

Next ==
  \/ \E b \in Bookings : SendAccepted(b) \/ SendConfirmed(b)
  \/ \E r \in Runners, g \in Grades : SendLocation(r, g)
  \/ \E e \in Unknowns : SendUnknown(e)
  \/ \E w \in Workers : Handle(w) \/ \E e \in sent : Take(w, e)
  \/ \E p \in Processes : Crash(p)

(***************************************************************************)
(* A worker whose goroutine can run does, and the consumer polls every     *)
(* partition: one that again and again has an event to take is served.     *)
(* The other services owe nothing, and neither does a crash.               *)
(***************************************************************************)
Poll(w, n) == \E e \in Uncommitted(w[2]) : PartitionOf[e] = n /\ Take(w, e)
Fairness ==
  /\ \A w \in Workers : WF_vars(Handle(w))
  /\ \A w \in Workers, n \in 1..Partitions : SF_vars(Poll(w, n))

Spec     == Init /\ [][Next]_vars
FairSpec == Spec /\ Fairness
-----------------------------------------------------------------------------
(* Properties.                                                             *)

\* Every variable has its type.
TypeOK ==
  /\ sent      \subseteq Event
  /\ topic     \in [Topics -> Seq(Event)]
  /\ tracks    \subseteq TripTrack
  /\ waypoints \in [Ids -> Seq(Points)]
  /\ event     \in [Workers -> Event \cup {None}]
  /\ at        \in [Workers -> States]
  /\ track     \in [Workers -> TripTrack \cup {None}]
  /\ started   \in [Bookings -> Nat]
  /\ completed \in [Bookings -> Seq(Distances)]
  /\ shown     \in [Processes -> [Bookings -> Seq(Points)]]
  /\ onTime    \in [Ids -> Nat]
  /\ faults    \in 0..MaxFaults

\* A trip starts once, although the check for a track and the insert of one
\* are two steps, the check's errors are dropped, and events come again: the
\* processes never announce two tracks of a booking.
StartedOnce ==
  \A b \in Bookings :
    /\ Cardinality(TracksOf(b)) <= 1
    /\ started[b] <= Cardinality(TracksOf(b))

\* A completed trip takes no waypoints but the ones whose handlers had found
\* it active: one for each process.
LateBounded ==
  \A r \in tracks :
    ~IsActive(r) => Len(waypoints[r.id]) <= onTime[r.id] + Cardinality(Processes)

\* A waypoint is stored twice only where a crash or a failed call made the
\* consumer deliver its location again.
CopiesNeedFaults ==
  \A i \in Ids : Len(waypoints[i]) <= Cardinality(PointsOf(i)) + faults

\* The hubs of all processes together send a stored waypoint once: viewers are
\* only shown points of the route of their booking, and a point that several
\* processes show is stored as often.
Sends(b, n) ==
  UNION {{p} \X {i \in 1..Len(shown[p][b]) : shown[p][b][i] = n} : p \in Processes}
Stores(b, n) ==
  UNION {{r.id} \X {i \in 1..Len(waypoints[r.id]) : waypoints[r.id][i] = n} : r \in TracksOf(b)}
ShownIsStored ==
  \A b \in Bookings, n \in Points : Cardinality(Sends(b, n)) <= Cardinality(Stores(b, n))

\* What viewers see is the stored route in its own order, with gaps where a
\* handler died between storing a point and sending it.
Follows(s, route) ==
  \E f \in [1..Len(s) -> 1..Len(route)] :
    \A n \in 1..Len(s) : s[n] = route[f[n]] /\ \A m \in 1..(n - 1) : f[m] < f[n]
ShownInOrder ==
  \A r \in tracks, p \in Processes : Follows(shown[p][r.booking], waypoints[r.id])

\* domain/tracking/repository.go, "FindActiveByRunnerID retrieves the currently
\* active trip track for a runner": there is one at most.
OneActivePerRunner == \A r \in Runners : Cardinality(ActiveOf(r)) <= 1

\* Comments of tracking_service.go, "Calculate total distance from waypoints":
\* the distance of a completed trip is that of its route.
DistanceMatchesRoute ==
  \A r \in tracks : ~IsActive(r) => r.dist = Distance(PointsOf(r.id))

\* Comments of trip_track.go, "Complete transitions the trip track from active
\* to completed" and "the version for optimistic locking": of two writers one
\* completes the trip, and its record is final.
FinalRecord == [][\A r \in tracks : r.status = "completed" => r \in tracks']_vars

\* The handler returns an error for the event as things are, even if no call
\* fails: an event that is delivered again holds up its partition so long.
Refused(e) ==
  \/ e \in Unknown /\ e.is = "malformed"
  \/ e \in Confirmed /\ TracksOf(e.booking) = {}
  \/ e \in Location /\ e.grade = "overflow" /\ ActiveOf(e.runner) # {}
HeldUp(t, e) == \E d \in AheadOf(t, e) : Refused(d)

\* README.md, "booking.delivery_confirmed: Completes trip track": it does,
\* sooner or later and for good, if failed events are delivered again; unless
\* the acceptance or the confirmation is held up for ever.
ConfirmedCompletes ==
  \A b \in Bookings :
    \/ <>[](IsSent("confirmed", b) => \E r \in TracksOf(b) : r.status = "completed")
    \/ <>[](HeldUp("booking", AcceptedOf(b)) \/ HeldUp("booking", ConfirmedOf(b)))

\* A location that the database refuses holds up its partition, but only as
\* long as its runner has an active trip: sooner or later the consumer is past
\* every location that is not refused or held up for ever.
Reports(n) == {e \in sent \cap Location : e.point = n}
LocationsPass ==
  \A n \in Points :
    \/ <>[](\A e \in Reports(n) : e \notin Uncommitted("runner"))
    \/ <>[](\A e \in Reports(n) : Refused(e) \/ HeldUp("runner", e))

\* The trips' life cycle, TripLifecycle, is what the tracks implement.
Trip(b) ==
  IF TracksOf(b) = {} THEN "none" ELSE (CHOOSE r \in TracksOf(b) : TRUE).status
Lifecycle == INSTANCE TripLifecycle WITH
  trip  <- [b \in Bookings |-> Trip(b)],
  dist  <- [b \in Bookings |-> UNION {r.dist : r \in TracksOf(b)}],
  route <- [b \in Bookings |-> UNION {PointsOf(r.id) : r \in TracksOf(b)}]
LifecycleSpec == Lifecycle!Spec

\* What they implement when several processes handle the same events.
Shared == INSTANCE SharedTrips WITH
  trip  <- [b \in Bookings |-> Trip(b)],
  dist  <- [b \in Bookings |-> UNION {r.dist : r \in TracksOf(b)}],
  route <- [b \in Bookings |-> UNION {PointsOf(r.id) : r \in TracksOf(b)}]
SharedSpec == Shared!SharedSpec
=============================================================================
