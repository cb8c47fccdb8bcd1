------------------------- MODULE TrackingInvariants -------------------------
(* What keeps the tracks of Tracking right from step to step: the inductive  *)
(* invariants from which its safety properties follow.                      *)
EXTENDS Tracking

LocationWorker(p) == <<p, "runner">>   \* the worker that takes the locations

\* A topic holds events of its own kinds, each once, that were sent and not
\* yet committed.
TopicsFit ==
  /\ IsFiniteSet(sent)
  /\ \A t \in Topics : \A i, j \in 1..Len(topic[t]) : topic[t][i] = topic[t][j] => i = j
  /\ \A t \in Topics : \A i \in 1..Len(topic[t]) :
       /\ topic[t][i] \in sent
       /\ topic[t][i] \in IF t = "runner" THEN Location \cup Unknown
                                           ELSE Accepted \cup Confirmed \cup Unknown

\* A worker has an event while its handler runs, one that its topic held, and
\* the handler is where the event's kind takes it.
StepsFit ==
  \A w \in Workers :
    /\ event[w] = None <=> at[w] \in {"idle", "stopped"}
    /\ event[w] # None =>
         /\ event[w] \in sent
         /\ event[w] \in IF w[2] = "runner" THEN Location \cup Unknown
                                             ELSE Accepted \cup Confirmed \cup Unknown
    /\ event[w] \in Accepted  => at[w] \in {"find", "save", "publish", "returned", "failed"}
    /\ event[w] \in Location  => at[w] \in {"find", "add", "broadcast", "publish", "returned",
                                            "failed"}
    /\ event[w] \in Confirmed => at[w] \in {"find", "measure", "update", "publish", "returned",
                                            "failed"}
    /\ event[w] \in Unknown   => at[w] \in {"find", "returned", "failed"}

\* The columns id and booking_id are unique, a track is of a booking that was
\* accepted, by its runner, and nobody ever cancels one.
TracksFit ==
  /\ \A r, s \in tracks : r.id = s.id \/ r.booking = s.booking => r = s
  /\ \A r \in tracks :
       /\ IsSent("accepted", r.booking)
       /\ r.runner = RunnerOf[r.booking]
       /\ r.status \in {"active", "completed"}

IsCopy(x, r) == x.id = r.id /\ x.booking = r.booking /\ x.runner = r.runner

\* The track a handler holds is a copy of a row, if not a fresh one: of its
\* event's booking, or of its event's runner.  What is written back or told
\* has been completed.
CopiesFit ==
  \A w \in Workers :
    at[w] \in {"add", "broadcast", "measure", "update"}
      \/ (at[w] = "publish" /\ event[w] \notin Location)
    => /\ track[w] \in TripTrack
       /\ \E r \in tracks : IsCopy(track[w], r)
       /\ event[w] \in Accepted \cup Confirmed => track[w].booking = event[w].booking
       /\ at[w] = "measure" => IsActive(track[w])
       /\ at[w] = "update" \/ (at[w] = "publish" /\ event[w] \in Confirmed) =>
            /\ track[w].status = "completed"
            /\ track[w].dist \subseteq PointsOf(track[w].id)

\* A location is only stored for, and shown of, a track that exists.
NoStrayPoints ==
  /\ \A i \in Ids : waypoints[i] # <<>> => \E r \in tracks : r.id = i
  /\ \A p \in Processes, b \in Bookings : shown[p][b] # <<>> => TracksOf(b) # {}

\* The invariant of the topics, the handlers and the tables, on which the
\* others rest.
TrackInv ==
  /\ TypeOK
  /\ TopicsFit
  /\ StepsFit
  /\ TracksFit
  /\ CopiesFit
  /\ NoStrayPoints

\* Of all workers one is to announce the start of a trip, or did.
Announces(w) == at[w] = "publish" /\ event[w] \in Accepted
StartInv ==
  /\ \A b \in Bookings : started[b] <= 1 /\ (started[b] = 1 => TracksOf(b) # {})
  /\ \A w \in Workers : Announces(w) => started[track[w].booking] = 0
  /\ \A v, w \in Workers :
       Announces(v) /\ Announces(w) /\ track[v].booking = track[w].booking => v = w

\* A completed trip has room for the waypoints that are still on their way.
Adders(i) == {p \in Processes : at[LocationWorker(p)] = "add" /\ track[LocationWorker(p)].id = i}
LateInv ==
  \A r \in tracks :
    ~IsActive(r) =>
      Len(waypoints[r.id]) + Cardinality(Adders(r.id)) <= onTime[r.id] + Cardinality(Processes)

\* A point that is about to be shown follows, in the route, what was shown.
OrderInv ==
  /\ ShownInOrder
  /\ \A p \in Processes :
       LET w == LocationWorker(p)
       IN  at[w] = "broadcast" =>
             Follows(Append(shown[p][track[w].booking], event[w].point), waypoints[track[w].id])

\* A point that is about to be shown is stored once for that.
Showers(b, n) ==
  {p \in Processes : /\ at[LocationWorker(p)] = "broadcast"
                     /\ track[LocationWorker(p)].booking = b
                     /\ event[LocationWorker(p)].point = n}
ShowInv ==
  \A b \in Bookings, n \in Points :
    /\ IsFiniteSet(Sends(b, n)) /\ IsFiniteSet(Stores(b, n))
    /\ Cardinality(Sends(b, n)) + Cardinality(Showers(b, n)) <= Cardinality(Stores(b, n))

\* A completion is told of a completed trip, and of a completed trip there is
\* room for what the handlers that found it active have still to tell.
Completing(w) == at[w] \in {"measure", "update"} \/ (at[w] = "publish" /\ event[w] \in Confirmed)
Tellers(b) ==
  {p \in Processes : Completing(<<p, "booking">>) /\ event[<<p, "booking">>].booking = b}
ToldInv ==
  /\ \A b \in Bookings : completed[b] # <<>> => \E r \in TracksOf(b) : ~IsActive(r)
  /\ \A w \in Workers : at[w] = "publish" /\ event[w] \in Confirmed =>
       \A r \in TracksOf(event[w].booking) : ~IsActive(r)
  /\ \A r \in tracks :
       ~IsActive(r) =>
         Len(completed[r.booking]) + Cardinality(Tellers(r.booking)) <= Cardinality(Processes)

\* What holds of the tracks whatever the number of processes, the order of the
\* topics and the consumer's policy; each part is kept together with the first.
TrackSafe == TrackInv /\ StartInv /\ LateInv /\ OrderInv /\ ShowInv /\ ToldInv

\* Where a topic is read in order, and no event is skipped, an event is taken
\* when those before it are committed.
AtHead(e) == \A i \in 1..Len(topic["booking"]) : topic["booking"][i] = e => i = 1
InTopic(e) == \E i \in 1..Len(topic["booking"]) : topic["booking"][i] = e
Before(d, e) ==
  /\ d \in sent
  /\ InTopic(d) => InTopic(e)
  /\ \A i, j \in 1..Len(topic["booking"]) : topic["booking"][i] = d /\ topic["booking"][j] = e => i < j

\* What an event of a booking asks for is done.
Settled(e) ==
  /\ e \in Accepted \cup Confirmed => TracksOf(e.booking) # {}
  /\ e \in Confirmed => \A r \in TracksOf(e.booking) : ~IsActive(r)

\* A runner's trips come one after the other: of two accepted bookings the
\* confirmation of one is before the acceptance of the other.  A committed
\* event is settled, a track is of an event that was taken, and of a runner's
\* tracks one is active at most.
TripsInv ==
  /\ \A a, b \in Bookings :
       a # b /\ RunnerOf[a] = RunnerOf[b] /\ AcceptedOf(a) \in sent /\ AcceptedOf(b) \in sent =>
         Before(ConfirmedOf(a), AcceptedOf(b)) \/ Before(ConfirmedOf(b), AcceptedOf(a))
  /\ \A w \in Workers : event[w] \in Accepted \cup Confirmed => AtHead(event[w])
  /\ \A r \in tracks : AtHead(AcceptedOf(r.booking))
  /\ \A e \in sent : ~InTopic(e) => Settled(e)
  /\ \A w \in Workers :
       at[w] = "returned" \/ (at[w] = "publish" /\ event[w] \in Confirmed) => Settled(event[w])
  /\ \A r, s \in tracks : IsActive(r) /\ IsActive(s) /\ r.runner = s.runner => r = s

\* With one process: a worker holds what its topic still holds.
Held == \A w \in Workers : event[w] # None =>
          \E k \in 1..Len(topic[w[2]]) : topic[w[2]][k] = event[w]

\* A location waits until its handler has stored it; the one of a stored point
\* waits again after a fault.
Waits(e) ==
  /\ e \in Location
  /\ \E k \in 1..Len(topic["runner"]) : topic["runner"][k] = e
  /\ \A w \in Workers : event[w] = e => at[w] \notin {"broadcast", "publish", "returned"}
Again(i) == {n \in PointsOf(i) : \E e \in sent : Waits(e) /\ e.point = n}

\* The points are numbered as they are sent, only points that were sent are
\* stored, and of each track there are as many copies as faults that are not
\* about to make another.
CopiesInv ==
  /\ Held
  /\ \A e \in sent \cap Location : e.point <= Cardinality(sent \cap Location)
  /\ \A d, e \in sent \cap Location : d.point = e.point => d = e
  /\ \A i \in Ids : \A n \in PointsOf(i) : \E e \in sent \cap Location : e.point = n
  /\ \A i \in Ids :
       Len(waypoints[i]) + Cardinality(Again(i)) <= Cardinality(PointsOf(i)) + faults

\* With one process: while a completion is under way the trip is active and
\* its completion was not told; it is told of the row that was written.
CompletionInv ==
  /\ \A b \in Bookings : completed[b] # <<>> => \E r \in TracksOf(b) : ~IsActive(r)
  /\ \A w \in Workers : at[w] \in {"measure", "update"} =>
       /\ completed[event[w].booking] = <<>>
       /\ \A r \in TracksOf(event[w].booking) : IsActive(r)
  /\ \A w \in Workers : at[w] = "publish" /\ event[w] \in Confirmed =>
       /\ completed[event[w].booking] = <<>>
       /\ track[w] \in tracks

\* What holds when the service is one process, TrackInv included.
OneProcessInv == TrackInv /\ CopiesInv /\ CompletionInv
=============================================================================
