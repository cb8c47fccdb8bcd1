----------------------------- MODULE TripViews -----------------------------
(***************************************************************************)
(* What readers see of a trip: GetTracking and GetRouteGeoJSON of           *)
(* application/tracking_service.go, and the share links of                 *)
(* application/share_service.go, which anyone who has the token may read    *)
(* until they expire.                                                      *)
(*                                                                         *)
(* A request is a goroutine of the HTTP server.  Every call of a repository *)
(* is a step, and so is the look at the clock: between two of them the trip *)
(* goes on and time passes.  Of the trip this module keeps what a reader    *)
(* can see of it, TripNext of TripLifecycle, which Tracking was shown to    *)
(* implement for any number of processes.  The points are in the order in   *)
(* which they were recorded, which is the order every query asks for.       *)
(***************************************************************************)
EXTENDS TripLifecycle

CONSTANTS
  Tokens,     \* what generateToken may return
  Requests,   \* bound: each is made once
  Lifetime,   \* how long a link is valid, 24 hours in the code
  MaxTime,    \* bound: where the clock stops
  None

ASSUME TimeAssumption  == Lifetime \in Nat /\ MaxTime \in Nat

\* A row of shared_trips.
SharedTrip == [token : Tokens, booking : Bookings, expires : Nat]

Calls == [type : {"tracking", "route", "create"}, booking : Bookings]
           \cup [type : {"shared"}, token : Tokens]

ASSUME NoneAssumption == None \notin SharedTrip \cup Calls

VARIABLES
  now,       \* the clock
  links,     \* the table shared_trips, a set of rows
  request    \* what a request's goroutine knows; "began" is what it found

viewVars == <<vars, now, links, request>>

Refusals == {"not found", "expired", "error"}
Steps    == {"new", "save", "link", "expiry", "track", "line", "points"}

Unasked ==
  [at |-> "idle", call |-> None, link |-> None, status |-> "none", dist |-> {},
   points |-> {}, failed |-> FALSE,
   began |-> [now |-> 0, links |-> {}, trip |-> trip, route |-> route]]

ViewInit ==
  /\ Init
  /\ now     = 0
  /\ links   = {}
  /\ request = [r \in Requests |-> Unasked]

At(r, s)        == request[r].at = s
IsCall(r, type) == request[r].call # None /\ request[r].call.type = type
Goes(r, s)  == request' = [request EXCEPT ![r].at = s]
Fails(r, s) == request' = [request EXCEPT ![r].at = s, ![r].failed = TRUE]

\* The links whose owners were given them.
Told ==
  {request[r].link : r \in {q \in Requests : At(q, "answered") /\ IsCall(q, "create")}}

Ask(r, c) ==
  /\ At(r, "idle")
  /\ request' = [request EXCEPT
       ![r].call  = c,
       ![r].at    = CASE c.type = "create" -> "new"
                      [] c.type = "shared" -> "link"
                      [] OTHER -> "track",
       ![r].began = IF c.type = "create" THEN @
                    ELSE [now |-> now, links |-> Told, trip |-> trip, route |-> route]]
  /\ UNCHANGED <<vars, now, links>>

-----------------------------------------------------------------------------
(* CreateShareLink.                                                        *)

Used == {request[r].link.token : r \in {q \in Requests : request[q].link # None}}

\* NewSharedTrip, which fails if no random bytes can be read.
NewSharedTrip(r) ==
  /\ At(r, "new")
  /\ \/ \E k \in Tokens \ Used :
          request' = [request EXCEPT ![r].at   = "save",
                                     ![r].link = [token   |-> k,
                                                  booking |-> request[r].call.booking,
                                                  expires |-> now + Lifetime]]
     \/ Fails(r, "error")
  /\ UNCHANGED <<vars, now, links>>

\* Save may store the link and fail to say so.
SaveLink(r) ==
  /\ At(r, "save")
  /\ \/ /\ links' = links \cup {request[r].link}
        /\ Goes(r, "answered") \/ Fails(r, "error")
     \/ UNCHANGED links /\ Fails(r, "error")
  /\ UNCHANGED <<vars, now>>

-----------------------------------------------------------------------------
(* GetSharedTracking, up to where it goes on like GetTracking.              *)

LinksOf(token) == {l \in links : l.token = token}

FindByToken(r) ==
  /\ At(r, "link")
  /\ \/ \E l \in LinksOf(request[r].call.token) :
          request' = [request EXCEPT ![r].at = "expiry", ![r].link = l]
     \/ LinksOf(request[r].call.token) = {} /\ Goes(r, "not found")
     \/ Fails(r, "not found")
  /\ UNCHANGED <<vars, now, links>>

\* Mutants: a link that ends with its last moment, and one that outlives it.
IsExpiredEarly(l) == now >= l.expires
IsExpiredLate(l)  == now > l.expires + 1
IsExpired(l)      == now > l.expires

CheckExpiry(r) ==
  /\ At(r, "expiry")
  /\ Goes(r, IF IsExpired(request[r].link) THEN "expired" ELSE "track")
  /\ UNCHANGED <<vars, now, links>>

-----------------------------------------------------------------------------
(* The track, then its points.                                             *)

BookingOf(r) ==
  IF IsCall(r, "shared") THEN request[r].link.booking ELSE request[r].call.booking

\* Mutant: the error is dropped, and the track is a zero value.
FindTrackOrZero(r) ==
  LET b == BookingOf(r)
  IN  /\ At(r, "track")
      /\ request' = [request EXCEPT
           ![r].at     = "points",
           ![r].status = IF trip[b] = "none" THEN "" ELSE trip[b],
           ![r].dist   = dist[b]]
      /\ UNCHANGED <<vars, now, links>>

\* FindByBookingID; whatever its error is, the answer is "not found".
FindTrack(r) ==
  LET b == BookingOf(r)
  IN  /\ At(r, "track")
      /\ \/ /\ trip[b] # "none"
            /\ request' = [request EXCEPT
                 ![r].at     = IF IsCall(r, "route") THEN "line" ELSE "points",
                 ![r].status = trip[b],
                 ![r].dist   = dist[b]]
         \/ trip[b] = "none" /\ Goes(r, "not found")
         \/ Fails(r, "not found")
      /\ UNCHANGED <<vars, now, links>>

Answer(r, S) == request' = [request EXCEPT ![r].at = "answered", ![r].points = S]

\* GetRouteAsGeoJSON asks PostGIS first; without it, or without points, the
\* line is built from a second query.
MakeLine(r) ==
  LET S == route[BookingOf(r)]
  IN  /\ At(r, "line")
      /\ \/ S # {} /\ Answer(r, S)
         \/ S = {} /\ Goes(r, "points")
         \/ Fails(r, "points")
      /\ UNCHANGED <<vars, now, links>>

\* Mutants: a shared trip without its points, as GetTracking answers it; and
\* points from a cache, as they were when the request came.
LoadPointsLenient(r) ==
  /\ At(r, "points")
  /\ Answer(r, route[BookingOf(r)]) \/ Answer(r, {})
  /\ UNCHANGED <<vars, now, links>>
LoadPointsCached(r) ==
  /\ At(r, "points")
  /\ Answer(r, request[r].began.route[BookingOf(r)])
  /\ UNCHANGED <<vars, now, links>>

\* GetWaypoints.  Its failure is an error to everybody but GetTracking, which
\* answers without points and does not say so.
LoadPoints(r) ==
  /\ At(r, "points")
  /\ \/ Answer(r, route[BookingOf(r)])
     \/ Fails(r, IF IsCall(r, "tracking") THEN "answered" ELSE "error")
  /\ UNCHANGED <<vars, now, links>>

-----------------------------------------------------------------------------
(* Meanwhile.  The steps of a trip that a reader can see are those that the *)
(* tracks of any number of processes take.                                  *)

TripStep == TripNext /\ UNCHANGED <<now, links, request>>

Tick ==
  /\ now < MaxTime
  /\ now' = now + 1
  /\ UNCHANGED <<vars, links, request>>

Handle(r) ==
  \/ \E c \in Calls : Ask(r, c)
  \/ NewSharedTrip(r) \/ SaveLink(r)
  \/ FindByToken(r)   \/ CheckExpiry(r)
  \/ FindTrack(r)     \/ MakeLine(r)    \/ LoadPoints(r)

ViewNext == (\E r \in Requests : Handle(r)) \/ TripStep \/ Tick

ViewSpec == ViewInit /\ [][ViewNext]_viewVars
-----------------------------------------------------------------------------
(* Properties.                                                             *)

Began ==
  [now : 0..MaxTime, links : SUBSET SharedTrip,
   trip : [Bookings -> {"none", "active", "completed"}], route : [Bookings -> SUBSET Points]]
States == Steps \cup Refusals \cup {"idle", "answered"}
Request ==
  [at : States, call : Calls \cup {None}, link : SharedTrip \cup {None},
   status : {"none", "active", "completed"},
   dist : SUBSET Points, points : SUBSET Points, failed : BOOLEAN, began : Began]

\* Every variable has its type.
ViewTypeOK ==
  /\ now     \in 0..MaxTime
  /\ links   \subseteq SharedTrip
  /\ request \in [Requests -> Request]

\* Requests that were answered with a trip, and with its points: all but
\* those of GetTracking that lost them.
Seen  == {r \in Requests : At(r, "answered") /\ ~IsCall(r, "create")}
Whole == {r \in Seen : IsCall(r, "tracking") => ~request[r].failed}

\* An answer is never older than its request: every point that was stored
\* when it was made is there, through PostGIS or without it, and a trip that
\* was completed by then is not shown under way.  Nothing is made up.
AnswersFresh ==
  \A r \in Whole :
    LET b == BookingOf(r)
        before == request[r].began
    IN  /\ before.route[b] \subseteq request[r].points
        /\ request[r].points \subseteq route[b]
        /\ before.trip[b] = "completed" => request[r].status = "completed"

\* The track and its points are read in two calls while the trip goes on, and
\* yet the distance of that track was measured on points of the answer.  Only
\* GetTracking shows the distance; it would be right for the others too.
DistanceCovered == \A r \in Whole : request[r].dist \subseteq request[r].points

\* A link that was given to its owner works, for a trip that has begun, up to
\* and including its last moment, unless a call of the database fails.
LinkHonoured ==
  \A r \in Requests : \A l \in request[r].began.links :
    /\ IsCall(r, "shared") /\ l.token = request[r].call.token
    /\ request[r].began.trip[l.booking] # "none"
    /\ request[r].at \in Refusals /\ ~request[r].failed
    => now > l.expires

\* After its last moment a link answers only requests that were under way,
\* and what it shows is the trip it was created for.
ExpiredShowsNothing ==
  \A r \in Seen :
    IsCall(r, "shared") =>
      \E l \in links : l.token = request[r].call.token /\ l.booking = BookingOf(r)
                      /\ request[r].began.now <= l.expires

-----------------------------------------------------------------------------
(* The invariant of the proofs.                                            *)

\* A trip's distance was measured on points it had.
TripOK ==
  /\ trip  \in [Bookings -> {"none", "active", "completed"}]
  /\ dist  \in [Bookings -> SUBSET Points]
  /\ route \in [Bookings -> SUBSET Points]
  /\ \A b \in Bookings : dist[b] \subseteq route[b]

\* Whose turn a step is.
StepOK(r) ==
  /\ (request[r].call = None) <=> At(r, "idle")
  /\ At(r, "idle") \/ At(r, "new") => request[r].link = None
  /\ At(r, "new") \/ At(r, "save") => IsCall(r, "create")
  /\ At(r, "link") \/ At(r, "expiry") => IsCall(r, "shared")
  /\ At(r, "line") => IsCall(r, "route")
  /\ At(r, "track") \/ At(r, "points") => ~IsCall(r, "create")
  /\ At(r, "error") => request[r].failed

\* What a request found when it came is still so, or has gone on.
BeganOK(r) ==
  LET before == request[r].began
  IN  /\ before.now <= now
      /\ before.links \subseteq links
      /\ \A b \in Bookings :
           /\ before.route[b] \subseteq route[b]
           /\ before.trip[b] # "none" => trip[b] # "none"
           /\ before.trip[b] = "completed" => trip[b] = "completed"

\* A shared request that found its link holds a row of the table, and one
\* that passed the check came in time.
LinkOK(r) ==
  /\ IsCall(r, "shared")
  /\ request[r].at \in {"expiry", "track", "points", "answered"}
  => /\ request[r].link \in links
     /\ request[r].link.token = request[r].call.token
     /\ ~At(r, "expiry") => request[r].began.now <= request[r].link.expires

\* A copy of a track is as new as its request and not ahead of the route.
CopyOK(r) ==
  At(r, "line") \/ At(r, "points") =>
    LET b == BookingOf(r)
    IN  /\ request[r].dist \subseteq route[b]
        /\ request[r].began.trip[b] = "completed" => request[r].status = "completed"

\* A link is saved before its owner is told.
Creating(r) == request[r].link # None /\ IsCall(r, "create")
CreateOK(r) ==
  /\ IsCall(r, "create") /\ At(r, "save") => request[r].link # None
  /\ IsCall(r, "create") /\ At(r, "answered") => request[r].link \in links

\* No two links share a token, nor do a link and one that is being created.
TokensDiffer ==
  /\ \A q, r \in Requests :
       /\ Creating(q) /\ Creating(r)
       /\ request[q].link.token = request[r].link.token
       => request[q].link = request[r].link
  /\ \A l \in links : \E r \in Requests : Creating(r) /\ request[r].link = l

ViewInv ==
  /\ ViewTypeOK /\ TripOK /\ TokensDiffer
  /\ \A r \in Requests : StepOK(r) /\ BeganOK(r) /\ LinkOK(r) /\ CopyOK(r) /\ CreateOK(r)
  /\ AnswersFresh /\ DistanceCovered /\ LinkHonoured /\ ExpiredShowsNothing
=============================================================================
