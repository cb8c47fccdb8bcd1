-------------------------- MODULE TripViewsProofs --------------------------
(* Proofs that readers of a trip see what TripViews promises, for any       *)
(* bookings, points, tokens and requests, and any lifetime of links.       *)
EXTENDS TripViews, TLAPS

-----------------------------------------------------------------------------
(* Types.                                                                  *)

\* The updates of a request that the handlers make.
LEMMA RequestUpdates ==
  /\ \A q \in Request, s \in States : [q EXCEPT !.at = s] \in Request
  /\ \A q \in Request, s \in States : [q EXCEPT !.at = s, !.failed = TRUE] \in Request
  /\ \A q \in Request, s \in States, l \in SharedTrip : [q EXCEPT !.at = s, !.link = l] \in Request
  /\ \A q \in Request, s \in States, S \in SUBSET Points :
       [q EXCEPT !.at = s, !.points = S] \in Request
  /\ \A q \in Request, s \in States, t \in {"none", "active", "completed"}, S \in SUBSET Points :
       [q EXCEPT !.at = s, !.status = t, !.dist = S] \in Request
  /\ \A q \in Request, s \in States, c \in Calls, w \in Began :
       [q EXCEPT !.call = c, !.at = s, !.began = w] \in Request
<1>1. \A q \in Request, s \in States : [q EXCEPT !.at = s] \in Request
  BY DEF Request
<1>2. \A q \in Request, s \in States : [q EXCEPT !.at = s, !.failed = TRUE] \in Request
  BY DEF Request
<1>3. \A q \in Request, s \in States, l \in SharedTrip : [q EXCEPT !.at = s, !.link = l] \in Request
  BY DEF Request
<1>4. \A q \in Request, s \in States, S \in SUBSET Points :
        [q EXCEPT !.at = s, !.points = S] \in Request
  BY DEF Request
<1>5. \A q \in Request, s \in States, t \in {"none", "active", "completed"}, S \in SUBSET Points :
        [q EXCEPT !.at = s, !.status = t, !.dist = S] \in Request
  BY DEF Request
<1>6. \A q \in Request, s \in States, c \in Calls, w \in Began :
        [q EXCEPT !.call = c, !.at = s, !.began = w] \in Request
  BY DEF Request
<1> QED
  BY <1>1, <1>2, <1>3, <1>4, <1>5, <1>6

\* A request that was not made has its type, and so has the start.
LEMMA TypeInit == ViewInit => ViewTypeOK /\ TripOK
<1>. SUFFICES ASSUME ViewInit PROVE ViewTypeOK /\ TripOK
  OBVIOUS
<1>1. TripOK
  BY DEF ViewInit, Init, TripOK
<1>2. Unasked \in Request
  <2>1. Unasked.began \in Began
    BY <1>1, TimeAssumption DEF Unasked, Began, TripOK, ViewInit
  <2>. QED BY <2>1 DEF Unasked, Request, States
<1>. QED BY <1>1, <1>2, TimeAssumption DEF ViewInit, ViewTypeOK

\* Who was given a link was given one of the table.
LEMMA ToldStored ==
  ASSUME \A r \in Requests : CreateOK(r)
  PROVE  Told \subseteq links
BY DEF CreateOK, Told

\* A request that reads a trip has its booking.
LEMMA BookingType ==
  ASSUME ViewTypeOK, NEW r \in Requests, StepOK(r), LinkOK(r),
         request[r].at \in {"track", "line", "points", "answered"}, ~IsCall(r, "create")
  PROVE  BookingOf(r) \in Bookings
<1>. USE DEF ViewTypeOK
<1>1. request[r].call \in Calls
  BY NoneAssumption DEF StepOK, At, Request
<1>2. CASE IsCall(r, "shared")
  <2>1. request[r].link \in links
    BY <1>2 DEF LinkOK, StepOK, At, IsCall
  <2>. QED BY <1>2, <2>1 DEF BookingOf, SharedTrip
<1>3. CASE ~IsCall(r, "shared")
  <2>1. request[r].call.type # "shared"
    BY <1>1, <1>3, NoneAssumption DEF IsCall
  <2>2. request[r].call.booking \in Bookings
    BY <1>1, <2>1 DEF Calls
  <2>. QED BY <1>3, <2>2 DEF BookingOf
<1>. QED BY <1>2, <1>3

\* Goes and Fails, to any state, keep the type.
LEMMA GoesType ==
  ASSUME request \in [Requests -> Request], NEW r \in Requests, NEW s \in States,
         Goes(r, s) \/ Fails(r, s)
  PROVE  request' \in [Requests -> Request]
<1>1. CASE Goes(r, s)
  BY <1>1, RequestUpdates DEF Goes
<1>2. CASE Fails(r, s)
  BY <1>2, RequestUpdates DEF Fails
<1>. QED BY <1>1, <1>2

\* A step of a request keeps the types.
LEMMA TypeHandle ==
  ASSUME ViewTypeOK, TripOK, \A q \in Requests : CreateOK(q),
         NEW r \in Requests, StepOK(r), LinkOK(r), Handle(r)
  PROVE  request' \in [Requests -> Request] /\ links' \subseteq SharedTrip
<1>. USE DEF ViewTypeOK
<1>1. ASSUME NEW c \in Calls, Ask(r, c) PROVE request' \in [Requests -> Request]
  <2>. DEFINE s == CASE c.type = "create" -> "new" [] c.type = "shared" -> "link" [] OTHER -> "track"
              w == IF c.type = "create" THEN request[r].began
                   ELSE [now |-> now, links |-> Told, trip |-> trip, route |-> route]
  <2>1. s \in States
    BY DEF States, Steps
  <2>2. request[r].began \in Began
    BY DEF Request
  <2>3. [now |-> now, links |-> Told, trip |-> trip, route |-> route] \in Began
    BY ToldStored DEF Began, TripOK
  <2>4. w \in Began
    BY <2>2, <2>3
  <2>5. request' = [request EXCEPT ![r] = [request[r] EXCEPT !.call = c, !.at = s, !.began = w]]
    BY <1>1 DEF Ask
  <2>. HIDE DEF s, w
  <2>. QED BY <2>1, <2>4, <2>5, RequestUpdates
<1>2. ASSUME NewSharedTrip(r) PROVE request' \in [Requests -> Request]
  <2>1. CASE Fails(r, "error")
    BY <2>1, GoesType DEF States, Refusals
  <2>2. ASSUME NEW k \in Tokens,
               request' = [request EXCEPT ![r].at   = "save",
                                          ![r].link = [token   |-> k,
                                                       booking |-> request[r].call.booking,
                                                       expires |-> now + Lifetime]]
        PROVE  request' \in [Requests -> Request]
    <3>1. request[r].call \in Calls /\ request[r].call.type = "create"
      BY <1>2, NoneAssumption DEF NewSharedTrip, StepOK, At, IsCall, Request
    <3>2. request[r].call.booking \in Bookings
      BY <3>1 DEF Calls
    <3>3. [token |-> k, booking |-> request[r].call.booking, expires |-> now + Lifetime] \in SharedTrip
      BY <3>2, TimeAssumption DEF SharedTrip
    <3>. QED BY <2>2, <3>3, RequestUpdates DEF States, Steps
  <2>. QED BY <1>2, <2>1, <2>2 DEF NewSharedTrip
<1>3. ASSUME SaveLink(r) PROVE request' \in [Requests -> Request] /\ links' \subseteq SharedTrip
  <2>1. request' \in [Requests -> Request]
    BY <1>3, GoesType DEF SaveLink, States, Refusals
  <2>2. request[r].link \in SharedTrip
    BY <1>3 DEF SaveLink, CreateOK, StepOK, At, IsCall, Request
  <2>. QED BY <1>3, <2>1, <2>2 DEF SaveLink
<1>4. ASSUME FindByToken(r) PROVE request' \in [Requests -> Request]
  <2>1. ASSUME NEW l \in LinksOf(request[r].call.token),
               request' = [request EXCEPT ![r].at = "expiry", ![r].link = l]
        PROVE  request' \in [Requests -> Request]
    BY <2>1, RequestUpdates DEF LinksOf, States, Steps
  <2>2. CASE Goes(r, "not found") \/ Fails(r, "not found")
    BY <2>2, GoesType DEF States, Refusals
  <2>. QED BY <1>4, <2>1, <2>2 DEF FindByToken
<1>5. ASSUME CheckExpiry(r) PROVE request' \in [Requests -> Request]
  BY <1>5, GoesType DEF CheckExpiry, States, Steps, Refusals
<1>6. ASSUME FindTrack(r) PROVE request' \in [Requests -> Request]
  <2>. DEFINE b == BookingOf(r)
  <2>1. CASE Goes(r, "not found") \/ Fails(r, "not found")
    BY <2>1, GoesType DEF States, Refusals
  <2>2. ASSUME trip[b] # "none",
               request' = [request EXCEPT
                 ![r].at     = IF IsCall(r, "route") THEN "line" ELSE "points",
                 ![r].status = trip[b],
                 ![r].dist   = dist[b]]
        PROVE  request' \in [Requests -> Request]
    <3>1. b \in Bookings
      BY <1>6, BookingType DEF FindTrack, At, StepOK, IsCall
    <3>. QED BY <2>2, <3>1, RequestUpdates DEF TripOK, States, Steps
  <2>. QED BY <1>6, <2>1, <2>2 DEF FindTrack
<1>7. ASSUME MakeLine(r) PROVE request' \in [Requests -> Request]
  <2>1. BookingOf(r) \in Bookings
    BY <1>7, BookingType DEF MakeLine, At, StepOK, IsCall
  <2>2. CASE Answer(r, route[BookingOf(r)])
    BY <2>1, <2>2, RequestUpdates DEF Answer, TripOK, States
  <2>3. CASE Goes(r, "points") \/ Fails(r, "points")
    BY <2>3, GoesType DEF States, Steps
  <2>. QED BY <1>7, <2>2, <2>3 DEF MakeLine
<1>8. ASSUME LoadPoints(r) PROVE request' \in [Requests -> Request]
  <2>1. BookingOf(r) \in Bookings
    BY <1>8, BookingType DEF LoadPoints, At, StepOK, IsCall
  <2>2. CASE Answer(r, route[BookingOf(r)])
    BY <2>1, <2>2, RequestUpdates DEF Answer, TripOK, States
  <2>3. CASE Fails(r, IF IsCall(r, "tracking") THEN "answered" ELSE "error")
    BY <2>3, GoesType DEF States, Refusals
  <2>. QED BY <1>8, <2>2, <2>3 DEF LoadPoints
<1>9. SaveLink(r) \/ links' = links
  BY DEF Handle, Ask, NewSharedTrip, FindByToken, CheckExpiry, FindTrack, MakeLine, LoadPoints
<1>. QED BY <1>1, <1>2, <1>3, <1>4, <1>5, <1>6, <1>7, <1>8, <1>9 DEF Handle

\* The trips go on only forwards, whoever moves.
LEMMA TripStepForwards ==
  ASSUME TripOK, [TripStep]_<<trip, dist, route>>
  PROVE  /\ TripOK'
         /\ \A b \in Bookings :
              /\ route[b] \subseteq route'[b]
              /\ trip[b] # "none" => trip'[b] # "none"
              /\ trip[b] = "completed" => trip'[b] = "completed"
<1>. USE DEF TripOK
<1>1. ASSUME NEW b \in Bookings, Start(b) PROVE TripOK'
  BY <1>1 DEF Start
<1>2. ASSUME NEW b \in Bookings, NEW p \in Points, Gather(b, p) PROVE TripOK'
  BY <1>2 DEF Gather
<1>3. ASSUME NEW b \in Bookings, NEW d \in Distances, Complete(b, d) \/ Recomplete(b, d)
      PROVE  TripOK'
  BY <1>3 DEF Complete, Recomplete, Distances
<1>4. CASE UNCHANGED <<trip, dist, route>>
  BY <1>4
<1>5. TripOK'
  BY <1>1, <1>2, <1>3, <1>4 DEF TripStep, TripNext
<1>6. ASSUME NEW b \in Bookings
      PROVE  /\ route[b] \subseteq route'[b]
             /\ trip[b] # "none" => trip'[b] # "none"
             /\ trip[b] = "completed" => trip'[b] = "completed"
  BY DEF TripStep, TripNext, Start, Gather, Complete, Recomplete
<1>. QED BY <1>5, <1>6

-----------------------------------------------------------------------------
(* Steps.                                                                  *)

\* No step of a reader, a trip or the clock breaks a type.
LEMMA TypeStep ==
  ASSUME ViewInv, [ViewNext]_viewVars
  PROVE  ViewTypeOK' /\ TripOK'
<1>1. ASSUME NEW r \in Requests, Handle(r) PROVE ViewTypeOK' /\ TripOK'
  <2>1. request' \in [Requests -> Request] /\ links' \subseteq SharedTrip
    BY <1>1, TypeHandle DEF ViewInv
  <2>2. UNCHANGED <<vars, now>>
    BY <1>1 DEF Handle, Ask, NewSharedTrip, SaveLink, FindByToken, CheckExpiry, FindTrack,
                MakeLine, LoadPoints
  <2>. QED BY <2>1, <2>2 DEF ViewInv, ViewTypeOK, TripOK, vars
<1>2. CASE TripStep
  BY <1>2, TripStepForwards DEF TripStep, ViewInv, ViewTypeOK
<1>3. CASE Tick
  BY <1>3, TimeAssumption DEF Tick, ViewInv, ViewTypeOK, TripOK, vars
<1>4. CASE UNCHANGED viewVars
  BY <1>4 DEF viewVars, ViewInv, ViewTypeOK, TripOK, vars
<1>. QED BY <1>1, <1>2, <1>3, <1>4 DEF ViewNext

\* Time, links and trips only go on.
LEMMA Forwards ==
  ASSUME ViewInv, [ViewNext]_viewVars
  PROVE  /\ now <= now'
         /\ links \subseteq links'
         /\ \A b \in Bookings :
              /\ route[b] \subseteq route'[b]
              /\ trip[b] # "none" => trip'[b] # "none"
              /\ trip[b] = "completed" => trip'[b] = "completed"
<1>1. now \in Nat /\ TripOK
  BY TimeAssumption DEF ViewInv, ViewTypeOK
<1>2. now' = now \/ now' = now + 1
  BY DEF ViewNext, viewVars, TripStep, Tick, Handle, Ask, NewSharedTrip, SaveLink, FindByToken,
         CheckExpiry, FindTrack, MakeLine, LoadPoints
<1>3. links \subseteq links'
  BY DEF ViewNext, viewVars, TripStep, Tick, Handle, Ask, NewSharedTrip, SaveLink, FindByToken,
         CheckExpiry, FindTrack, MakeLine, LoadPoints
<1>4. [TripStep]_<<trip, dist, route>>
  BY DEF ViewNext, viewVars, vars, Tick, Handle, Ask, NewSharedTrip, SaveLink, FindByToken,
         CheckExpiry, FindTrack, MakeLine, LoadPoints
<1>. QED BY <1>1, <1>2, <1>3, <1>4, TripStepForwards

\* A step changes the request that makes it, at most, and then nothing else
\* but the table of links.
LEMMA OneMoves ==
  ASSUME ViewInv, [ViewNext]_viewVars
  PROVE  \/ UNCHANGED <<links, request>>
         \/ \E r \in Requests :
              /\ Handle(r)
              /\ UNCHANGED <<vars, now>>
              /\ \A q \in Requests \ {r} : request'[q] = request[q]
<1>1. ASSUME NEW r \in Requests, Handle(r)
      PROVE  UNCHANGED <<vars, now>> /\ \A q \in Requests \ {r} : request'[q] = request[q]
  BY <1>1 DEF Handle, Ask, NewSharedTrip, SaveLink, FindByToken, CheckExpiry, FindTrack, MakeLine,
              LoadPoints, Goes, Fails, Answer, ViewInv, ViewTypeOK
<1>. QED BY <1>1 DEF ViewNext, viewVars, TripStep, Tick

\* What the steps of a request do to it.
LEMMA Asked ==
  ASSUME ViewInv, NEW r \in Requests, NEW c \in Calls, Ask(r, c)
  PROVE  /\ At(r, "idle")
         /\ request'[r].call = c
         /\ request'[r].link = None
         /\ request'[r].failed = request[r].failed
         /\ request'[r].at = (CASE c.type = "create" -> "new" [] c.type = "shared" -> "link"
                                [] OTHER -> "track")
         /\ request'[r].began = request[r].began \/
              request'[r].began = [now |-> now, links |-> Told, trip |-> trip, route |-> route]
BY DEF Ask, ViewInv, ViewTypeOK, StepOK, Request

\* A step that only goes on, or fails, leaves alone what the request holds.
LEMMA Moved ==
  ASSUME ViewInv, NEW r \in Requests, NEW s, Goes(r, s) \/ Fails(r, s)
  PROVE  /\ request'[r].at = s
         /\ request'[r].call = request[r].call
         /\ request'[r].began = request[r].began
         /\ request'[r].link = request[r].link
         /\ request'[r].status = request[r].status
         /\ request'[r].dist = request[r].dist
         /\ request'[r].points = request[r].points
         /\ Goes(r, s) => request'[r].failed = request[r].failed
         /\ Fails(r, s) => request'[r].failed
BY DEF Goes, Fails, ViewInv, ViewTypeOK, Request

\* An answer takes the points and leaves the rest alone.
LEMMA Answers ==
  ASSUME ViewInv, NEW r \in Requests, NEW S, Answer(r, S)
  PROVE  /\ request'[r].at = "answered"
         /\ request'[r].call = request[r].call
         /\ request'[r].began = request[r].began
         /\ request'[r].link = request[r].link
         /\ request'[r].status = request[r].status
         /\ request'[r].dist = request[r].dist
         /\ request'[r].points = S
         /\ request'[r].failed = request[r].failed
BY DEF Answer, ViewInv, ViewTypeOK, Request

\* A new link has a token that no link had.
LEMMA Created ==
  ASSUME ViewInv, NEW r \in Requests, NewSharedTrip(r)
  PROVE  /\ At(r, "new") /\ IsCall(r, "create")
         /\ request'[r].call = request[r].call
         /\ request'[r].began = request[r].began
         /\ \/ request'[r].at = "error" /\ request'[r].failed /\ request'[r].link = None
            \/ /\ request'[r].at = "save"
               /\ request'[r].link \in SharedTrip
               /\ request'[r].link.token \notin Used
<1>1. At(r, "new") /\ IsCall(r, "create")
  BY DEF NewSharedTrip, ViewInv, StepOK
<1>2. request'[r].link \in SharedTrip \cup {None}
  BY TypeHandle DEF ViewInv, Handle, ViewTypeOK, Request
<1>3. CASE Fails(r, "error")
  <2>1. request[r].link = None
    BY <1>1 DEF ViewInv, StepOK
  <2>. QED BY <1>1, <1>3, <2>1, Moved
<1>4. ASSUME NEW k \in Tokens \ Used,
             request' = [request EXCEPT ![r].at   = "save",
                                        ![r].link = [token   |-> k,
                                                     booking |-> request[r].call.booking,
                                                     expires |-> now + Lifetime]]
      PROVE  /\ request'[r].call = request[r].call
             /\ request'[r].began = request[r].began
             /\ request'[r].at = "save"
             /\ request'[r].link \in SharedTrip
             /\ request'[r].link.token \notin Used
  <2>1. /\ request'[r].call = request[r].call
        /\ request'[r].began = request[r].began
        /\ request'[r].at = "save"
        /\ request'[r].link = [token   |-> k,
                               booking |-> request[r].call.booking,
                               expires |-> now + Lifetime]
    BY <1>4 DEF ViewInv, ViewTypeOK, Request
  <2>2. request[r].call \in Calls /\ request[r].call.type = "create"
    BY <1>1 DEF ViewInv, ViewTypeOK, IsCall, Request
  <2>3. request'[r].link \in SharedTrip
    BY <2>1, <2>2, TimeAssumption DEF SharedTrip, Calls, ViewInv, ViewTypeOK
  <2>. QED BY <2>1, <2>3
<1>. QED BY <1>1, <1>3, <1>4 DEF NewSharedTrip

\* A shared request goes on with a row that has its token.
LEMMA Found ==
  ASSUME ViewInv, NEW r \in Requests, FindByToken(r)
  PROVE  /\ At(r, "link") /\ IsCall(r, "shared")
         /\ request'[r].call = request[r].call
         /\ request'[r].began = request[r].began
         /\ \/ /\ request'[r].at = "not found"
               /\ LinksOf(request[r].call.token) = {} \/ request'[r].failed
            \/ /\ request'[r].at = "expiry"
               /\ request'[r].failed = request[r].failed
               /\ request'[r].link \in LinksOf(request[r].call.token)
<1>1. At(r, "link") /\ IsCall(r, "shared")
  BY DEF FindByToken, ViewInv, StepOK
<1>2. CASE Fails(r, "not found") \/ (LinksOf(request[r].call.token) = {} /\ Goes(r, "not found"))
  BY <1>1, <1>2, Moved
<1>3. ASSUME NEW l \in LinksOf(request[r].call.token),
             request' = [request EXCEPT ![r].at = "expiry", ![r].link = l]
      PROVE  /\ request'[r].call = request[r].call
             /\ request'[r].began = request[r].began
             /\ request'[r].at = "expiry"
             /\ request'[r].failed = request[r].failed
             /\ request'[r].link = l
  BY <1>3 DEF ViewInv, ViewTypeOK, Request
<1>4. CASE \E l \in LinksOf(request[r].call.token) :
             request' = [request EXCEPT ![r].at = "expiry", ![r].link = l]
  BY <1>1, <1>3, <1>4
<1>. QED BY <1>2, <1>4 DEF FindByToken

\* A request goes on with the track as it is now.
LEMMA Tracked ==
  ASSUME ViewInv, NEW r \in Requests, FindTrack(r)
  PROVE  /\ At(r, "track") /\ ~IsCall(r, "create") /\ BookingOf(r) \in Bookings
         /\ request'[r].call = request[r].call
         /\ request'[r].began = request[r].began
         /\ request'[r].link = request[r].link
         /\ \/ /\ request'[r].at = "not found"
               /\ trip[BookingOf(r)] = "none" \/ request'[r].failed
            \/ /\ request'[r].at = (IF IsCall(r, "route") THEN "line" ELSE "points")
               /\ request'[r].failed = request[r].failed
               /\ request'[r].status = trip[BookingOf(r)]
               /\ request'[r].dist = dist[BookingOf(r)]
<1>1. At(r, "track") /\ ~IsCall(r, "create")
  BY DEF FindTrack, ViewInv, StepOK
<1>2. BookingOf(r) \in Bookings
  BY <1>1, BookingType DEF At, ViewInv
<1>3. CASE Fails(r, "not found") \/ (trip[BookingOf(r)] = "none" /\ Goes(r, "not found"))
  BY <1>1, <1>2, <1>3, Moved
<1>4. CASE request' = [request EXCEPT
             ![r].at     = IF IsCall(r, "route") THEN "line" ELSE "points",
             ![r].status = trip[BookingOf(r)],
             ![r].dist   = dist[BookingOf(r)]]
  <2>1. /\ request'[r].call = request[r].call
        /\ request'[r].began = request[r].began
        /\ request'[r].link = request[r].link
        /\ request'[r].at = (IF IsCall(r, "route") THEN "line" ELSE "points")
        /\ request'[r].failed = request[r].failed
        /\ request'[r].status = trip[BookingOf(r)]
        /\ request'[r].dist = dist[BookingOf(r)]
    BY <1>4 DEF ViewInv, ViewTypeOK, Request
  <2>. QED BY <1>1, <1>2, <2>1
<1>. QED BY <1>3, <1>4 DEF FindTrack

\* The steps of a request that only move it, with its answer if they give one.
LEMMA Stepped ==
  ASSUME ViewInv, NEW r \in Requests, SaveLink(r) \/ CheckExpiry(r) \/ MakeLine(r) \/ LoadPoints(r)
  PROVE  /\ request'[r].call = request[r].call
         /\ request'[r].began = request[r].began
         /\ request'[r].link = request[r].link
         /\ request'[r].status = request[r].status
         /\ request'[r].dist = request[r].dist
<1>1. (\E s : Goes(r, s) \/ Fails(r, s)) \/ (\E S : Answer(r, S))
  BY DEF SaveLink, CheckExpiry, MakeLine, LoadPoints
<1>. QED BY <1>1, Moved, Answers

-----------------------------------------------------------------------------
(* The parts of the invariant, one by one.  Of a part that speaks of one    *)
(* request only a step of that request needs thought.                      *)

\* Where a request stands tells what it asked for.
LEMMA StepOKStep ==
  ASSUME ViewInv, NEW r \in Requests, Handle(r)
  PROVE  StepOK(r)'
<1>. USE DEF At, IsCall
<1>0. StepOK(r) /\ (request[r].call = None => request[r].at = "idle")
  BY DEF ViewInv, StepOK
<1>1. ASSUME NEW c \in Calls, Ask(r, c) PROVE StepOK(r)'
  BY <1>1, Asked, NoneAssumption DEF Calls, StepOK
<1>2. CASE NewSharedTrip(r)
  BY <1>0, <1>2, Created DEF StepOK
<1>3. CASE SaveLink(r)
  BY <1>0, <1>3, Moved DEF SaveLink, StepOK
<1>4. CASE FindByToken(r)
  BY <1>0, <1>4, Found DEF StepOK
<1>5. CASE CheckExpiry(r)
  BY <1>0, <1>5, Moved DEF CheckExpiry, StepOK
<1>6. CASE FindTrack(r)
  BY <1>0, <1>6, Tracked DEF StepOK
<1>7. CASE MakeLine(r)
  BY <1>0, <1>7, Moved, Answers DEF MakeLine, StepOK
<1>8. CASE LoadPoints(r)
  BY <1>0, <1>8, Moved, Answers DEF LoadPoints, StepOK
<1>. QED BY <1>1, <1>2, <1>3, <1>4, <1>5, <1>6, <1>7, <1>8 DEF Handle

\* What a request found when it came, nothing takes back.
LEMMA BeganOKStep ==
  ASSUME ViewInv, [ViewNext]_viewVars, NEW r \in Requests,
         request'[r].began = request[r].began \/ \E c \in Calls : Ask(r, c)
  PROVE  BeganOK(r)'
<1>0. BeganOK(r) /\ now \in Nat /\ now' \in Nat /\ request[r].began.now \in Nat
  BY TypeStep, TimeAssumption DEF ViewInv, ViewTypeOK, Request, Began
<1>1. CASE request'[r].began = request[r].began
  BY <1>0, <1>1, Forwards DEF BeganOK
<1>2. ASSUME NEW c \in Calls, Ask(r, c),
             request'[r].began = [now |-> now, links |-> Told, trip |-> trip, route |-> route]
      PROVE  BeganOK(r)'
  BY <1>0, <1>2, ToldStored, Forwards DEF BeganOK, ViewInv
<1>. QED BY <1>1, <1>2, Asked

\* The copy of a track never runs ahead of the route.
LEMMA CopyOKStep ==
  ASSUME ViewInv, NEW r \in Requests, Handle(r)
  PROVE  CopyOK(r)'
<1>. USE DEF At, IsCall, BookingOf
<1>0. CopyOK(r) /\ StepOK(r) /\ BeganOK(r) /\ TripOK
  BY DEF ViewInv
<1>1. ASSUME NEW c \in Calls, Ask(r, c) PROVE CopyOK(r)'
  BY <1>1, Asked DEF CopyOK
<1>2. CASE NewSharedTrip(r)
  BY <1>2, Created DEF CopyOK
<1>3. CASE SaveLink(r)
  BY <1>3, Moved DEF SaveLink, CopyOK
<1>4. CASE FindByToken(r)
  BY <1>4, Found DEF CopyOK
<1>5. CASE CheckExpiry(r)
  BY <1>5, Moved DEF CheckExpiry, CopyOK
<1>6. CASE FindTrack(r)
  <2>1. UNCHANGED <<trip, dist, route>>
    BY <1>6 DEF FindTrack, vars
  <2>. DEFINE b == BookingOf(r)
  <2>2. b \in Bookings /\ BookingOf(r)' = b /\ request'[r].began = request[r].began
    BY <1>6, Tracked
  <2>3. CASE request'[r].at = "not found"
    BY <2>3 DEF CopyOK
  <2>4. CASE request'[r].status = trip[b] /\ request'[r].dist = dist[b]
    <3>1. dist[b] \subseteq route'[b]
      BY <1>0, <2>1, <2>2 DEF TripOK
    <3>2. request[r].began.trip[b] = "completed" => trip[b] = "completed"
      BY <1>0, <2>2 DEF BeganOK
    <3>. HIDE DEF b
    <3>. QED BY <2>2, <2>4, <3>1, <3>2 DEF CopyOK, b
  <2>. QED BY <1>6, <2>3, <2>4, Tracked
<1>7. CASE MakeLine(r)
  <2>1. UNCHANGED <<trip, dist, route>> /\ At(r, "line")
    BY <1>7 DEF MakeLine, vars
  <2>. QED BY <1>0, <1>7, <2>1, Stepped DEF CopyOK
<1>8. CASE LoadPoints(r)
  BY <1>8, Moved, Answers DEF LoadPoints, CopyOK
<1>. QED BY <1>1, <1>2, <1>3, <1>4, <1>5, <1>6, <1>7, <1>8 DEF Handle

\* Past the check, a link had not expired when its request came.
LEMMA LinkOKStep ==
  ASSUME ViewInv, NEW r \in Requests, Handle(r)
  PROVE  LinkOK(r)'
<1>. USE DEF At, IsCall
<1>0. LinkOK(r) /\ StepOK(r) /\ BeganOK(r) /\ links \subseteq SharedTrip
  BY DEF ViewInv, ViewTypeOK
<1>1. ASSUME NEW c \in Calls, Ask(r, c) PROVE LinkOK(r)'
  BY <1>1, Asked DEF Calls, LinkOK
<1>2. CASE NewSharedTrip(r)
  BY <1>2, Created DEF LinkOK
<1>3. CASE SaveLink(r)
  BY <1>0, <1>3, Stepped DEF SaveLink, StepOK, LinkOK
<1>4. CASE FindByToken(r)
  BY <1>4, Found DEF FindByToken, LinksOf, LinkOK
<1>5. CASE CheckExpiry(r)
  <2>1. UNCHANGED links /\ request[r].at = "expiry"
    BY <1>5 DEF CheckExpiry
  <2>2. CASE IsExpired(request[r].link)
    BY <1>5, <2>2, Moved DEF CheckExpiry, LinkOK
  <2>3. CASE ~IsExpired(request[r].link) /\ IsCall(r, "shared")
    <3>1. request[r].link \in links /\ request[r].link.token = request[r].call.token
      BY <1>0, <2>1, <2>3 DEF LinkOK
    <3>2. request[r].link.expires \in Nat
      BY <1>0, <3>1 DEF SharedTrip
    <3>3. now \in Nat /\ request[r].began.now \in Nat /\ request[r].began.now <= now
      BY <1>0, TimeAssumption DEF ViewInv, ViewTypeOK, Request, Began, BeganOK
    <3>4. request[r].began.now <= request[r].link.expires
      BY <2>3, <3>2, <3>3 DEF IsExpired
    <3>5. Goes(r, "track")
      BY <1>5, <2>3 DEF CheckExpiry
    <3>. QED BY <2>1, <3>1, <3>4, <3>5, Moved DEF LinkOK
  <2>. QED BY <1>0, <2>1, <2>2, <2>3 DEF StepOK
<1>6. CASE FindTrack(r)
  <2>1. UNCHANGED links
    BY <1>6 DEF FindTrack
  <2>. QED BY <1>0, <1>6, <2>1, Tracked DEF LinkOK
<1>7. CASE MakeLine(r)
  <2>1. UNCHANGED links /\ ~IsCall(r, "shared")
    BY <1>0, <1>7 DEF MakeLine, StepOK
  <2>. QED BY <1>7, <2>1, Stepped DEF LinkOK
<1>8. CASE LoadPoints(r)
  <2>1. UNCHANGED links /\ request[r].at = "points"
    BY <1>8 DEF LoadPoints
  <2>. QED BY <1>0, <1>8, <2>1, Stepped DEF LinkOK
<1>. QED BY <1>1, <1>2, <1>3, <1>4, <1>5, <1>6, <1>7, <1>8 DEF Handle

\* Who is told of a link is told after it was saved.
LEMMA CreateOKStep ==
  ASSUME ViewInv, NEW r \in Requests, Handle(r)
  PROVE  CreateOK(r)'
<1>. USE DEF At, IsCall
<1>0. CreateOK(r) /\ StepOK(r) /\ None \notin SharedTrip
  BY NoneAssumption DEF ViewInv
<1>1. ASSUME NEW c \in Calls, Ask(r, c) PROVE CreateOK(r)'
  BY <1>1, Asked DEF CreateOK
<1>2. CASE NewSharedTrip(r)
  BY <1>0, <1>2, Created DEF CreateOK
<1>3. CASE SaveLink(r)
  <2>1. CASE Fails(r, "error")
    BY <2>1, Moved DEF CreateOK
  <2>2. CASE Goes(r, "answered")
    <3>1. request'[r].at = "answered" /\ request'[r].link = request[r].link
      BY <2>2, Moved
    <3>2. ~Fails(r, "error")
      BY <3>1, Moved
    <3>3. request[r].link \in links'
      BY <1>3, <3>2 DEF SaveLink
    <3>. QED BY <3>1, <3>3 DEF CreateOK
  <2>. QED BY <1>3, <2>1, <2>2 DEF SaveLink
<1>4. CASE FindByToken(r)
  BY <1>4, Found DEF CreateOK
<1>5. CASE CheckExpiry(r)
  BY <1>5, Moved DEF CheckExpiry, CreateOK
<1>6. CASE FindTrack(r)
  BY <1>6, Tracked DEF CreateOK
<1>7. CASE MakeLine(r)
  BY <1>0, <1>7, Stepped DEF MakeLine, StepOK, CreateOK
<1>8. CASE LoadPoints(r)
  BY <1>0, <1>8, Stepped DEF LoadPoints, StepOK, CreateOK
<1>. QED BY <1>1, <1>2, <1>3, <1>4, <1>5, <1>6, <1>7, <1>8 DEF Handle

\* A token names one link, saved or not.
LEMMA TokensDifferStep ==
  ASSUME ViewInv, NEW r \in Requests, Handle(r),
         \A q \in Requests \ {r} : request'[q] = request[q]
  PROVE  TokensDiffer'
<1>. USE DEF At, IsCall
<1>0. TokensDiffer /\ StepOK(r) /\ CreateOK(r) /\ None \notin SharedTrip
  BY NoneAssumption DEF ViewInv
<1>1. \A q \in Requests \ {r} : request'[q] = request[q] /\ (Creating(q)' <=> Creating(q))
  BY DEF Creating
<1>2. CASE /\ request'[r].link = request[r].link \/ ~Creating(r)'
           /\ Creating(r)' <=> Creating(r)
           /\ UNCHANGED links
  BY <1>0, <1>1, <1>2 DEF TokensDiffer
<1>3. CASE SaveLink(r)
  <2>1. request'[r].link = request[r].link /\ (Creating(r)' <=> Creating(r))
    BY <1>3, Stepped DEF Creating
  <2>2. Creating(r) /\ links' \subseteq links \cup {request[r].link}
    BY <1>0, <1>3 DEF SaveLink, StepOK, CreateOK, Creating
  <2>3. \A q \in Requests : request'[q].link = request[q].link /\ (Creating(q)' <=> Creating(q))
    BY <1>1, <2>1
  <2>. QED BY <1>0, <2>2, <2>3 DEF TokensDiffer
<1>4. CASE NewSharedTrip(r)
  <2>1. ~Creating(r) /\ UNCHANGED links
    BY <1>0, <1>4 DEF NewSharedTrip, StepOK, Creating
  <2>2. CASE request'[r].link = None
    BY <1>0, <1>1, <2>1, <2>2 DEF TokensDiffer, Creating
  <2>3. CASE request'[r].link.token \notin Used
    <3>1. \A q \in Requests \ {r} : Creating(q) => request[q].link.token \in Used
      BY DEF Creating, Used
    <3>2. \A q, t \in Requests :
            /\ Creating(q)' /\ Creating(t)'
            /\ request'[q].link.token = request'[t].link.token
            => request'[q].link = request'[t].link
      BY <1>0, <1>1, <2>3, <3>1 DEF TokensDiffer
    <3>3. \A l \in links' : \E q \in Requests : Creating(q)' /\ request'[q].link = l
      BY <1>0, <1>1, <2>1 DEF TokensDiffer
    <3>. QED BY <3>2, <3>3 DEF TokensDiffer
  <2>. QED BY <1>4, <2>2, <2>3, Created
<1>5. ASSUME NEW c \in Calls, Ask(r, c) PROVE TokensDiffer'
  BY <1>0, <1>2, <1>5, Asked DEF Ask, StepOK, Creating
<1>6. CASE FindByToken(r)
  BY <1>2, <1>6, Found DEF FindByToken, Creating
<1>7. CASE FindTrack(r)
  BY <1>2, <1>7, Tracked DEF FindTrack, Creating
<1>8. CASE CheckExpiry(r) \/ MakeLine(r) \/ LoadPoints(r)
  BY <1>2, <1>8, Stepped DEF CheckExpiry, MakeLine, LoadPoints, Creating
<1>. QED BY <1>3, <1>4, <1>5, <1>6, <1>7, <1>8 DEF Handle

-----------------------------------------------------------------------------
(* What the requests are answered.                                         *)

\* An answer to a reader comes from MakeLine or LoadPoints, with the route as
\* it is; or it is GetTracking's, and says that the points are missing.
LEMMA Answering ==
  ASSUME ViewInv, NEW r \in Requests, Handle(r),
         request'[r].at = "answered", ~IsCall(r, "create")'
  PROVE  /\ At(r, "line") \/ At(r, "points")
         /\ BookingOf(r) \in Bookings /\ BookingOf(r)' = BookingOf(r)
         /\ UNCHANGED <<trip, dist, route>>
         /\ request'[r].began = request[r].began
         /\ request'[r].status = request[r].status
         /\ request'[r].dist = request[r].dist
         /\ \/ request'[r].points = route[BookingOf(r)]
            \/ IsCall(r, "tracking")' /\ request'[r].failed
<1>. USE DEF At, IsCall
<1>0. StepOK(r) /\ LinkOK(r)
  BY DEF ViewInv
<1>1. MakeLine(r) \/ LoadPoints(r)
  <2>1. ASSUME NEW c \in Calls PROVE ~Ask(r, c)
    BY Asked DEF Calls
  <2>2. ~NewSharedTrip(r)
    BY Created
  <2>3. ~SaveLink(r)
    BY <1>0, Stepped DEF SaveLink, StepOK
  <2>4. ~FindByToken(r)
    BY Found
  <2>5. ~CheckExpiry(r)
    BY Moved DEF CheckExpiry
  <2>6. ~FindTrack(r)
    BY Tracked
  <2>. QED BY <2>1, <2>2, <2>3, <2>4, <2>5, <2>6 DEF Handle
<1>2. /\ request'[r].call = request[r].call
      /\ request'[r].began = request[r].began
      /\ request'[r].link = request[r].link
      /\ request'[r].status = request[r].status
      /\ request'[r].dist = request[r].dist
  BY <1>1, Stepped
<1>3. UNCHANGED <<trip, dist, route>> /\ (At(r, "line") \/ At(r, "points"))
  BY <1>1 DEF MakeLine, LoadPoints, vars
<1>4. BookingOf(r) \in Bookings /\ BookingOf(r)' = BookingOf(r)
  BY <1>0, <1>2, <1>3, BookingType DEF BookingOf, ViewInv, StepOK
<1>5. \/ request'[r].points = route[BookingOf(r)]
      \/ IsCall(r, "tracking")' /\ request'[r].failed
  <2>1. CASE MakeLine(r)
    <3>1. Answer(r, route[BookingOf(r)])
      BY <2>1, Moved DEF MakeLine
    <3>. QED BY <3>1, Answers
  <2>2. CASE LoadPoints(r)
    <3>1. CASE Answer(r, route[BookingOf(r)])
      BY <3>1, Answers
    <3>2. CASE Fails(r, IF IsCall(r, "tracking") THEN "answered" ELSE "error")
      BY <1>2, <3>2, Moved
    <3>. QED BY <2>2, <3>1, <3>2 DEF LoadPoints
  <2>. QED BY <1>1, <2>1, <2>2
<1>. QED BY <1>2, <1>3, <1>4, <1>5

\* What AnswersFresh and DistanceCovered say of one request.
Covered(r) ==
  r \in Whole =>
    LET b == BookingOf(r)
        before == request[r].began
    IN  /\ before.route[b] \subseteq request[r].points
        /\ request[r].points \subseteq route[b]
        /\ before.trip[b] = "completed" => request[r].status = "completed"
        /\ request[r].dist \subseteq request[r].points

\* AnswersFresh and DistanceCovered speak of one request at a time.
LEMMA CoveredIff == (AnswersFresh /\ DistanceCovered) <=> \A r \in Requests : Covered(r)
BY DEF AnswersFresh, DistanceCovered, Covered, Whole, Seen

\* A request that is answered now is answered in full.
LEMMA CoveredStep ==
  ASSUME ViewInv, NEW r \in Requests, Handle(r)
  PROVE  Covered(r)'
<1>. SUFFICES ASSUME (r \in Whole)' PROVE Covered(r)'
  BY DEF Covered
<1>1. request'[r].at = "answered" /\ ~IsCall(r, "create")' /\ ~(IsCall(r, "tracking")' /\ request'[r].failed)
  BY DEF Whole, Seen, At
<1>. DEFINE b == BookingOf(r)
<1>2. CopyOK(r) /\ BeganOK(r)
  BY DEF ViewInv
<1>3. /\ At(r, "line") \/ At(r, "points")
      /\ b \in Bookings /\ BookingOf(r)' = b
      /\ UNCHANGED <<trip, dist, route>>
      /\ request'[r].began = request[r].began
      /\ request'[r].status = request[r].status
      /\ request'[r].dist = request[r].dist
      /\ request'[r].points = route[b]
  BY <1>1, Answering
<1>4. /\ request[r].dist \subseteq route[b]
      /\ request[r].began.trip[b] = "completed" => request[r].status = "completed"
      /\ request[r].began.route[b] \subseteq route[b]
  BY <1>2, <1>3 DEF CopyOK, BeganOK
<1>. HIDE DEF b
<1>. QED BY <1>3, <1>4 DEF Covered

\* A request that does not move still has its answer, and the route has only
\* grown.
LEMMA CoveredStays ==
  ASSUME ViewInv, [ViewNext]_viewVars, NEW r \in Requests, request'[r] = request[r]
  PROVE  Covered(r)'
<1>. SUFFICES ASSUME (r \in Whole)' PROVE Covered(r)'
  BY DEF Covered
<1>1. r \in Whole /\ BookingOf(r)' = BookingOf(r)
  BY DEF Whole, Seen, At, IsCall, BookingOf
<1>2. BookingOf(r) \in Bookings
  BY <1>1, BookingType DEF Whole, Seen, At, ViewInv
<1>3. Covered(r)
  BY CoveredIff DEF ViewInv
<1>4. route[BookingOf(r)] \subseteq route'[BookingOf(r)]
  BY <1>2, Forwards
<1>. QED BY <1>1, <1>3, <1>4 DEF Covered

\* What LinkHonoured says of one request.
Honoured(r) ==
  \A l \in request[r].began.links :
    /\ IsCall(r, "shared") /\ l.token = request[r].call.token
    /\ request[r].began.trip[l.booking] # "none"
    /\ request[r].at \in Refusals /\ ~request[r].failed
    => now > l.expires

\* A refusal stays justified as time passes.
LEMMA HonouredStays ==
  ASSUME ViewInv, [ViewNext]_viewVars, NEW r \in Requests, request'[r] = request[r]
  PROVE  Honoured(r)'
<1>1. Honoured(r)
  BY DEF ViewInv, LinkHonoured, Honoured
<1>2. /\ now \in Nat /\ now' \in Nat /\ now <= now'
      /\ \A l \in request[r].began.links : l.expires \in Nat
  BY TypeStep, Forwards, TimeAssumption DEF ViewInv, ViewTypeOK, Request, Began, SharedTrip
<1>. QED BY <1>1, <1>2 DEF Honoured, IsCall

\* Two rows of the table with one token are one row.
LEMMA OneRow ==
  ASSUME TokensDiffer, NEW l \in links, NEW m \in links, l.token = m.token
  PROVE  l = m
BY DEF TokensDiffer

\* A request that is refused now had no link to show, or one that expired.
LEMMA HonouredStep ==
  ASSUME ViewInv, NEW r \in Requests, Handle(r)
  PROVE  Honoured(r)'
<1>. SUFFICES ASSUME NEW l \in request'[r].began.links,
                     IsCall(r, "shared")', l.token = request'[r].call.token,
                     request'[r].began.trip[l.booking] # "none",
                     request'[r].at \in Refusals, ~request'[r].failed
              PROVE  now' > l.expires
  BY DEF Honoured
<1>. USE DEF Refusals
<1>0. StepOK(r) /\ LinkOK(r) /\ BeganOK(r) /\ TokensDiffer /\ links \subseteq SharedTrip
  BY DEF ViewInv, ViewTypeOK
<1>1. ASSUME NEW c \in Calls PROVE ~Ask(r, c)
  BY Asked DEF Calls
<1>2. ~NewSharedTrip(r)
  BY Created
<1>3. ~SaveLink(r)
  BY <1>0, Stepped DEF SaveLink, StepOK, IsCall, At
<1>4. CASE FindByToken(r)
  <2>1. l \in LinksOf(request[r].call.token)
    BY <1>0, <1>4, Found DEF BeganOK, LinksOf
  <2>. QED BY <1>4, <2>1, Found
<1>5. CASE CheckExpiry(r)
  <2>1. IsExpired(request[r].link) /\ UNCHANGED now
    <3>1. ASSUME Goes(r, "track") PROVE FALSE
      <4>1. request'[r].at = "track"
        BY <3>1, Moved
      <4>. QED BY <4>1
    <3>. QED BY <1>5, <3>1 DEF CheckExpiry
  <2>2. request'[r].call = request[r].call /\ request'[r].began = request[r].began
    BY <1>5, Stepped
  <2>3. request[r].link \in links /\ request[r].link.token = request[r].call.token
    BY <1>0, <1>5, <2>2 DEF CheckExpiry, LinkOK, IsCall, At
  <2>4. l \in links
    BY <1>0, <2>2 DEF BeganOK
  <2>5. l = request[r].link
    BY <1>0, <2>2, <2>3, <2>4, OneRow
  <2>. QED BY <2>1, <2>5 DEF IsExpired
<1>6. CASE FindTrack(r)
  <2>1. /\ request'[r].call = request[r].call
        /\ request'[r].began = request[r].began
        /\ request'[r].at = "not found"
        /\ trip[BookingOf(r)] = "none"
    BY <1>6, Tracked
  <2>2. IsCall(r, "shared") /\ request[r].link \in links /\ request[r].link.token = request[r].call.token
    BY <1>0, <1>6, <2>1 DEF FindTrack, LinkOK, IsCall, At
  <2>3. l \in links
    BY <1>0, <2>1 DEF BeganOK
  <2>4. l = request[r].link
    BY <1>0, <2>1, <2>2, <2>3, OneRow
  <2>5. l.booking \in Bookings /\ BookingOf(r) = l.booking
    BY <1>0, <2>2, <2>3, <2>4 DEF SharedTrip, BookingOf
  <2>. QED BY <1>0, <2>1, <2>5 DEF BeganOK
<1>7. CASE MakeLine(r)
  BY <1>0, <1>7, Stepped DEF MakeLine, StepOK, IsCall, At
<1>8. CASE LoadPoints(r)
  BY <1>8, Moved, Answers DEF LoadPoints
<1>. QED BY <1>1, <1>2, <1>3, <1>4, <1>5, <1>6, <1>7, <1>8 DEF Handle

-----------------------------------------------------------------------------
(* The invariant.                                                          *)

\* The invariant holds at the start.
LEMMA ViewInvInit == ViewInit => ViewInv
<1>. SUFFICES ASSUME ViewInit PROVE ViewInv
  OBVIOUS
<1>1. ViewTypeOK /\ TripOK
  BY TypeInit
<1>2. \A r \in Requests : request[r] = Unasked
  BY DEF ViewInit
<1>3. \A r \in Requests : StepOK(r) /\ LinkOK(r) /\ CopyOK(r) /\ CreateOK(r)
  BY <1>2 DEF StepOK, LinkOK, CopyOK, CreateOK, At, IsCall, Unasked
<1>4. \A r \in Requests : BeganOK(r)
  BY <1>2 DEF BeganOK, Unasked, ViewInit
<1>5. TokensDiffer
  BY <1>2 DEF TokensDiffer, Creating, IsCall, Unasked, ViewInit
<1>6. Seen = {} /\ Whole = {}
  BY <1>2 DEF Seen, Whole, At, Unasked
<1>7. LinkHonoured
  BY <1>2 DEF LinkHonoured, Unasked
<1>. QED BY <1>1, <1>3, <1>4, <1>5, <1>6, <1>7 DEF ViewInv, AnswersFresh, DistanceCovered, ExpiredShowsNothing

\* A part of the invariant about one request, when that request stays.
LEMMA Stays ==
  ASSUME ViewInv, [ViewNext]_viewVars, NEW r \in Requests, request'[r] = request[r]
  PROVE  StepOK(r)' /\ LinkOK(r)' /\ CopyOK(r)' /\ CreateOK(r)'
<1>. USE DEF At, IsCall
<1>0. StepOK(r) /\ LinkOK(r) /\ CopyOK(r) /\ CreateOK(r) /\ links \subseteq links'
  BY Forwards DEF ViewInv
<1>1. StepOK(r)'
  BY <1>0 DEF StepOK
<1>2. LinkOK(r)'
  BY <1>0 DEF LinkOK
<1>3. CreateOK(r)'
  BY <1>0 DEF CreateOK
<1>4. CopyOK(r)'
  <2>1. CASE At(r, "line") \/ At(r, "points")
    <3>1. BookingOf(r) \in Bookings /\ BookingOf(r)' = BookingOf(r)
      BY <1>0, <2>1, BookingType DEF BookingOf, ViewInv, StepOK
    <3>2. route[BookingOf(r)] \subseteq route'[BookingOf(r)]
      BY <3>1, Forwards
    <3>. QED BY <1>0, <2>1, <3>1, <3>2 DEF CopyOK
  <2>2. CASE ~(At(r, "line") \/ At(r, "points"))
    BY <2>2 DEF CopyOK
  <2>. QED BY <2>1, <2>2
<1>. QED BY <1>1, <1>2, <1>3, <1>4

\* Every step keeps the invariant.
LEMMA ViewInvStep == ViewInv /\ [ViewNext]_viewVars => ViewInv'
<1>. SUFFICES ASSUME ViewInv, [ViewNext]_viewVars PROVE ViewInv'
  OBVIOUS
<1>1. ViewTypeOK' /\ TripOK'
  BY TypeStep
<1>2. ASSUME NEW r \in Requests
      PROVE  StepOK(r)' /\ BeganOK(r)' /\ LinkOK(r)' /\ CopyOK(r)' /\ CreateOK(r)' /\ Covered(r)' /\ Honoured(r)'
  <2>1. CASE request'[r] = request[r]
    BY <2>1, Stays, BeganOKStep, CoveredStays, HonouredStays
  <2>2. CASE Handle(r)
    <3>1. request'[r].began = request[r].began \/ \E c \in Calls : Ask(r, c)
      BY <2>2, Created, Found, Tracked, Stepped DEF Handle
    <3>. QED BY <2>2, <3>1, StepOKStep, BeganOKStep, LinkOKStep, CopyOKStep, CreateOKStep, CoveredStep,
                HonouredStep
  <2>. QED BY <2>1, <2>2, OneMoves
<1>3. TokensDiffer'
  <2>1. CASE UNCHANGED <<links, request>>
    BY <2>1 DEF ViewInv, TokensDiffer, Creating, IsCall
  <2>. QED BY <2>1, OneMoves, TokensDifferStep
<1>4. AnswersFresh' /\ DistanceCovered'
  BY <1>2 DEF AnswersFresh, DistanceCovered, Covered, Whole, Seen
<1>5. LinkHonoured'
  BY <1>2 DEF LinkHonoured, Honoured
<1>6. ExpiredShowsNothing'
  BY <1>2 DEF ExpiredShowsNothing, Seen, LinkOK, BookingOf, At
<1>. QED BY <1>1, <1>2, <1>3, <1>4, <1>5, <1>6 DEF ViewInv

\* The invariant holds in every state of the readers' specification.
THEOREM ViewsSafe == ViewSpec => []ViewInv
BY ViewInvInit, ViewInvStep, PTL DEF ViewSpec

\* GetTracking, GetRouteGeoJSON and GetSharedTracking: no answer is older than
\* its request, nor does it show a point that was not stored.
THEOREM NoStaleAnswers == ViewSpec => []AnswersFresh
<1>1. ViewInv => AnswersFresh
  BY DEF ViewInv
<1>. QED BY <1>1, ViewsSafe, PTL

\* The distance that an answer shows was measured on points it shows.
THEOREM DistanceOnShownPoints == ViewSpec => []DistanceCovered
<1>1. ViewInv => DistanceCovered
  BY DEF ViewInv
<1>. QED BY <1>1, ViewsSafe, PTL

\* A link that its owner was given works up to and including its last moment.
THEOREM LinksHonoured == ViewSpec => []LinkHonoured
<1>1. ViewInv => LinkHonoured
  BY DEF ViewInv
<1>. QED BY <1>1, ViewsSafe, PTL

\* A request that comes after a link's last moment is shown nothing through it.
THEOREM ExpiredLinksShut == ViewSpec => []ExpiredShowsNothing
<1>1. ViewInv => ExpiredShowsNothing
  BY DEF ViewInv
<1>. QED BY <1>1, ViewsSafe, PTL

\* Every variable keeps its type.
THEOREM ViewsTyped == ViewSpec => []ViewTypeOK
<1>1. ViewInv => ViewTypeOK
  BY DEF ViewInv
<1>. QED BY <1>1, ViewsSafe, PTL
=============================================================================
