------------------------- MODULE TrackingOneProofs -------------------------
(* Proofs about the tracks where the service runs as it is meant to: with    *)
(* topics that are read in order, a runner has one active trip; with one    *)
(* process, points are stored twice only after faults, and the tracks        *)
(* implement TripLifecycle.                                                 *)
EXTENDS TrackingSafetyProofs

-----------------------------------------------------------------------------
(* A runner has one active trip.                                           *)

\* What is left after a drop is what was there, in its order.
LEMMA DropsKeeps ==
  ASSUME NEW n, NEW s, NEW e, Len(s) \in Nat, Drops(n, s, e)
  PROVE  /\ \E f : /\ \A j \in 1..Len(n) : f[j] \in 1..Len(s) /\ n[j] = s[f[j]] /\ j <= f[j]
                   /\ \A i, j \in 1..Len(n) : f[i] < f[j] => i < j
         /\ \A i \in 1..Len(s) : s[i] # e => \E j \in 1..Len(n) : n[j] = s[i]
<1>1. CASE n = s
  <2> DEFINE f == [j \in 1..Len(n) |-> j]
  <2>1. /\ \A j \in 1..Len(n) : f[j] \in 1..Len(s) /\ n[j] = s[f[j]] /\ j <= f[j]
        /\ \A i, j \in 1..Len(n) : f[i] < f[j] => i < j
    BY <1>1
  <2> QED
    BY <1>1, <2>1
<1>2. ASSUME NEW k \in 1..Len(s), s[k] = e, Len(n) = Len(s) - 1,
             \A i \in 1..(Len(s) - 1) : n[i] = IF i < k THEN s[i] ELSE s[i + 1]
      PROVE  /\ \E f : /\ \A j \in 1..Len(n) : f[j] \in 1..Len(s) /\ n[j] = s[f[j]] /\ j <= f[j]
                       /\ \A i, j \in 1..Len(n) : f[i] < f[j] => i < j
             /\ \A i \in 1..Len(s) : s[i] # e => \E j \in 1..Len(n) : n[j] = s[i]
  <2> DEFINE f == [j \in 1..Len(n) |-> IF j < k THEN j ELSE j + 1]
  <2>1. \A j \in 1..Len(n) : f[j] = IF j < k THEN j ELSE j + 1
    OBVIOUS
  <2> HIDE DEF f
  <2>2. \A j \in 1..Len(n) : f[j] \in 1..Len(s) /\ n[j] = s[f[j]] /\ j <= f[j]
    BY <1>2, <2>1
  <2>3. \A i, j \in 1..Len(n) : f[i] < f[j] => i < j
    BY <1>2, <2>1
  <2>4. ASSUME NEW i \in 1..Len(s), s[i] # e PROVE \E j \in 1..Len(n) : n[j] = s[i]
    <3>1. CASE i < k
      <4>1. i \in 1..Len(n) /\ n[i] = s[i]
        BY <1>2, <3>1
      <4> QED
        BY <4>1
    <3>2. CASE i > k
      <4>1. i - 1 \in 1..Len(n) /\ n[i - 1] = s[(i - 1) + 1] /\ (i - 1) + 1 = i
        BY <1>2, <3>2
      <4> QED
        BY <4>1
    <3>3. i < k \/ i > k
      BY <1>2, <2>4
    <3> QED
      BY <3>1, <3>2, <3>3
  <2> QED
    BY <2>2, <2>3, <2>4
<1> QED
  BY <1>1, <1>2 DEF Drops

\* What a step does to a topic.
LEMMA TopicStep ==
  ASSUME TrackInv, [Next]_vars, NEW s \in Topics
  PROVE  \/ topic'[s] = topic[s] /\ sent' = sent
         \/ \E t \in Topics : \E e \in Kinds(t) :
              /\ Publishes /\ e \notin sent /\ sent' = sent \cup {e}
              /\ topic'[s] = IF t = s THEN Append(topic[s], e) ELSE topic[s]
         \/ \E w \in Workers :
              /\ Return(w) /\ Commit(w) /\ w[2] = s /\ sent' = sent
              /\ Drops(topic'[s], topic[s], event[w])
<1>0. TypeOK
  BY DEF TrackInv
<1>1. ASSUME NEW t \in Topics, NEW e \in Kinds(t), Send(t, e)
      PROVE  /\ e \notin sent /\ sent' = sent \cup {e}
             /\ topic'[s] = IF t = s THEN Append(topic[s], e) ELSE topic[s]
  BY <1>0, <1>1 DEF Send, TypeOK
<1>2. ASSUME NEW w \in Workers, Return(w)
      PROVE  /\ sent' = sent
             /\ \/ topic'[s] = topic[s]
                \/ Commit(w) /\ w[2] = s /\ Drops(topic'[s], topic[s], event[w])
  <2>1. UNCHANGED topic \/ Commit(w)
    BY <1>2 DEF Return
  <2>2. ASSUME Commit(w), w[2] = s PROVE Drops(topic'[s], topic[s], event[w])
    <3>1. topic'[s] = Without(topic[s], event[w])
      BY <1>0, <2>2 DEF Commit, TypeOK
    <3>2. topic[s] \in Seq(Event)
      BY <1>0 DEF TypeOK
    <3> QED
      BY <3>1, <3>2, WithoutIs
  <2>3. ASSUME Commit(w), w[2] # s PROVE topic'[s] = topic[s]
    BY <1>0, <2>3 DEF Commit, TypeOK
  <2> QED
    BY <1>2, <2>1, <2>2, <2>3 DEF Return
<1>3. ASSUME NEW w \in Workers, Works(w) PROVE topic' = topic /\ sent' = sent
  BY <1>0, <1>3, WorkLeaves
<1>4. ASSUME NEW w \in Workers, NEW e \in sent, Take(w, e) PROVE topic' = topic /\ sent' = sent
  BY <1>4 DEF Take
<1>5. ASSUME NEW p \in Processes, Crash(p) PROVE topic' = topic /\ sent' = sent
  BY <1>5 DEF Crash
<1>6. ASSUME UNCHANGED vars PROVE topic' = topic /\ sent' = sent
  BY <1>6 DEF vars
<1> QED
  BY <1>1, <1>2, <1>3, <1>4, <1>5, <1>6, StepIs, PublishedEvent

\* What a step does to the topic of the bookings.
LEMMA QueueStep ==
  ASSUME TrackInv, [Next]_vars, "skip" \notin OnFailure
  PROVE  \/ topic'["booking"] = topic["booking"] /\ sent' = sent
         \/ \E t \in Topics : \E e \in Kinds(t) :
              /\ e \notin sent /\ sent' = sent \cup {e}
              /\ topic'["booking"] = IF t = "booking" THEN Append(topic["booking"], e)
                                                      ELSE topic["booking"]
         \/ \E w \in Workers :
              /\ at[w] = "returned" /\ sent' = sent
              /\ Drops(topic'["booking"], topic["booking"], event[w])
<1>1. "booking" \in Topics
  BY DEF Topics
<1>2. ASSUME NEW w \in Workers, Return(w)
      PROVE  at[w] = "returned" \/ (topic'["booking"] = topic["booking"] /\ sent' = sent)
  BY <1>2 DEF Return
<1> QED
  BY <1>1, <1>2, TopicStep

\* The queue of the bookings, and what appending to it leaves in place.
LEMMA QueueTyped ==
  ASSUME TrackInv, NEW e \in Event
  PROVE  /\ Len(topic["booking"]) \in Nat
         /\ Len(Append(topic["booking"], e)) = Len(topic["booking"]) + 1
         /\ Append(topic["booking"], e)[Len(topic["booking"]) + 1] = e
         /\ \A i \in 1..Len(topic["booking"]) : Append(topic["booking"], e)[i] = topic["booking"][i]
<1>1. topic["booking"] \in Seq(Event)
  BY DEF TrackInv, TypeOK, Topics
<1> QED
  BY <1>1

LEMMA QueueLength ==
  ASSUME TrackInv PROVE Len(topic["booking"]) \in Nat
<1>1. topic["booking"] \in Seq(Event)
  BY DEF TrackInv, TypeOK, Topics
<1> QED
  BY <1>1

\* An event at the head of its topic stays there until it is committed.
LEMMA AtHeadStays ==
  ASSUME TrackInv, [Next]_vars, "skip" \notin OnFailure, NEW e \in sent, AtHead(e)
  PROVE  AtHead(e)'
<1> DEFINE Q == topic["booking"]
           R == topic'["booking"]
<1>0. Len(Q) \in Nat /\ \A i \in 1..Len(Q) : Q[i] = e => i = 1
  BY QueueLength DEF AtHead
<1>1. CASE R = Q
  BY <1>0, <1>1 DEF AtHead
<1>2. ASSUME NEW x \in Event, x \notin sent, R = Append(Q, x) PROVE AtHead(e)'
  <2>1. /\ Len(R) = Len(Q) + 1 /\ R[Len(Q) + 1] = x
        /\ \A i \in 1..Len(Q) : R[i] = Q[i]
    BY <1>2, QueueTyped
  <2> HIDE DEF Q, R
  <2>2. \A i \in 1..Len(R) : R[i] = e => i = 1
    BY <1>0, <1>2, <2>1
  <2> QED
    BY <2>2 DEF AtHead, R
<1>3. ASSUME NEW x, Drops(R, Q, x) PROVE AtHead(e)'
  <2>1. PICK f : \A j \in 1..Len(R) : f[j] \in 1..Len(Q) /\ R[j] = Q[f[j]] /\ j <= f[j]
    BY <1>0, <1>3, DropsKeeps
  <2> HIDE DEF Q, R
  <2>2. \A j \in 1..Len(R) : R[j] = e => j = 1
    BY <1>0, <2>1
  <2> QED
    BY <2>2 DEF AtHead, R
<1>4. \A t \in Topics : Kinds(t) \subseteq Event
  BY KindsAreEvents
<1> QED
  BY <1>1, <1>2, <1>3, <1>4, QueueStep

\* The order of two events is that of their commits, as an event is committed
\* from the head of its topic.
LEMMA BeforeStays ==
  ASSUME TrackInv, [Next]_vars, "skip" \notin OnFailure, NEW d \in sent, NEW e \in sent,
         Before(d, e), \A w \in Workers : event[w] = e => AtHead(e)
  PROVE  Before(d, e)'
<1> DEFINE Q == topic["booking"]
           R == topic'["booking"]
<1>0. /\ Len(Q) \in Nat
      /\ (\E i \in 1..Len(Q) : Q[i] = d) => \E i \in 1..Len(Q) : Q[i] = e
      /\ \A i, j \in 1..Len(Q) : Q[i] = d /\ Q[j] = e => i < j
  BY QueueLength DEF Before, InTopic
<1>1. d \in sent'
  BY TablesGrow
<1>2. CASE R = Q
  BY <1>0, <1>1, <1>2 DEF Before, InTopic
<1>3. ASSUME NEW x \in Event, x \notin sent, R = Append(Q, x) PROVE Before(d, e)'
  <2>1. /\ Len(R) = Len(Q) + 1 /\ R[Len(Q) + 1] = x
        /\ \A i \in 1..Len(Q) : R[i] = Q[i]
    BY <1>3, QueueTyped
  <2> HIDE DEF Q, R
  <2>2. \A i \in 1..Len(R) : R[i] \in {d, e} => i \in 1..Len(Q) /\ R[i] = Q[i]
    BY <1>0, <1>3, <2>1
  <2>3. \A i \in 1..Len(Q) : i \in 1..Len(R) /\ R[i] = Q[i]
    BY <1>0, <2>1
  <2>4. /\ (\E i \in 1..Len(R) : R[i] = d) => \E i \in 1..Len(R) : R[i] = e
        /\ \A i, j \in 1..Len(R) : R[i] = d /\ R[j] = e => i < j
    BY <1>0, <2>2, <2>3
  <2> QED
    BY <1>1, <2>4 DEF Before, InTopic, R
<1>4. ASSUME NEW w \in Workers, Drops(R, Q, event[w]) PROVE Before(d, e)'
  <2>1. PICK f : /\ \A j \in 1..Len(R) : f[j] \in 1..Len(Q) /\ R[j] = Q[f[j]] /\ j <= f[j]
                 /\ \A i, j \in 1..Len(R) : f[i] < f[j] => i < j
    <3>1. Len(Q) \in Nat
      BY <1>0
    <3> QED
      BY <1>4, <3>1, DropsKeeps, Zenon
  <2>2. \A i \in 1..Len(Q) : Q[i] # event[w] => \E j \in 1..Len(R) : R[j] = Q[i]
    <3>1. PICK x : x = event[w]
      OBVIOUS
    <3>2. Len(Q) \in Nat /\ Drops(R, Q, x)
      BY <1>0, <1>4, <3>1
    <3> HIDE DEF Q, R
    <3>3. \A i \in 1..Len(Q) : Q[i] # x => \E j \in 1..Len(R) : R[j] = Q[i]
      BY <3>2, DropsKeeps
    <3> QED
      BY <3>1, <3>3
  <2>3. event[w] = e => \A i \in 1..Len(Q) : Q[i] = e => i = 1
    BY DEF AtHead
  <2> HIDE DEF Q, R
  <2>4. ASSUME NEW j \in 1..Len(R), R[j] = d PROVE \E i \in 1..Len(R) : R[i] = e
    <3>1. f[j] \in 1..Len(Q) /\ Q[f[j]] = d
      BY <2>1, <2>4
    <3>2. PICK i \in 1..Len(Q) : Q[i] = e
      BY <1>0, <3>1
    <3>3. f[j] < i
      BY <1>0, <3>1, <3>2
    <3>4. event[w] # e
      BY <1>0, <2>3, <3>1, <3>2, <3>3
    <3> QED
      BY <2>2, <3>2, <3>4
  <2>5. ASSUME NEW i \in 1..Len(R), NEW j \in 1..Len(R), R[i] = d, R[j] = e PROVE i < j
    <3>1. f[i] < f[j]
      BY <1>0, <2>1, <2>5
    <3> QED
      BY <2>1, <3>1
  <2> QED
    BY <1>1, <2>4, <2>5 DEF Before, InTopic, R
<1>5. \A t \in Topics : Kinds(t) \subseteq Event
  BY KindsAreEvents
<1> QED
  BY <1>2, <1>3, <1>4, <1>5, QueueStep

\* When an event is at the head, the ones before it are committed.
LEMMA BeforeHead ==
  ASSUME TrackInv, NEW d, NEW e, Before(d, e), AtHead(e)
  PROVE  ~InTopic(d)
  BY QueueLength DEF Before, AtHead, InTopic

\* What is settled stays settled.
LEMMA SettledStays ==
  ASSUME TrackInv, [Next]_vars, NEW e, Settled(e)
  PROVE  Settled(e)'
<1>1. ASSUME e \in Accepted \cup Confirmed PROVE TracksOf(e.booking)' # {}
  <2>1. TracksOf(e.booking) # {}
    BY <1>1 DEF Settled
  <2> QED
    BY <2>1, TablesGrow DEF TracksOf, IsCopy
<1>2. ASSUME e \in Confirmed, NEW r \in tracks', r.booking = e.booking PROVE ~IsActive(r)
  <2>1. TracksOf(e.booking) # {} /\ \A s \in TracksOf(e.booking) : ~IsActive(s)
    BY <1>2 DEF Settled
  <2>2. CASE r \in tracks
    BY <1>2, <2>1, <2>2 DEF TracksOf
  <2>3. ASSUME NEW w \in Workers, NEW i \in Ids, Inserts(w, i), r \notin tracks PROVE FALSE
    <3>1. r.booking = event[w].booking
      BY <2>3, NewTrackTyped DEF Inserts
    <3> QED
      BY <1>2, <2>1, <2>3, <3>1 DEF Inserts, Conflict
  <2>4. ASSUME NEW w \in Workers, Completes(w), r \notin tracks PROVE ~IsActive(r)
    <3>1. r = track[w] /\ track[w].status = "completed"
      BY <2>4, OverwriteKeeps DEF Completes
    <3> QED
      BY <3>1 DEF IsActive
  <2> QED
    BY <2>2, <2>3, <2>4, TracksChange
<1> QED
  BY <1>1, <1>2 DEF Settled, TracksOf, IsActive

\* An event whose handler is done with it.
Done(w) == at[w] = "returned" \/ (at[w] = "publish" /\ event[w] \in Confirmed)

\* A handler is done with an event when it is settled.
LEMMA DoneSettles ==
  ASSUME TrackInv, [Next]_vars, NEW w \in Workers, Done(w) => Settled(event[w]),
         Works(w), Done(w)', NEW e, e = event[w]
  PROVE  Settled(e)'
<1>0. TypeOK /\ event'[w] = e /\ at'[w] \in {"returned", "publish"}
  BY WorkLeaves DEF TrackInv, Done
<1>1. \A s : Goto(w, s) => at'[w] = s
  BY <1>0 DEF Goto, TypeOK
<1>2. CASE e \notin Accepted \cup Confirmed
  BY <1>2 DEF Settled
<1>3. CASE AcceptedFind(w) \/ AcceptedSave(w) \/ AcceptedPublish(w)
  <2>1. e \in Accepted /\ e \notin Confirmed
    BY <1>3, HandledEvent, KindsDisjoint DEF AcceptedFind, AcceptedSave, AcceptedPublish
  <2>2. at'[w] = "returned"
    BY <1>0, <2>1 DEF Done
  <2>3. ~AcceptedSave(w)
    BY <1>1, <2>2 DEF AcceptedSave
  <2>4. ASSUME AcceptedFind(w) PROVE TracksOf(e.booking) # {}
    <3>1. ~Goto(w, "save")
      BY <1>1, <2>2
    <3> QED
      BY <2>4, <3>1 DEF AcceptedFind
  <2>5. ASSUME AcceptedPublish(w) PROVE TracksOf(e.booking) # {}
    <3>1. at[w] = "publish" /\ event[w] \notin Location
      BY <2>1, <2>5, KindsDisjoint DEF AcceptedPublish, Handles
    <3>2. \E r \in tracks : IsCopy(track[w], r) /\ track[w].booking = e.booking
      BY <2>1, <3>1, HeldCopy
    <3> QED
      BY <3>2 DEF IsCopy, TracksOf
  <2>6. Settled(e)
    BY <1>3, <2>1, <2>3, <2>4, <2>5 DEF Settled
  <2> QED
    BY <2>6, SettledStays
<1>4. CASE LocationFind(w) \/ LocationAdd(w) \/ LocationBroadcast(w) \/ LocationPublish(w)
  <2>1. e \in Location
    BY <1>4, HandledEvent DEF LocationFind, LocationAdd, LocationBroadcast, LocationPublish
  <2> QED
    BY <1>2, <2>1, KindsDisjoint
<1>5. CASE Ignore(w)
  BY <1>2, <1>5, HandledEvent, KindsDisjoint DEF Ignore
<1>6. CASE ConfirmedFind(w)
  <2>1. e \in Confirmed
    BY <1>6, HandledEvent DEF ConfirmedFind
  <2>2. ~Goto(w, "failed") /\ ~Goto(w, "measure")
    BY <1>0, <1>1
  <2>3. PICK r \in TracksOf(e.booking) : ~IsActive(r)
    BY <1>6, <2>2 DEF ConfirmedFind
  <2>4. \A s \in TracksOf(e.booking) : s = r
    BY DEF TracksOf, TrackInv, TracksFit
  <2>5. Settled(e)
    BY <2>3, <2>4 DEF Settled
  <2> QED
    BY <2>5, SettledStays
<1>7. CASE ConfirmedMeasure(w)
  BY <1>0, <1>1, <1>7 DEF ConfirmedMeasure, TryComplete
<1>8. CASE ConfirmedUpdate(w)
  <2>1. e \in Confirmed /\ at[w] = "update"
    BY <1>8, HandledEvent DEF ConfirmedUpdate
  <2>2. ~Goto(w, "failed")
    BY <1>0, <1>1
  <2>3. Overwrite(track[w])
    BY <1>8, <2>2 DEF ConfirmedUpdate
  <2>4. /\ track[w] \in TripTrack /\ track[w].status = "completed"
        /\ track[w].booking = e.booking /\ \E r \in tracks : IsCopy(track[w], r)
    BY <2>1 DEF TrackInv, CopiesFit
  <2>5. tracks' = {x \in tracks : x.id # track[w].id} \cup {track[w]}
    BY <2>3 DEF Overwrite
  <2>6. \A x \in tracks : x.booking = e.booking => x.id = track[w].id
    <3>1. PICK r \in tracks : r.id = track[w].id /\ r.booking = e.booking
      BY <2>4 DEF IsCopy
    <3>2. \A x, y \in tracks : x.booking = y.booking => x = y
      BY DEF TrackInv, TracksFit
    <3> QED
      BY <3>1, <3>2
  <2>7. \A r \in tracks' : r.booking = e.booking => r.status = "completed"
    BY <2>4, <2>5, <2>6
  <2>8. track[w] \in tracks'
    BY <2>5
  <2> QED
    BY <2>4, <2>7, <2>8 DEF Settled, TracksOf, IsActive
<1>9. CASE ConfirmedPublish(w)
  <2>1. e \in Confirmed /\ at[w] = "publish"
    BY <1>9, HandledEvent DEF ConfirmedPublish
  <2> QED
    BY <2>1, SettledStays DEF Done
<1> QED
  BY <1>3, <1>4, <1>5, <1>6, <1>7, <1>8, <1>9 DEF Works

LEMMA TripsStep ==
  ASSUME TrackInv, TripsInv, [Next]_vars, Partitions = 1, "skip" \notin OnFailure
  PROVE  TripsInv'
<1>0. /\ TypeOK
      /\ \A a, b \in Bookings :
           a # b /\ RunnerOf[a] = RunnerOf[b] /\ AcceptedOf(a) \in sent /\ AcceptedOf(b) \in sent =>
             Before(ConfirmedOf(a), AcceptedOf(b)) \/ Before(ConfirmedOf(b), AcceptedOf(a))
      /\ \A w \in Workers : event[w] \in Accepted \cup Confirmed => AtHead(event[w])
      /\ \A r \in tracks : AtHead(AcceptedOf(r.booking))
      /\ \A e \in sent : ~InTopic(e) => Settled(e)
      /\ \A w \in Workers : Done(w) => Settled(event[w])
      /\ \A r, s \in tracks : IsActive(r) /\ IsActive(s) /\ r.runner = s.runner => r = s
  BY DEF TrackInv, TripsInv, Done
<1>1. ASSUME NEW d, NEW e \in Accepted, e \in sent, Before(d, e) PROVE Before(d, e)'
  <2>1. d \in sent
    BY <1>1 DEF Before
  <2>2. \A w \in Workers : event[w] = e => AtHead(e)
    BY <1>0, <1>1
  <2> QED
    BY <1>1, <2>1, <2>2, BeforeStays
<1>2. ASSUME NEW a \in Bookings, NEW b \in Bookings, a # b, RunnerOf[a] = RunnerOf[b],
             AcceptedOf(b) \notin sent, AcceptedOf(a) \in sent, AcceptedOf(b) \in sent'
      PROVE  Before(ConfirmedOf(a), AcceptedOf(b))'
  <2> DEFINE c == ConfirmedOf(a)
             e == AcceptedOf(b)
             Q == topic["booking"]
             R == topic'["booking"]
  <2>0. sent' # sent
    BY <1>2
  <2>1. PICK t \in Topics : \E x \in Kinds(t) :
          /\ x \notin sent /\ sent' = sent \cup {x}
          /\ topic'["booking"] = IF t = "booking" THEN Append(topic["booking"], x)
                                                  ELSE topic["booking"]
    BY <2>0, QueueStep, Zenon
  <2>11. PICK x \in Kinds(t) :
          /\ x \notin sent /\ sent' = sent \cup {x}
          /\ R = IF t = "booking" THEN Append(Q, x) ELSE Q
    BY <2>1, Zenon
  <2>2. x = e /\ e \in Accepted /\ e \in Event
    BY <1>2, <2>11, EventsOf DEF Event
  <2>3. t = "booking"
    BY <2>1, <2>11, <2>2, KindsDisjoint DEF Kinds, Topics
  <2>4. /\ Len(R) = Len(Q) + 1 /\ R[Len(Q) + 1] = e /\ Len(Q) \in Nat
        /\ \A i \in 1..Len(Q) : R[i] = Q[i]
    BY <2>11, <2>2, <2>3, QueueTyped
  <2>5. c \in sent
    <3>1. Publishes
      <4>1. ~UNCHANGED sent
        BY <1>2
      <4>2. \A w \in Workers : Works(w) => UNCHANGED sent
        BY <1>0, WorkLeaves
      <4> QED
        BY <4>1, <4>2, StepIs DEF Take, Return, Crash, vars
    <3>2. \A y : y # e /\ y \notin sent => y \notin sent'
      BY <2>11, <2>2
    <3>3. SendAccepted(b)
      <4>1. ASSUME NEW y \in Bookings, SendAccepted(y) PROVE y = b
        <5>1. AcceptedOf(y) \in sent' /\ AcceptedOf(y) \notin sent
          BY <4>1 DEF SendAccepted, Send, AcceptedOf
        <5>2. AcceptedOf(y) = e
          BY <3>2, <5>1
        <5> QED
          BY <4>1, <5>2, EventsOf
      <4>2. ASSUME NEW y \in Bookings, SendConfirmed(y) PROVE FALSE
        <5>1. ConfirmedOf(y) \in sent' /\ ConfirmedOf(y) \notin sent
          BY <4>2 DEF SendConfirmed, Send, ConfirmedOf
        <5> QED
          BY <2>2, <3>2, <4>2, <5>1, EventsOf, KindsDisjoint
      <4>3. ASSUME NEW r \in Runners, NEW g \in Grades, SendLocation(r, g) PROVE FALSE
        <5>1. PICK n : /\ [type |-> "location", runner |-> r, point |-> n, grade |-> g] \in sent'
                       /\ [type |-> "location", runner |-> r, point |-> n, grade |-> g] \notin sent
          BY <4>3 DEF SendLocation, Send
        <5>2. [type |-> "location", runner |-> r, point |-> n, grade |-> g] = e
          BY <3>2, <5>1
        <5>3. e.type = "accepted"
          BY DEF AcceptedOf
        <5>4. e.type = "location"
          BY <5>2
        <5> QED
          BY <5>3, <5>4
      <4>4. ASSUME NEW u \in Unknowns, SendUnknown(u) PROVE FALSE
        <5>1. u \in sent' /\ u \notin sent
          BY <4>4 DEF SendUnknown, Send
        <5>2. u = e
          BY <3>2, <5>1
        <5> QED
          BY <2>2, <5>2, UnknownsAssumption, KindsDisjoint
      <4> QED
        BY <3>1, <4>1, <4>2, <4>3, <4>4 DEF Publishes
    <3> QED
      BY <1>2, <3>3 DEF SendAccepted, IsSent, AcceptedOf, ConfirmedOf
  <2>6. c # e /\ c \in sent'
    BY <1>2, <2>11, <2>5
  <2>7. \A i \in 1..Len(Q) : Q[i] # e
    BY <1>2 DEF TrackInv, TopicsFit, Topics
  <2> HIDE DEF Q, R, c, e
  <2>8. \E i \in 1..Len(R) : R[i] = e
    BY <2>4
  <2>9. \A i, j \in 1..Len(R) : R[i] = c /\ R[j] = e => i < j
    BY <2>4, <2>6, <2>7
  <2> QED
    BY <2>6, <2>8, <2>9 DEF Before, InTopic, R, c, e
<1>3. ASSUME NEW a \in Bookings, NEW b \in Bookings, a # b, RunnerOf[a] = RunnerOf[b],
             AcceptedOf(a) \in sent', AcceptedOf(b) \in sent'
      PROVE  Before(ConfirmedOf(a), AcceptedOf(b))' \/ Before(ConfirmedOf(b), AcceptedOf(a))'
  <2>1. CASE AcceptedOf(a) \in sent /\ AcceptedOf(b) \in sent
    BY <1>0, <1>1, <1>3, <2>1, EventsOf
  <2>2. AcceptedOf(a) \in sent \/ AcceptedOf(b) \in sent
    <3>1. AcceptedOf(a) # AcceptedOf(b)
      BY <1>3, EventsOf
    <3> QED
      BY <1>3, <3>1, QueueStep
  <2> QED
    BY <1>2, <1>3, <2>1, <2>2
<1>4. ASSUME NEW w \in Workers, NEW e, e = event'[w], e \in Accepted \cup Confirmed
      PROVE  AtHead(e)'
  <2>0. e # None
    BY <1>4, KindsDisjoint
  <2>1. CASE event'[w] = event[w]
    <3>1. e \in sent
      BY <1>4, <2>0, <2>1 DEF TrackInv, StepsFit
    <3> QED
      BY <1>0, <1>4, <2>1, <3>1, AtHeadStays
  <2>2. ASSUME NEW v \in Workers, NEW d \in sent, Take(v, d) PROVE AtHead(e)'
    <3>1. CASE v = w
      <4>1. event'[w] = d
        BY <1>0, <2>2, <3>1 DEF Take, TypeOK
      <4>2. PICK i \in 1..Len(topic[w[2]]) : topic[w[2]][i] = d
        BY <2>2, <3>1 DEF Take, Uncommitted
      <4>3. w[2] \in Topics /\ d \in Kinds(w[2])
        BY <4>2 DEF Workers, TrackInv, TopicsFit, Kinds
      <4>4. w[2] = "booking"
        BY <1>4, <4>1, <4>3, KindsDisjoint DEF Kinds, Topics
      <4>5. i = 1
        <5>1. SUFFICES ASSUME i # 1 PROVE FALSE
          OBVIOUS
        <5>2. Len(topic[w[2]]) \in Nat /\ 1 \in 1..Len(topic[w[2]]) /\ 1 < i
          BY <1>0, <4>2, <4>3, <5>1 DEF TypeOK
        <5>3. topic[w[2]][1] \in Event /\ d \in Event
          BY <4>3, <5>2, KindsAreEvents DEF TrackInv, TopicsFit, TypeOK
        <5>4. PartitionOf[topic[w[2]][1]] = PartitionOf[d]
          BY <5>3, PartitionAssumption
        <5>5. topic[w[2]][1] \in AheadOf(w[2], d)
          BY <4>2, <5>2, <5>4 DEF AheadOf, Uncommitted
        <5> QED
          BY <2>2, <3>1, <5>5 DEF Take
      <4>6. \A j \in 1..Len(topic["booking"]) : topic["booking"][j] = d => j = 1
        BY <4>2, <4>3, <4>4, <4>5 DEF TrackInv, TopicsFit
      <4>7. topic' = topic /\ e = d
        BY <1>4, <2>2, <4>1 DEF Take
      <4> QED
        BY <4>6, <4>7 DEF AtHead
    <3>2. CASE v # w
      BY <1>0, <2>1, <2>2, <3>2 DEF Take, TypeOK
    <3> QED
      BY <3>1, <3>2
  <2>3. ASSUME NEW v \in Workers, Return(v) PROVE event'[w] = event[w] \/ event'[w] = None
    BY <1>0, <2>3 DEF Return, TypeOK
  <2>4. ASSUME NEW p \in Processes, Crash(p) PROVE event'[w] = event[w] \/ event'[w] = None
    BY <2>4 DEF Crash
  <2>5. ASSUME NEW v \in Workers, Works(v) PROVE event'[w] = event[w]
    BY <1>0, <2>5, WorkLeaves
  <2>6. ASSUME Publishes PROVE event' = event
    BY <2>6, PublishedEvent DEF Send
  <2>7. ASSUME UNCHANGED vars PROVE event' = event
    BY <2>7 DEF vars
  <2> QED
    BY <1>4, <2>0, <2>1, <2>2, <2>3, <2>4, <2>5, <2>6, <2>7, StepIs
<1>5. ASSUME NEW r \in tracks' PROVE AtHead(AcceptedOf(r.booking))'
  <2>1. ASSUME NEW o \in tracks, r.booking = o.booking PROVE AtHead(AcceptedOf(r.booking))'
    <3>1. AcceptedOf(o.booking) \in sent
      BY DEF TrackInv, TracksFit, IsSent, AcceptedOf
    <3> QED
      BY <1>0, <2>1, <3>1, AtHeadStays
  <2>2. ASSUME NEW w \in Workers, NEW i \in Ids, Inserts(w, i),
               r = NewTripTrack(event[w].booking, i)
        PROVE  AtHead(AcceptedOf(r.booking))'
    <3>1. r.booking = event[w].booking /\ event[w] \in Accepted
      BY <2>2, NewTrackTyped DEF Inserts
    <3>2. AcceptedOf(r.booking) = event[w]
      BY <3>1, EventsOf
    <3>3. event[w] \in sent
      BY <3>1, KindsDisjoint DEF TrackInv, StepsFit
    <3> QED
      BY <1>0, <3>1, <3>2, <3>3, AtHeadStays
  <2>3. CASE r \in tracks
    BY <2>1, <2>3
  <2>4. CASE r \notin tracks
    BY <2>1, <2>2, <2>4, TracksChange, OverwriteKeeps DEF Inserts, IsCopy
  <2> QED
    BY <2>3, <2>4
<1>6. ASSUME NEW e \in sent', ~InTopic(e)' PROVE Settled(e)'
  <2>1. CASE e \in sent /\ ~InTopic(e)
    BY <1>0, <2>1, SettledStays
  <2>2. CASE e \notin Accepted \cup Confirmed
    BY <2>2 DEF Settled
  <2>3. CASE topic'["booking"] = topic["booking"] /\ sent' = sent
    BY <1>6, <2>1, <2>3 DEF InTopic
  <2>4. ASSUME NEW t \in Topics, NEW x \in Kinds(t), sent' = sent \cup {x},
               topic'["booking"] = IF t = "booking" THEN Append(topic["booking"], x)
                                                    ELSE topic["booking"]
        PROVE  Settled(e)'
    <3>1. CASE t # "booking"
      <4>1. x \notin Accepted \cup Confirmed
        BY <2>4, <3>1, KindsDisjoint DEF Kinds, Topics
      <4> QED
        BY <1>6, <2>1, <2>2, <2>4, <3>1, <4>1 DEF InTopic
    <3>2. CASE t = "booking"
      <4> DEFINE Q == topic["booking"]
                 R == topic'["booking"]
      <4>1. /\ Len(R) = Len(Q) + 1 /\ R[Len(Q) + 1] = x /\ Len(Q) \in Nat
            /\ \A i \in 1..Len(Q) : R[i] = Q[i]
        BY <2>4, <3>2, QueueTyped, KindsAreEvents
      <4> HIDE DEF Q, R
      <4>2. /\ \E i \in 1..Len(R) : R[i] = x
            /\ \A i \in 1..Len(Q) : i \in 1..Len(R) /\ R[i] = Q[i]
        BY <4>1
      <4>3. e # x /\ \A i \in 1..Len(Q) : Q[i] # e
        BY <1>6, <4>2 DEF InTopic, R
      <4> QED
        BY <2>1, <2>4, <4>3 DEF InTopic, Q
    <3> QED
      BY <3>1, <3>2
  <2>5. ASSUME NEW w \in Workers, at[w] = "returned", sent' = sent,
               Drops(topic'["booking"], topic["booking"], event[w])
        PROVE  Settled(e)'
    <3>1. CASE InTopic(e) /\ event[w] # e
      <4>1. PICK i \in 1..Len(topic["booking"]) : topic["booking"][i] = e
        BY <3>1 DEF InTopic
      <4>2. PICK x : x = event[w]
        OBVIOUS
      <4>3. \E j \in 1..Len(topic'["booking"]) : topic'["booking"][j] = topic["booking"][i]
        BY <2>5, <3>1, <4>1, <4>2, QueueLength, DropsKeeps
      <4> QED
        BY <1>6, <4>1, <4>3 DEF InTopic
    <3>2. CASE event[w] = e
      BY <1>0, <2>5, <3>2, SettledStays DEF Done
    <3> QED
      BY <1>6, <2>1, <2>5, <3>1, <3>2
  <2> QED
    BY <2>3, <2>4, <2>5, QueueStep
<1>7. ASSUME NEW w \in Workers, Done(w)', NEW e, e = event'[w] PROVE Settled(e)'
  <2>1. CASE at'[w] = at[w] /\ event'[w] = event[w]
    BY <1>0, <1>7, <2>1, SettledStays DEF Done
  <2>2. CASE Works(w) /\ event'[w] = event[w]
    BY <1>0, <1>7, <2>2, DoneSettles
  <2> QED
    BY <1>0, <1>7, <2>1, <2>2, WorkerStep DEF Done
<1>8. ASSUME NEW r \in tracks', NEW s \in tracks', IsActive(r), IsActive(s), r.runner = s.runner
      PROVE  r = s
  <2>1. CASE r \in tracks /\ s \in tracks
    BY <1>0, <1>8, <2>1
  <2>2. ASSUME NEW w, Completes(w) PROVE r = s
    <3>1. \A x \in tracks' : IsActive(x) => x \in tracks
      BY <2>2, OverwriteKeeps DEF Completes, IsActive
    <3> QED
      BY <1>8, <2>1, <3>1
  <2>3. ASSUME NEW w \in Workers, NEW i \in Ids, Inserts(w, i) PROVE r = s
    <3> DEFINE b == event[w].booking
               new == NewTripTrack(b, i)
    <3>1. /\ b \in Bookings /\ event[w] \in Accepted /\ event[w] = AcceptedOf(b)
          /\ new.booking = b /\ new.runner = RunnerOf[b] /\ tracks' = tracks \cup {new}
          /\ \A x \in tracks : x.booking # b
      BY <2>3, EventsOf, NewTrackTyped DEF Inserts, Conflict, TracksOf
    <3>2. AtHead(event[w]) /\ event[w] \in sent
      BY <1>0, <3>1, KindsDisjoint DEF TrackInv, StepsFit
    <3>3. ASSUME NEW x \in tracks, x.runner = RunnerOf[b] PROVE ~IsActive(x)
      <4>1. /\ x.booking \in Bookings /\ x.booking # b /\ RunnerOf[x.booking] = RunnerOf[b]
            /\ AcceptedOf(x.booking) \in sent
        BY <1>0, <3>1, <3>3, TrackFields DEF TypeOK, TrackInv, TracksFit, IsSent, AcceptedOf
      <4>2. CASE Before(ConfirmedOf(x.booking), AcceptedOf(b))
        <5>1. ~InTopic(ConfirmedOf(x.booking)) /\ ConfirmedOf(x.booking) \in sent
          BY <3>1, <3>2, <4>2, BeforeHead DEF Before
        <5>2. Settled(ConfirmedOf(x.booking))
          BY <1>0, <5>1
        <5> QED
          BY <4>1, <5>2, EventsOf DEF Settled, TracksOf
      <4>3. CASE Before(ConfirmedOf(b), AcceptedOf(x.booking))
        <5>1. AtHead(AcceptedOf(x.booking))
          BY <1>0
        <5>2. ~InTopic(ConfirmedOf(b)) /\ ConfirmedOf(b) \in sent
          BY <4>3, <5>1, BeforeHead DEF Before
        <5>3. Settled(ConfirmedOf(b))
          BY <1>0, <5>2
        <5> QED
          BY <3>1, <5>3, EventsOf DEF Settled, TracksOf
      <4> QED
        BY <1>0, <3>1, <3>2, <4>1, <4>2, <4>3
    <3> HIDE DEF new
    <3> QED
      BY <1>8, <2>1, <3>1, <3>3
  <2> QED
    BY <1>8, <2>1, <2>2, <2>3, TracksChange
<1>9. \A w \in Workers : event'[w] \in Accepted \cup Confirmed => AtHead(event[w])'
  BY <1>4 DEF AtHead
<1>10. \A w \in Workers : Done(w)' => Settled(event[w])'
  BY <1>7 DEF Settled, TracksOf
<1> QED
  BY <1>3, <1>5, <1>6, <1>8, <1>9, <1>10
     DEF TripsInv, Done, AcceptedOf, ConfirmedOf, IsActive

\* A runner's trips come one after the other.
THEOREM TripsInvariant ==
  ASSUME Partitions = 1, "skip" \notin OnFailure
  PROVE  Spec => []TripsInv
<1>1. Init => TripsInv
  <2> SUFFICES ASSUME Init PROVE TripsInv
    OBVIOUS
  <2>1. sent = {} /\ tracks = {} /\ \A w \in Workers : event[w] = None /\ at[w] = "idle"
    BY DEF Init
  <2> QED
    BY <2>1, KindsDisjoint DEF TripsInv
<1>2. TrackInv /\ TripsInv /\ [Next]_vars => TripsInv'
  BY TripsStep
<1> QED
  BY <1>1, <1>2, TrackInvariant, PTL DEF Spec

\* A runner has one active trip at most, for any number of processes, if the
\* topics are read in order and the consumer skips no event that failed.
THEOREM RunnersHaveOneTrip ==
  ASSUME Partitions = 1, "skip" \notin OnFailure
  PROVE  Spec => []OneActivePerRunner
<1>1. TrackInv /\ TripsInv => OneActivePerRunner
  <2> SUFFICES ASSUME TrackInv, TripsInv, NEW r \in Runners
               PROVE  Cardinality(ActiveOf(r)) <= 1
    BY DEF OneActivePerRunner
  <2>1. CASE ActiveOf(r) = {}
    BY <2>1, FS_EmptySet
  <2>2. ASSUME NEW x \in ActiveOf(r) PROVE Cardinality(ActiveOf(r)) <= 1
    <3>1. ActiveOf(r) = {x}
      BY <2>2 DEF TripsInv, ActiveOf, IsActive
    <3> QED
      BY <3>1, FS_Singleton
  <2> QED
    BY <2>1, <2>2
<1> QED
  BY <1>1, TrackInvariant, TripsInvariant, PTL

-----------------------------------------------------------------------------
(* With one process, a point is stored twice only after a fault.           *)

LEMMA OneWorker ==
  ASSUME NEW p, Processes = {p}, NEW v \in Workers, NEW w \in Workers, v[2] = w[2]
  PROVE  v = w
  BY DEF Workers

\* A dropped event is gone from a topic that held it once.
LEMMA DropsAll ==
  ASSUME NEW n, NEW s, NEW e, Len(s) \in Nat, Drops(n, s, e),
         \A i, j \in 1..Len(s) : s[i] = s[j] => i = j
  PROVE  \A j \in 1..Len(n) : n[j] # e
<1>1. CASE n = s /\ \A i \in 1..Len(s) : s[i] # e
  BY <1>1
<1>2. ASSUME NEW k \in 1..Len(s), s[k] = e, Len(n) = Len(s) - 1,
             \A i \in 1..(Len(s) - 1) : n[i] = IF i < k THEN s[i] ELSE s[i + 1],
             NEW j \in 1..Len(n)
      PROVE  n[j] # e
  <2>1. PICK m \in 1..Len(s) : n[j] = s[m] /\ m = IF j < k THEN j ELSE j + 1
    BY <1>2
  <2>2. m # k
    BY <1>2, <2>1
  <2> QED
    BY <1>2, <2>1, <2>2
<1> QED
  BY <1>1, <1>2 DEF Drops

LEMMA TopicLength ==
  ASSUME TypeOK, NEW t \in Topics
  PROVE  topic[t] \in Seq(Event) /\ Len(topic[t]) \in Nat
<1>1. topic[t] \in Seq(Event)
  BY DEF TypeOK
<1> QED
  BY <1>1

\* An event that a topic holds stays in it, if it is not committed.
LEMMA TopicKeeps ==
  ASSUME TrackInv, [Next]_vars, NEW t \in Topics, NEW e,
         \E k \in 1..Len(topic[t]) : topic[t][k] = e,
         ~\E w \in Workers : Return(w) /\ Commit(w) /\ w[2] = t /\ event[w] = e
  PROVE  \E k \in 1..Len(topic'[t]) : topic'[t][k] = e
<1> DEFINE Q == topic[t]
           R == topic'[t]
<1>0. Q \in Seq(Event) /\ Len(Q) \in Nat /\ TypeOK
  BY TopicLength DEF TrackInv
<1>1. PICK k \in 1..Len(Q) : Q[k] = e
  OBVIOUS
<1>2. CASE R = Q
  BY <1>1, <1>2
<1>3. ASSUME NEW x \in Event, R = Append(Q, x) PROVE \E j \in 1..Len(R) : R[j] = e
  <2>1. Len(R) = Len(Q) + 1 /\ \A i \in 1..Len(Q) : R[i] = Q[i]
    BY <1>0, <1>3
  <2>2. k \in 1..Len(R) /\ R[k] = e
    BY <1>0, <1>1, <2>1
  <2> QED
    BY <2>2
<1>4. ASSUME NEW w \in Workers, NEW x, x = event[w], x # e, Drops(R, Q, x)
      PROVE  \E j \in 1..Len(R) : R[j] = e
  <2> HIDE DEF Q, R
  <2>1. \A i \in 1..Len(Q) : Q[i] # x => \E j \in 1..Len(R) : R[j] = Q[i]
    BY <1>0, <1>4, DropsKeeps
  <2> QED
    BY <1>1, <1>4, <2>1
<1>5. \A s \in Topics : Kinds(s) \subseteq Event
  BY KindsAreEvents
<1> QED
  BY <1>2, <1>3, <1>4, <1>5, TopicStep

\* What comes into a topic is newly sent.
LEMMA TopicFrom ==
  ASSUME TrackInv, [Next]_vars, NEW t \in Topics, NEW e \in sent,
         \E k \in 1..Len(topic'[t]) : topic'[t][k] = e
  PROVE  \E k \in 1..Len(topic[t]) : topic[t][k] = e
<1> DEFINE Q == topic[t]
           R == topic'[t]
<1>0. Q \in Seq(Event) /\ Len(Q) \in Nat /\ TypeOK
  BY TopicLength DEF TrackInv
<1>1. PICK k \in 1..Len(R) : R[k] = e
  OBVIOUS
<1>2. CASE R = Q
  BY <1>1, <1>2
<1>3. ASSUME NEW x \in Event, x \notin sent, R = Append(Q, x) PROVE \E j \in 1..Len(Q) : Q[j] = e
  <2>1. /\ Len(R) = Len(Q) + 1 /\ R[Len(Q) + 1] = x
        /\ \A i \in 1..Len(Q) : R[i] = Q[i]
    BY <1>0, <1>3
  <2>2. k # Len(Q) + 1
    BY <1>1, <1>3, <2>1
  <2>3. k \in 1..Len(Q) /\ Q[k] = e
    BY <1>0, <1>1, <2>1, <2>2
  <2> QED
    BY <2>3
<1>4. ASSUME NEW x, Drops(R, Q, x) PROVE \E j \in 1..Len(Q) : Q[j] = e
  <2> HIDE DEF Q, R
  <2>1. PICK f : \A j \in 1..Len(R) : f[j] \in 1..Len(Q) /\ R[j] = Q[f[j]]
    BY <1>0, <1>4, DropsKeeps
  <2> QED
    BY <1>1, <2>1
<1>5. \A s \in Topics : Kinds(s) \subseteq Event
  BY KindsAreEvents
<1> QED
  BY <1>2, <1>3, <1>4, <1>5, TopicStep

\* A worker of the one process holds an event that its topic holds.
LEMMA HeldStep ==
  ASSUME TrackInv, Held, [Next]_vars, NEW p, Processes = {p}
  PROVE  Held'
<1> SUFFICES ASSUME NEW w \in Workers, event'[w] # None
             PROVE  \E k \in 1..Len(topic'[w[2]]) : topic'[w[2]][k] = event'[w]
  BY DEF Held
<1>0. TypeOK /\ w[2] \in Topics
  BY DEF TrackInv, Workers
<1>1. PICK e : e = event'[w]
  OBVIOUS
<1>2. ASSUME NEW v \in Workers, Return(v), v = w PROVE FALSE
  BY <1>0, <1>2 DEF Return, TypeOK
<1>3. CASE event'[w] = event[w]
  <2>1. \E k \in 1..Len(topic[w[2]]) : topic[w[2]][k] = e
    BY <1>1, <1>3 DEF Held
  <2>2. ~\E v \in Workers : Return(v) /\ Commit(v) /\ v[2] = w[2] /\ event[v] = e
    BY <1>2, OneWorker
  <2> QED
    BY <1>0, <1>1, <2>1, <2>2, TopicKeeps
<1>4. ASSUME NEW v \in Workers, NEW d \in sent, Take(v, d), event'[w] # event[w]
      PROVE  \E k \in 1..Len(topic'[w[2]]) : topic'[w[2]][k] = event'[w]
  <2>1. v = w /\ event'[w] = d
    BY <1>0, <1>4 DEF Take, TypeOK
  <2> QED
    BY <1>4, <2>1 DEF Take, Uncommitted
<1>5. ASSUME NEW v \in Workers, Return(v) PROVE event'[w] \in {event[w], None}
  BY <1>0, <1>5 DEF Return, TypeOK
<1>6. ASSUME NEW q \in Processes, Crash(q) PROVE event'[w] \in {event[w], None}
  BY <1>6 DEF Crash
<1>7. ASSUME NEW v \in Workers, Works(v) PROVE event'[w] = event[w]
  BY <1>0, <1>7, WorkLeaves
<1>8. ASSUME Publishes PROVE event' = event
  BY <1>8, PublishedEvent DEF Send
<1>9. ASSUME UNCHANGED vars PROVE event' = event
  BY <1>9 DEF vars
<1> QED
  BY <1>3, <1>4, <1>5, <1>6, <1>7, <1>8, <1>9, StepIs

\* A newly sent location has the next number.
LEMMA NextNumber ==
  ASSUME TrackInv, Publishes
  PROVE  \E e : /\ e \notin sent /\ sent' = sent \cup {e}
                /\ e \in Location => e.point = Cardinality(sent \cap Location) + 1
<1>1. ASSUME NEW b \in Bookings, SendAccepted(b) \/ SendConfirmed(b)
      PROVE  \E e \in Accepted \cup Confirmed : e \notin sent /\ sent' = sent \cup {e}
  <2>1. /\ AcceptedOf(b) \in Accepted \cup Confirmed
        /\ ConfirmedOf(b) \in Accepted \cup Confirmed
    BY EventsOf
  <2> QED
    BY <1>1, <2>1 DEF SendAccepted, SendConfirmed, Send, AcceptedOf, ConfirmedOf
<1>2. ASSUME NEW r \in Runners, NEW g \in Grades, SendLocation(r, g)
      PROVE  \E e : /\ e \notin sent /\ sent' = sent \cup {e}
                    /\ e.point = Cardinality(sent \cap Location) + 1
  <2> DEFINE e == [type |-> "location", runner |-> r, point |-> Cardinality(sent \cap Location) + 1,
                   grade |-> g]
  <2>1. e \notin sent /\ sent' = sent \cup {e}
    BY <1>2 DEF SendLocation, Send
  <2>2. e.point = Cardinality(sent \cap Location) + 1
    OBVIOUS
  <2> QED
    BY <2>1, <2>2
<1>3. ASSUME NEW u \in Unknowns, SendUnknown(u)
      PROVE  \E e \in Unknown : e \notin sent /\ sent' = sent \cup {e}
  BY <1>3, UnknownsAssumption DEF SendUnknown, Send
<1> QED
  BY <1>1, <1>2, <1>3, KindsDisjoint DEF Publishes

\* What CopiesInv says of the numbers of the points.
Numbered ==
  /\ \A e \in sent \cap Location : e.point <= Cardinality(sent \cap Location)
  /\ \A d, e \in sent \cap Location : d.point = e.point => d = e
  /\ \A i \in Ids : \A n \in PointsOf(i) : \E e \in sent \cap Location : e.point = n

LEMMA NumberedStep ==
  ASSUME TrackInv, Numbered, [Next]_vars
  PROVE  Numbered'
<1> DEFINE N == Cardinality(sent \cap Location)
<1>0. IsFiniteSet(sent \cap Location) /\ N \in Nat
  <2>1. IsFiniteSet(sent \cap Location)
    BY FS_Subset DEF TrackInv, TopicsFit
  <2> QED
    BY <2>1, FS_CardinalityType
<1>1. \A e \in Location : e.point \in Nat
  BY DEF Location, Points
<1>2. ASSUME Publishes
      PROVE  /\ \A e \in sent' \cap Location : e.point <= Cardinality(sent' \cap Location)
             /\ \A d, e \in sent' \cap Location : d.point = e.point => d = e
  <2>1. PICK e : /\ e \notin sent /\ sent' = sent \cup {e}
                 /\ e \in Location => e.point = N + 1
    BY <1>2, NextNumber
  <2>2. CASE e \notin Location
    <3>1. sent' \cap Location = sent \cap Location
      BY <2>1, <2>2
    <3> QED
      BY <3>1 DEF Numbered
  <2>3. CASE e \in Location
    <3>1. sent' \cap Location = (sent \cap Location) \cup {e} /\ e \notin sent \cap Location
      BY <2>1, <2>3
    <3>2. Cardinality(sent' \cap Location) = N + 1
      BY <1>0, <3>1, FS_AddElement
    <3>3. \A d \in sent \cap Location : d.point <= N
      BY DEF Numbered
    <3> HIDE DEF N
    <3> QED
      BY <1>0, <1>1, <2>1, <2>3, <3>1, <3>2, <3>3 DEF Numbered
  <2> QED
    BY <2>2, <2>3
<1>3. ASSUME sent' = sent
      PROVE  /\ \A e \in sent' \cap Location : e.point <= Cardinality(sent' \cap Location)
             /\ \A d, e \in sent' \cap Location : d.point = e.point => d = e
  BY <1>3 DEF Numbered
<1>4. Publishes \/ sent' = sent
  <2>1. "booking" \in Topics
    BY DEF Topics
  <2> QED
    BY <2>1, TopicStep
<1>5. ASSUME NEW i \in Ids, NEW n \in PointsOf(i)'
      PROVE  \E e \in sent' \cap Location : e.point = n
  <2>1. CASE n \in PointsOf(i)
    BY <2>1, TablesGrow DEF Numbered
  <2>2. CASE UNCHANGED waypoints
    BY <1>5, <2>1, <2>2 DEF PointsOf
  <2>3. ASSUME NEW w \in Workers, Adds(w) PROVE \E e \in sent' \cap Location : e.point = n
    <3>1. CASE waypoints'[i] = waypoints[i]
      BY <1>5, <2>1, <3>1 DEF PointsOf
    <3>2. CASE n = event[w].point
      <4>1. event[w] \in Location /\ event[w] \in sent
        BY <2>3, KindsDisjoint DEF Adds, TrackInv, StepsFit
      <4> QED
        BY <3>2, <4>1, TablesGrow
    <3> QED
      BY <1>5, <2>1, <2>3, <3>1, <3>2, AddsPoint
  <2> QED
    BY <2>2, <2>3, WaypointsChange
<1> QED
  BY <1>2, <1>3, <1>4, <1>5 DEF Numbered

\* A call is one fault or none.
LEMMA FaultsStep ==
  ASSUME TrackInv, [Next]_vars
  PROVE  faults' = faults \/ faults' = faults + 1
<1>1. ASSUME NEW w \in Workers, Works(w) PROVE Succeeds \/ Fails
  <2>1. CASE AcceptedFind(w) \/ AcceptedSave(w) \/ AcceptedPublish(w) \/ Ignore(w)
    BY <2>1 DEF AcceptedFind, AcceptedSave, AcceptedPublish, Ignore, Succeeds
  <2>2. CASE LocationFind(w) \/ LocationAdd(w) \/ LocationBroadcast(w) \/ LocationPublish(w)
    BY <2>2 DEF LocationFind, LocationAdd, LocationBroadcast, LocationPublish, Succeeds
  <2>3. CASE ConfirmedFind(w) \/ ConfirmedMeasure(w) \/ ConfirmedUpdate(w) \/ ConfirmedPublish(w)
    BY <2>3 DEF ConfirmedFind, ConfirmedMeasure, ConfirmedUpdate, ConfirmedPublish
  <2> QED
    BY <1>1, <2>1, <2>2, <2>3 DEF Works
<1>2. ASSUME Publishes PROVE faults' = faults
  BY <1>2, PublishedEvent DEF Send
<1> QED
  BY <1>1, <1>2, StepIs DEF Succeeds, Fails, Take, Return, Crash, vars

\* What waits after a step waited before, or a crash made it wait again.
LEMMA WaitsFrom ==
  ASSUME TrackInv, [Next]_vars, NEW p, Processes = {p}, NEW e \in sent, Waits(e)'
  PROVE  \/ Waits(e)
         \/ faults' = faults + 1 /\ e = event[LocationWorker(p)] /\ UNCHANGED waypoints
<1> DEFINE L == LocationWorker(p)
           S == {"broadcast", "publish", "returned"}
<1>0. TypeOK /\ "runner" \in Topics /\ e \in Location
  BY DEF TrackInv, Topics, Waits
<1>1. \E k \in 1..Len(topic'["runner"]) : topic'["runner"][k] = e
  BY DEF Waits
<1>2. \E k \in 1..Len(topic["runner"]) : topic["runner"][k] = e
  BY <1>0, <1>1, TopicFrom
<1>3. SUFFICES ASSUME ~Waits(e)
               PROVE  faults' = faults + 1 /\ e = event[L] /\ UNCHANGED waypoints
  OBVIOUS
<1>4. PICK w \in Workers : event[w] = e /\ at[w] \in S
  BY <1>0, <1>2, <1>3 DEF Waits
<1>5. w = L /\ L[2] = "runner"
  <2>1. w[1] \in Processes /\ w = LocationWorker(w[1])
    BY <1>0, <1>4, LocationsWorker
  <2> QED
    BY <2>1, LocationWorkers
<1> HIDE DEF L
<1>6. event'[w] = e => at'[w] \notin S
  BY DEF Waits
<1>7. ASSUME NEW v \in Workers, NEW d \in sent, Take(v, d) PROVE FALSE
  BY <1>0, <1>4, <1>6, <1>7 DEF Take, TypeOK
<1>8. ASSUME NEW v \in Workers, Return(v) PROVE FALSE
  <2>1. v = w
    BY <1>0, <1>4, <1>6, <1>8 DEF Return, Goto, TypeOK
  <2>2. at[w] = "returned"
    BY <1>4, <1>8, <2>1 DEF Return
  <2>3. topic'["runner"] = Without(topic["runner"], e)
    BY <1>0, <1>4, <1>5, <1>8, <2>1, <2>2 DEF Return, Commit, TypeOK
  <2>4. topic["runner"] \in Seq(Event) /\ Len(topic["runner"]) \in Nat
    BY <1>0, TopicLength
  <2>5. Drops(topic'["runner"], topic["runner"], e)
    BY <2>3, <2>4, WithoutIs
  <2>6. \A i, j \in 1..Len(topic["runner"]) : topic["runner"][i] = topic["runner"][j] => i = j
    BY <1>0 DEF TrackInv, TopicsFit
  <2>7. \A j \in 1..Len(topic'["runner"]) : topic'["runner"][j] # e
    BY <2>4, <2>5, <2>6, DropsAll
  <2> QED
    BY <1>1, <2>7
<1>9. ASSUME NEW v \in Workers, Works(v) PROVE FALSE
  <2>1. event' = event
    BY <1>0, <1>9, WorkLeaves
  <2>2. v = w
    BY <1>0, <1>4, <1>6, <1>9, <2>1, WorkLeaves
  <2>3. event[w] \notin Accepted \cup Confirmed \cup Unknown
    BY <1>0, <1>4, KindsDisjoint
  <2>4. ~(AcceptedFind(w) \/ AcceptedSave(w) \/ AcceptedPublish(w) \/ Ignore(w))
    BY <2>3, HandledEvent DEF AcceptedFind, AcceptedSave, AcceptedPublish, Ignore
  <2>5. ~(ConfirmedFind(w) \/ ConfirmedMeasure(w) \/ ConfirmedUpdate(w) \/ ConfirmedPublish(w))
    BY <2>3, HandledEvent DEF ConfirmedFind, ConfirmedMeasure, ConfirmedUpdate, ConfirmedPublish
  <2>6. ~(LocationFind(w) \/ LocationAdd(w))
    BY <1>4 DEF LocationFind, LocationAdd, Handles
  <2>7. LocationBroadcast(w) \/ LocationPublish(w)
    BY <1>9, <2>2, <2>4, <2>5, <2>6 DEF Works
  <2>8. at'[w] \in S
    BY <1>0, <2>7 DEF LocationBroadcast, LocationPublish, Goto, TypeOK
  <2> QED
    BY <1>4, <1>6, <2>1, <2>8
<1>10. ASSUME NEW q \in Processes, Crash(q)
       PROVE  faults' = faults + 1 /\ UNCHANGED waypoints
  BY <1>10 DEF Crash, database
<1>11. ASSUME Publishes PROVE FALSE
  BY <1>4, <1>6, <1>11, PublishedEvent DEF Send
<1>12. ASSUME UNCHANGED vars PROVE FALSE
  BY <1>4, <1>6, <1>12 DEF vars
<1> QED
  BY <1>4, <1>5, <1>7, <1>8, <1>9, <1>10, <1>11, <1>12, StepIs

\* The location of a point that waits again was sent before this step.
LEMMA AgainFrom ==
  ASSUME TrackInv, Numbered, [Next]_vars, NEW i \in Ids, NEW n \in Again(i)'
  PROVE  n \in PointsOf(i)' /\ \E e \in sent : Waits(e)' /\ e.point = n
<1>1. PICK e \in sent' : Waits(e)' /\ e.point = n
  BY DEF Again
<1>2. n \in PointsOf(i)' /\ e \in Location
  BY <1>1 DEF Again, Waits
<1>3. CASE e \in sent
  BY <1>1, <1>2, <1>3
<1>4. CASE e \notin sent
  <2>1. Publishes
    <3>1. "booking" \in Topics
      BY DEF Topics
    <3> QED
      BY <1>4, <3>1, TopicStep
  <2>2. UNCHANGED waypoints
    BY <2>1, PublishedEvent DEF Send, database
  <2>3. PICK d \in sent \cap Location : d.point = n
    <3>1. n \in PointsOf(i)
      BY <1>2, <2>2 DEF PointsOf, database
    <3>2. \A m \in PointsOf(i) : \E d \in sent \cap Location : d.point = m
      BY DEF Numbered
    <3> QED
      BY <3>1, <3>2
  <2>4. e.point = Cardinality(sent \cap Location) + 1
    BY <1>2, <1>4, <2>1, NextNumber
  <2>5. d.point <= Cardinality(sent \cap Location)
    BY <2>3 DEF Numbered
  <2>6. IsFiniteSet(sent \cap Location)
    BY FS_Subset DEF TrackInv, TopicsFit
  <2>7. Cardinality(sent \cap Location) \in Nat
    BY <2>6, FS_CardinalityType
  <2> QED
    BY <1>1, <2>3, <2>4, <2>5, <2>7
<1> QED
  BY <1>3, <1>4

\* The points of a track are finitely many, and so are those that wait again.
LEMMA PointsFinite ==
  ASSUME TypeOK, NEW i \in Ids
  PROVE  IsFiniteSet(PointsOf(i)) /\ IsFiniteSet(Again(i))
<1>1. PointsOf(i) \subseteq Points /\ Again(i) \subseteq PointsOf(i)
  BY DistanceTyped DEF Again
<1>2. IsFiniteSet(Points)
  BY FS_Interval, BoundAssumption DEF Points
<1> QED
  BY <1>1, <1>2, FS_Subset

\* What CopiesInv says of a track, by its id.
Copied(i) == Len(waypoints[i]) + Cardinality(Again(i)) <= Cardinality(PointsOf(i)) + faults

LEMMA CopiedStep ==
  ASSUME TrackInv, TrackInv', Held, Numbered, [Next]_vars, NEW p, Processes = {p},
         NEW i \in Ids, Copied(i)
  PROVE  Copied(i)'
<1> DEFINE L == LocationWorker(p)
           x == event[L].point
           P == PointsOf(i)
           P1 == PointsOf(i)'
           A == Again(i)
           A1 == Again(i)'
           l == Len(waypoints[i])
           l1 == Len(waypoints'[i])
<1>0. /\ TypeOK /\ L \in Workers
      /\ l \in Nat /\ faults \in Nat /\ (faults' = faults \/ faults' = faults + 1)
      /\ IsFiniteSet(P) /\ IsFiniteSet(A)
  <2>1. TypeOK
    BY DEF TrackInv
  <2>2. waypoints[i] \in Seq(Points) /\ faults \in Nat
    BY <2>1, BoundAssumption DEF TypeOK
  <2>3. l \in Nat
    BY <2>2
  <2> QED
    BY <2>1, <2>2, <2>3, FaultsStep, PointsFinite, LocationWorkers
<1>1. A1 \subseteq P1 /\ A \subseteq P
  BY DEF Again
<1>2. IsFiniteSet(P1) /\ IsFiniteSet(A1)
  <2>1. TypeOK'
    BY DEF TrackInv
  <2>2. waypoints'[i] \in Seq(Points)
    BY <2>1 DEF TypeOK
  <2>3. P1 \subseteq Points
    BY <2>2 DEF PointsOf
  <2>4. IsFiniteSet(Points)
    BY FS_Interval, BoundAssumption DEF Points
  <2> QED
    BY <1>1, <2>3, <2>4, FS_Subset
<1>3. /\ Cardinality(P) \in Nat /\ Cardinality(A) \in Nat
      /\ Cardinality(P1) \in Nat /\ Cardinality(A1) \in Nat
  BY <1>0, <1>2, FS_CardinalityType
<1>4. l + Cardinality(A) <= Cardinality(P) + faults
  BY DEF Copied
<1>5. SUFFICES l1 + Cardinality(A1) <= Cardinality(P1) + faults'
  BY DEF Copied
<1>6. ASSUME NEW n \in A1
      PROVE  /\ n \in P1
             /\ \/ \E e \in sent : Waits(e) /\ Waits(e)' /\ e.point = n
                \/ faults' = faults + 1 /\ n = x /\ UNCHANGED waypoints
  BY <1>6, AgainFrom, WaitsFrom
<1>7. CASE waypoints'[i] = waypoints[i] /\ UNCHANGED waypoints
  <2>1. P1 = P /\ l1 = l
    BY <1>7 DEF PointsOf
  <2>2. A1 \subseteq A \/ (faults' = faults + 1 /\ A1 \subseteq A \cup {x})
    BY <1>6, <2>1 DEF Again
  <2> HIDE DEF A, A1, P, P1, l, l1, x
  <2>3. CASE A1 \subseteq A
    <3>1. Cardinality(A1) <= Cardinality(A)
      BY <1>0, <2>3, FS_Subset
    <3> QED
      BY <1>0, <1>3, <1>4, <2>1, <3>1
  <2>4. CASE faults' = faults + 1 /\ A1 \subseteq A \cup {x}
    <3>1. IsFiniteSet(A \cup {x}) /\ Cardinality(A \cup {x}) \in {Cardinality(A), Cardinality(A) + 1}
      BY <1>0, FS_AddElement
    <3>2. Cardinality(A1) <= Cardinality(A \cup {x})
      BY <2>4, <3>1, FS_Subset
    <3>3. Cardinality(A1) <= Cardinality(A) + 1
      BY <1>3, <3>1, <3>2
    <3> QED
      BY <1>0, <1>3, <1>4, <2>1, <2>4, <3>3
  <2> QED
    BY <2>2, <2>3, <2>4
<1>8. ASSUME NEW w \in Workers, Adds(w) PROVE l1 + Cardinality(A1) <= Cardinality(P1) + faults'
  <2>1. w = L /\ event[L] \in Location /\ event[L] \in sent /\ at[L] = "add" /\ event[L] # None
    <3>1. event[w] \in Location /\ at[w] = "add"
      BY <1>8 DEF Adds
    <3>2. w[1] = p /\ w = LocationWorker(w[1])
      BY <3>1, LocationsWorker
    <3> QED
      BY <3>1, <3>2, KindsDisjoint DEF TrackInv, StepsFit
  <2>2. /\ track[L].id \in Ids
        /\ track[L].id # i => waypoints'[i] = waypoints[i]
        /\ track[L].id = i => l1 = l + 1 /\ P1 = P \cup {x}
    BY <1>8, <2>1, AddsPoint DEF Adds
  <2>3. ~UNCHANGED waypoints
    <3>1. Len(waypoints'[track[L].id]) = Len(waypoints[track[L].id]) + 1
      BY <1>8, <2>1, <2>2, AddsPoint
    <3>2. waypoints[track[L].id] \in Seq(Points)
      BY <1>0, <2>2 DEF TypeOK
    <3>3. Len(waypoints[track[L].id]) \in Nat
      BY <3>2
    <3> QED
      BY <3>1, <3>3
  <2>4. ASSUME NEW n \in A1 PROVE n \in P1 /\ \E e \in sent : Waits(e) /\ Waits(e)' /\ e.point = n
    BY <1>6, <2>3, <2>4
  <2>5. Waits(event[L])
    <3>1. L[2] = "runner"
      BY LocationWorkers
    <3>2. \A v \in Workers : event[v] = event[L] => v = L
      <4>1. \A v \in Workers : event[v] \in Location => v[1] = p /\ v = LocationWorker(v[1])
        BY LocationsWorker
      <4> QED
        BY <2>1, <4>1
    <3> QED
      BY <1>0, <2>1, <3>1, <3>2 DEF Held, Waits
  <2>6. CASE track[L].id # i
    <3>1. P1 = P /\ l1 = l
      BY <2>2, <2>6 DEF PointsOf
    <3>2. A1 \subseteq A
      BY <2>4, <3>1 DEF Again
    <3> HIDE DEF A, A1, P, P1, l, l1, x, L
    <3>3. Cardinality(A1) <= Cardinality(A)
      BY <1>0, <3>2, FS_Subset
    <3> QED
      BY <1>0, <1>3, <1>4, <3>1, <3>3
  <2>7. CASE track[L].id = i
    <3>1. l1 = l + 1 /\ P1 = P \cup {x}
      BY <2>2, <2>7
    <3>2. x \in P => x \in A
      BY <2>1, <2>5 DEF Again
    <3>3. \/ faults' = faults /\ at'[L] = "broadcast"
          \/ faults' = faults + 1
      BY <1>0, <1>8, <2>1, <2>3 DEF Adds, LocationAdd, Succeeds, Fails, Goto, TypeOK
    <3>4. event'[L] = event[L]
      BY <1>8, <2>1 DEF Adds, LocationAdd
    <3>5. A1 \subseteq A \cup {x}
      BY <2>4, <3>1 DEF Again
    <3>6. at'[L] = "broadcast" => x \notin A1
      <4>1. SUFFICES ASSUME at'[L] = "broadcast", x \in A1 PROVE FALSE
        OBVIOUS
      <4>2. PICK e \in sent : Waits(e) /\ Waits(e)' /\ e.point = x
        BY <2>4, <4>1
      <4>3. e \in Location
        BY <4>2 DEF Waits
      <4>4. e = event[L]
        BY <2>1, <4>2, <4>3 DEF Numbered
      <4> QED
        BY <1>0, <3>4, <4>1, <4>2, <4>4 DEF Waits
    <3> HIDE DEF A, A1, P, P1, l, l1, x, L
    <3>7. CASE x \in P
      <4>1. P1 = P /\ x \in A /\ A1 \subseteq A
        BY <3>1, <3>2, <3>5, <3>7
      <4>2. CASE faults' = faults + 1
        <5>1. Cardinality(A1) <= Cardinality(A)
          BY <1>0, <4>1, FS_Subset
        <5> QED
          BY <1>0, <1>3, <1>4, <3>1, <4>1, <4>2, <5>1
      <4>3. CASE faults' = faults /\ at'[L] = "broadcast"
        <5>1. A1 \subseteq A \ {x}
          BY <3>6, <4>1, <4>3
        <5>2. IsFiniteSet(A \ {x}) /\ Cardinality(A \ {x}) = Cardinality(A) - 1
          BY <1>0, <4>1, FS_RemoveElement
        <5>3. Cardinality(A1) <= Cardinality(A) - 1
          BY <5>1, <5>2, FS_Subset
        <5>4. l1 = l + 1 /\ Cardinality(P1) = Cardinality(P)
          BY <3>1, <4>1
        <5> QED
          BY <1>0, <1>3, <1>4, <4>3, <5>3, <5>4
      <4> QED
        BY <3>3, <4>2, <4>3
    <3>8. CASE x \notin P
      <4>1. Cardinality(P1) = Cardinality(P) + 1
        BY <1>0, <3>1, <3>8, FS_AddElement
      <4>2. CASE faults' = faults + 1
        <5>1. IsFiniteSet(A \cup {x})
              /\ Cardinality(A \cup {x}) \in {Cardinality(A), Cardinality(A) + 1}
          BY <1>0, FS_AddElement
        <5>2. Cardinality(A1) <= Cardinality(A \cup {x})
          BY <3>5, <5>1, FS_Subset
        <5>3. Cardinality(A1) <= Cardinality(A) + 1
          BY <1>3, <5>1, <5>2
        <5> QED
          BY <1>0, <1>3, <1>4, <3>1, <4>1, <4>2, <5>3
      <4>3. CASE faults' = faults /\ at'[L] = "broadcast"
        <5>1. A1 \subseteq A
          BY <3>5, <3>6, <4>3
        <5>2. Cardinality(A1) <= Cardinality(A)
          BY <1>0, <5>1, FS_Subset
        <5> QED
          BY <1>0, <1>3, <1>4, <3>1, <4>1, <4>3, <5>2
      <4> QED
        BY <3>3, <4>2, <4>3
    <3> QED
      BY <3>7, <3>8
  <2> QED
    BY <2>6, <2>7
<1> QED
  BY <1>7, <1>8, WaypointsChange

\* The points are numbered, and of each there are as many copies as faults
\* that are not about to make another.
LEMMA CopiesInvariant ==
  ASSUME NEW p, Processes = {p}
  PROVE  Spec => []CopiesInv
<1> DEFINE Inv == Held /\ Numbered /\ \A i \in Ids : Copied(i)
<1>1. Init => Inv
  <2> SUFFICES ASSUME Init PROVE Inv
    OBVIOUS
  <2>1. \A w \in Workers : event[w] = None
    BY DEF Init
  <2>2. Held
    BY <2>1 DEF Held
  <2>3. \A i \in Ids : waypoints[i] = <<>> /\ PointsOf(i) = {} /\ Again(i) = {}
    BY DEF Init, PointsOf, Again
  <2>4. Numbered
    BY <2>3 DEF Init, Numbered
  <2>5. ASSUME NEW i \in Ids PROVE Copied(i)
    <3>1. waypoints[i] = <<>> /\ PointsOf(i) = {} /\ Again(i) = {} /\ faults = 0
      BY <2>3 DEF Init
    <3>2. Cardinality({}) = 0 /\ Len(waypoints[i]) = 0
      BY <3>1, FS_EmptySet
    <3>3. Cardinality(PointsOf(i)) = 0 /\ Cardinality(Again(i)) = 0
      BY <3>1, <3>2
    <3> QED
      BY <3>1, <3>2, <3>3 DEF Copied
  <2> QED
    BY <2>2, <2>4, <2>5
<1>2. TrackInv /\ TrackInv' /\ Inv /\ [Next]_vars => Inv'
  <2> SUFFICES ASSUME TrackInv, TrackInv', Inv, [Next]_vars PROVE Inv'
    OBVIOUS
  <2>1. Held' /\ Numbered'
    BY HeldStep, NumberedStep
  <2>2. ASSUME NEW i \in Ids PROVE Copied(i)'
    BY CopiedStep
  <2> QED
    BY <2>1, <2>2
<1>3. Inv => CopiesInv
  BY DEF CopiesInv, Numbered, Copied
<1> HIDE DEF Inv
<1> QED
  BY <1>1, <1>2, <1>3, TrackInvariant, PTL DEF Spec

\* In one process, a track holds no more copies of its points than there were
\* faults.
THEOREM CopiesAreFaults ==
  ASSUME NEW p, Processes = {p}
  PROVE  Spec => []CopiesNeedFaults
<1>1. TrackInv /\ CopiesInv => CopiesNeedFaults
  <2> SUFFICES ASSUME TrackInv, CopiesInv, NEW i \in Ids
               PROVE  Len(waypoints[i]) <= Cardinality(PointsOf(i)) + faults
    BY DEF CopiesNeedFaults
  <2>1. TypeOK
    BY DEF TrackInv
  <2>2. waypoints[i] \in Seq(Points) /\ faults \in Nat
    BY <2>1, BoundAssumption DEF TypeOK
  <2>3. Len(waypoints[i]) \in Nat
    BY <2>2
  <2>4. Cardinality(PointsOf(i)) \in Nat /\ Cardinality(Again(i)) \in Nat
    BY <2>1, PointsFinite, FS_CardinalityType
  <2>5. Len(waypoints[i]) + Cardinality(Again(i)) <= Cardinality(PointsOf(i)) + faults
    BY DEF CopiesInv
  <2> QED
    BY <2>2, <2>3, <2>4, <2>5
<1> QED
  BY <1>1, TrackInvariant, CopiesInvariant, PTL

-----------------------------------------------------------------------------
(* With one process, a completed trip is final, and the tracks implement    *)
(* the life cycle of a trip.                                               *)

LEMMA CompletionStep ==
  ASSUME TrackInv, TrackInv', CompletionInv, [Next]_vars, NEW p, Processes = {p}
  PROVE  CompletionInv'
<1>0. /\ TypeOK
      /\ \A b \in Bookings : completed[b] # <<>> => \E r \in TracksOf(b) : ~IsActive(r)
  BY DEF TrackInv, CompletionInv
<1>1. ASSUME NEW b \in Bookings, completed'[b] # <<>>
      PROVE  \E r \in tracks' : r.booking = b /\ ~IsActive(r)
  <2>1. CASE completed[b] = <<>>
    <3>1. PICK w \in Workers : Finishes(w)
      BY <1>1, <2>1, CompletedChange
    <3>2. Completing(w)
      BY <3>1 DEF Finishes, Completing
    <3>3. track[w] \in tracks /\ track[w].status = "completed"
      <4>1. event[w] \notin Location
        BY <3>1, KindsDisjoint DEF Finishes
      <4> QED
        BY <3>1, <4>1 DEF Finishes, CompletionInv, TrackInv, CopiesFit
    <3>4. b = track[w].booking
      BY <1>0, <1>1, <2>1, <3>1 DEF Finishes, TypeOK
    <3>5. tracks' = tracks
      BY <3>1 DEF Finishes, ConfirmedPublish, database
    <3> QED
      BY <3>3, <3>4, <3>5 DEF IsActive
  <2>2. CASE completed[b] # <<>>
    <3>1. PICK r \in tracks : r.booking = b /\ r.status # "active"
      BY <1>0, <2>2 DEF TracksOf, IsActive
    <3>2. CASE UNCHANGED tracks
      BY <3>1, <3>2 DEF IsActive
    <3>3. ASSUME NEW w \in Workers, NEW i \in Ids, Inserts(w, i) PROVE r \in tracks'
      BY <3>3 DEF Inserts
    <3>4. ASSUME NEW w \in Workers, Completes(w)
          PROVE  \E s \in tracks' : s.booking = b /\ s.status # "active"
      <4>1. PICK s \in tracks' : IsCopy(s, r)
        BY <3>4, OverwriteKeeps
      <4>2. s \in tracks \/ s = track[w]
        BY <3>4, OverwriteKeeps
      <4>3. s \in tracks => s = r
        BY <4>1, OneRow DEF IsCopy
      <4>4. track[w].status = "completed" /\ s.booking = b
        BY <3>1, <3>4, <4>1 DEF Completes, IsCopy
      <4> QED
        BY <3>1, <4>2, <4>3, <4>4
    <3> QED
      BY <3>1, <3>2, <3>3, <3>4, TracksChange DEF IsActive
  <2> QED
    BY <2>1, <2>2
<1>2. ASSUME NEW b \in Bookings, NEW r \in TracksOf(b), r.status = "active"
      PROVE  completed[b] = <<>> /\ \A s \in tracks : s.booking = b => s.status = "active"
  <2>1. r \in tracks /\ r.booking = b
    BY DEF TracksOf
  <2>2. \A s \in tracks : s.booking = b => s = r
    BY <2>1, OneRow
  <2> QED
    BY <1>0, <1>2, <2>2 DEF TracksOf, IsActive
<1>3. ASSUME NEW v \in Workers, NEW w \in Workers, Completing(v), Finishes(w) \/ Completes(w)
      PROVE  w = v
  <2>1. Completing(w)
    <3>1. Completes(w) => at[w] = "update"
      BY DEF Completes, ConfirmedUpdate, Handles
    <3> QED
      BY <1>3, <3>1 DEF Finishes, Completing
  <2> QED
    BY <1>3, <2>1, CompletingConfirms, OneWorker
<1>4. ASSUME NEW v \in Workers, Completing(v)',
             Completing(v), at'[v] = at[v], event'[v] = event[v], track'[v] = track[v],
             ~ConfirmedUpdate(v), ~ConfirmedPublish(v)
      PROVE  /\ completed' = completed
             /\ \A r \in tracks : r \in tracks'
             /\ \A r \in tracks' : r \in tracks \/ r.status = "active"
  <2>1. ~\E w \in Workers : Finishes(w) \/ Completes(w)
    <3>1. ASSUME NEW w \in Workers, Finishes(w) \/ Completes(w) PROVE FALSE
      <4>1. w = v
        BY <1>3, <1>4, <3>1
      <4> QED
        BY <1>4, <3>1, <4>1 DEF Finishes, Completes
    <3> QED
      BY <3>1
  <2>2. completed' = completed
    BY <2>1, CompletedChange
  <2>3. CASE UNCHANGED tracks
    BY <2>2, <2>3
  <2>4. ASSUME NEW w \in Workers, NEW i \in Ids, Inserts(w, i)
        PROVE  /\ \A r \in tracks : r \in tracks'
               /\ \A r \in tracks' : r \in tracks \/ r.status = "active"
    BY <2>4, NewTrackTyped DEF Inserts
  <2> QED
    BY <2>1, <2>2, <2>3, <2>4, TracksChange
<1>5. ASSUME NEW v \in Workers, at'[v] \in {"measure", "update"}
      PROVE  /\ completed'[event'[v].booking] = <<>>
             /\ \A r \in tracks' : r.booking = event'[v].booking => r.status = "active"
  <2>0. Completing(v)' /\ at'[v] # "publish"
    BY <1>5 DEF Completing
  <2>1. CASE /\ Completing(v) /\ at'[v] = at[v] /\ event'[v] = event[v] /\ track'[v] = track[v]
             /\ ~ConfirmedUpdate(v) /\ ~ConfirmedPublish(v)
    <3>1. /\ completed[event[v].booking] = <<>>
          /\ \A r \in tracks : r.booking = event[v].booking => r.status = "active"
      BY <1>5, <2>1 DEF CompletionInv, TracksOf, IsActive
    <3> QED
      BY <1>4, <2>0, <2>1, <3>1
  <2>2. CASE /\ at'[v] = "measure" /\ event'[v] = event[v] /\ event[v] \in Confirmed
             /\ \E r \in TracksOf(event[v].booking) : IsActive(r)
             /\ UNCHANGED <<tracks, completed>>
    <3>1. event[v].booking \in Bookings
      BY <2>2, EventsOf
    <3> QED
      BY <1>2, <2>2, <3>1 DEF IsActive
  <2>3. CASE /\ at[v] = "measure" /\ at'[v] = "update" /\ event'[v] = event[v]
             /\ UNCHANGED <<tracks, completed>>
    BY <2>3 DEF CompletionInv, TracksOf, IsActive
  <2> QED
    BY <2>0, <2>1, <2>2, <2>3, CompletingFrom
<1>6. ASSUME NEW v \in Workers, at'[v] = "publish", event'[v] \in Confirmed
      PROVE  completed'[event'[v].booking] = <<>> /\ track'[v] \in tracks'
  <2>0. Completing(v)' /\ at'[v] \notin {"measure", "update"}
    BY <1>6 DEF Completing
  <2>1. CASE /\ Completing(v) /\ at'[v] = at[v] /\ event'[v] = event[v] /\ track'[v] = track[v]
             /\ ~ConfirmedUpdate(v) /\ ~ConfirmedPublish(v)
    <3>1. completed[event[v].booking] = <<>> /\ track[v] \in tracks
      BY <1>6, <2>1 DEF CompletionInv
    <3> QED
      BY <1>4, <2>0, <2>1, <3>1
  <2>2. CASE /\ at[v] = "update" /\ at'[v] = "publish" /\ event'[v] = event[v]
             /\ Completes(v) /\ track'[v] = track[v] /\ UNCHANGED completed
    <3>1. completed[event[v].booking] = <<>>
      BY <2>2 DEF CompletionInv
    <3>2. track[v] \in tracks'
      BY <2>2, OverwriteKeeps
    <3> QED
      BY <2>2, <3>1, <3>2
  <2> QED
    BY <2>0, <2>1, <2>2, CompletingFrom
<1> QED
  BY <1>1, <1>5, <1>6 DEF CompletionInv, TracksOf, IsActive

\* While a completion is under way the trip is active, and nothing was told.
LEMMA CompletionInvariant ==
  ASSUME NEW p, Processes = {p}
  PROVE  Spec => []CompletionInv
<1>1. Init => CompletionInv
  BY KindsDisjoint DEF Init, CompletionInv
<1>2. TrackInv /\ TrackInv' /\ CompletionInv /\ [Next]_vars => CompletionInv'
  BY CompletionStep
<1> QED
  BY <1>1, <1>2, TrackInvariant, PTL DEF Spec

\* What holds of one process: the invariant of any number, and that copies of
\* points are paid for by faults and completions come one after the other.
THEOREM OneProcessIsSafe ==
  ASSUME NEW p, Processes = {p}
  PROVE  Spec => []OneProcessInv
<1>1. TrackInv /\ CopiesInv /\ CompletionInv => OneProcessInv
  BY DEF OneProcessInv
<1> QED
  BY <1>1, TrackInvariant, CopiesInvariant, CompletionInvariant, PTL

\* With one process, a completed trip is final: the completions of one booking
\* are handled one after the other, and the second finds the first one done.
THEOREM CompletionIsFinal ==
  ASSUME NEW p, Processes = {p}
  PROVE  Spec => FinalRecord
<1>1. TrackInv /\ CompletionInv /\ [Next]_vars
        => [\A r \in tracks : r.status = "completed" => r \in tracks']_vars
  <2> SUFFICES ASSUME TrackInv, CompletionInv, [Next]_vars, NEW r \in tracks,
                      r.status = "completed"
               PROVE  r \in tracks'
    OBVIOUS
  <2>1. ASSUME NEW w \in Workers, Completes(w) PROVE r \in tracks'
    <3>1. PICK x \in tracks : IsCopy(track[w], x)
      BY <2>1 DEF Completes
    <3>2. at[w] = "update" /\ track[w].booking = event[w].booking
      BY <2>1 DEF Completes, ConfirmedUpdate, Handles
    <3>3. x.status = "active"
      BY <3>1, <3>2 DEF CompletionInv, IsCopy, TracksOf, IsActive
    <3>4. r.id # track[w].id
      BY <3>1, <3>3, OneRow DEF IsCopy
    <3> QED
      BY <2>1, <3>4 DEF Completes, Overwrite
  <2>2. ASSUME NEW w \in Workers, NEW i \in Ids, Inserts(w, i) PROVE r \in tracks'
    BY <2>2 DEF Inserts
  <2> QED
    BY <2>1, <2>2, TracksChange
<1> QED
  BY <1>1, TrackInvariant, CompletionInvariant, PTL DEF Spec, FinalRecord

\* A completion that is told of is that of a completed trip, and the first.
LEMMA FinishesAnnounces ==
  ASSUME TrackInv, CompletionInv, NEW w \in Workers, Finishes(w)
  PROVE  \E b \in Bookings : Lifecycle!AnnounceCompletion(b)
<1>1. tracks' = tracks /\ waypoints' = waypoints /\ started' = started
  BY DEF Finishes, ConfirmedPublish, database
<1>2. /\ track[w] \in tracks /\ completed[event[w].booking] = <<>>
      /\ track[w].booking = event[w].booking /\ track[w].status = "completed"
  <2>1. event[w] \notin Location
    BY KindsDisjoint DEF Finishes
  <2> QED
    BY <2>1 DEF Finishes, CompletionInv, TrackInv, CopiesFit
<1>3. PICK x \in tracks, b \in Bookings : x = track[w] /\ b = x.booking /\ TracksOf(b) = {x}
  BY <1>2, OneRow
<1>4. Trips[b] = "completed" /\ Dists[b] = x.dist
  <2>1. Trip(b) = "completed" /\ TripDist(b) = x.dist
    BY <1>2, <1>3, TripOf
  <2> QED
    BY <2>1 DEF Trips, Dists
<1>5. completed[b] = <<>> /\ completed' = [completed EXCEPT ![b] = <<x.dist>>]
  <2>1. completed' = [completed EXCEPT ![b] = Append(completed[b], x.dist)]
    BY <1>3 DEF Finishes
  <2>2. completed[b] = <<>>
    BY <1>2, <1>3
  <2>3. Append(<<>>, x.dist) = <<x.dist>>
    OBVIOUS
  <2> QED
    BY <2>1, <2>2, <2>3
<1> QED
  BY <1>1, <1>4, <1>5, TripsStay, LifecycleIs

\* A step of one process is one of the life cycle, or changes nothing it sees.
LEMMA LifecycleStep ==
  ASSUME TrackInv, StartInv, CompletionInv, [Next]_vars
  PROVE  [Lifecycle!Next]_(Lifecycle!vars)
<1>1. ASSUME NEW w \in Workers, NEW i \in Ids, Inserts(w, i) PROVE Lifecycle!Next
  <2>1. event[w].booking \in Bookings
    BY <1>1 DEF Inserts
  <2> QED
    BY <1>1, <2>1, InsertStarts DEF Lifecycle!Next
<1>2. ASSUME NEW w \in Workers, Completes(w) PROVE Lifecycle!Next
  <2>1. PICK r \in tracks, d \in Distances :
          /\ IsCopy(track[w], r)
          /\ r.status = "active" => Lifecycle!Complete(r.booking, d)
    BY <1>2, UpdateCompletes
  <2>2. at[w] = "update" /\ track[w].booking = event[w].booking
    BY <1>2 DEF Completes, ConfirmedUpdate, Handles
  <2>3. r.status = "active" /\ r.booking \in Bookings
    <3>1. \A s \in TracksOf(event[w].booking) : IsActive(s)
      BY <1>2, <2>2 DEF CompletionInv
    <3>2. r \in TracksOf(event[w].booking)
      BY <2>1, <2>2 DEF IsCopy, TracksOf
    <3> QED
      BY <3>1, <3>2, OneRow DEF IsActive
  <2> QED
    BY <2>1, <2>3, DistancesAre DEF Lifecycle!Next
<1>3. ASSUME NEW w \in Workers, Adds(w) PROVE Lifecycle!Next
  BY <1>3, AddGathers DEF Lifecycle!Next
<1>4. ASSUME NEW w \in Workers, Starts(w) PROVE Lifecycle!Next
  BY <1>4, StartsAnnounces DEF Lifecycle!Next
<1>5. ASSUME NEW w \in Workers, Finishes(w) PROVE Lifecycle!Next
  BY <1>5, FinishesAnnounces DEF Lifecycle!Next
<1>6. CASE UNCHANGED <<tracks, waypoints, started, completed>>
  BY <1>6, NothingSeen
<1> QED
  BY <1>1, <1>2, <1>3, <1>4, <1>5, <1>6, TracksChange, WaypointsChange, StartedChange,
     CompletedChange

\* One process implements the life cycle of a trip: it starts once, gathers
\* points, is completed once, for good, and is announced once and truthfully.
THEOREM TracksImplementLifecycle ==
  ASSUME NEW p, Processes = {p}
  PROVE  Spec => LifecycleSpec
<1>1. Init => Lifecycle!Init
  BY LifecycleInit
<1>2. TrackInv /\ StartInv /\ CompletionInv /\ [Next]_vars => [Lifecycle!Next]_(Lifecycle!vars)
  BY LifecycleStep
<1> QED
  BY <1>1, <1>2, TrackInvariant, StartInvariant, CompletionInvariant, PTL
     DEF Spec, LifecycleSpec, Lifecycle!Spec
=============================================================================
