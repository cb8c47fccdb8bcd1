----------------------------- MODULE SharedTrips -----------------------------
(* What is left of TripLifecycle when several processes share the tables.    *)
(* A trip still starts once, and is announced once.  It never goes back, and *)
(* its distance is always one measured on points it had gathered; but each   *)
(* process may complete it, and the second to do so overwrites the distance. *)
(* They tell of the completion no more often than there are processes, each  *)
(* with the distance it measured.                                            *)
EXTENDS TripLifecycle

CONSTANT Processes

AnnounceOwn(b, d) ==
  /\ trip[b] = "completed"
  /\ d \subseteq route[b]
  /\ Len(completed[b]) < Cardinality(Processes)
  /\ completed' = [completed EXCEPT ![b] = Append(@, d)]
  /\ UNCHANGED <<trip, dist, route, started>>

SharedNext ==
  \/ TripNext
  \/ \E b \in Bookings : AnnounceStart(b) \/ \E d \in Distances : AnnounceOwn(b, d)

SharedSpec == Init /\ [][SharedNext]_vars
=============================================================================
