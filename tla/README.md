# Formal model of service-tracking

`service-tracking` follows the trips of a pet-delivery platform. It consumes the
events of other services from Kafka, stores trip tracks and their waypoints in
PostgreSQL, and pushes locations and chat messages to browsers over WebSockets.
This directory holds TLA+ modules of its core, the TLC configurations that check
them on small instances, and TLAPS proofs, for instances of every size, of the
safety of the hub and of what it delivers, of the trips and their refinement of
two abstract life cycles (for one process, and for several), of the chat, and of
what readers of a trip are shown.

- [1. The system](#1-the-system)
- [2. Modules](#2-modules)
- [3. Runs](#3-runs)
- [4. Fairness](#4-fairness)
- [5. Proofs](#5-proofs)
- [6. Findings](#6-findings)
- [7. What is not modelled](#7-what-is-not-modelled)
- [8. Plan](#8-plan)

## 1. The system

| Part | Source | State | Operations |
|---|---|---|---|
| WebSocket hub | `internal/ws/hub.go` | `rooms` (booking to set of clients), four channels, per client a `Send` channel and a connection | `Run` (register, unregister, two broadcasts), `broadcastToRoom`, `ReadPump`, `WritePump` |
| WebSocket handler | `internal/handler/tracking_handler.go` | none of its own | `HandleWebSocket`: upgrade, `Register`, start both pumps |
| Tracking service | `internal/application/tracking_service.go` | none of its own | `HandleBookingAccepted`, `HandleRunnerLocationUpdate`, `HandleDeliveryConfirmed`; queries `GetTracking`, `GetRouteGeoJSON` |
| Trip track | `internal/domain/tracking` | status, distance, version | `NewTripTrack`, `NewWaypoint`, `Complete` |
| Tracking repository | `internal/repository/tracking_repository.go` | tables `trip_tracks`, `waypoints` | `Save`, `Update`, `AddWaypoint`, finders |
| Kafka consumers | `internal/events/kafka_consumer.go` | the event being handled | `handleMessage` for the booking topic and for the runner topic |
| Chat | `application/chat_service.go`, `domain/chat`, `repository/chat_repository.go`, `handler/chat_handler.go` | table `chat_messages` | `SendMessage`, `GetMessages` with its page parameters |
| Trip sharing | `application/share_service.go`, `domain/share`, `repository/share_repository.go` | table `shared_trips` | `CreateShareLink`, `GetSharedTracking` |
| HTTP, auth, start-up, config, migrations | `internal/handler`, `cmd`, `internal/config`, `migrations` | none | routing, parsing, wiring |

How they interact:

- One event loop (`Hub.Run`) owns the rooms. Everybody else talks to it through
  channels: `register` and `unregister` have no buffer, `broadcast` and
  `chatBcast` hold 256 messages. `Broadcast` blocks its caller, a Kafka handler,
  when the channel is full; `BroadcastChat` blocks an HTTP request.
- The loop gives a message to a client with a non-blocking send on `Client.Send`
  (256 messages). A client whose queue is full is evicted: it leaves the room and
  its channel is closed.
- Each client has two goroutines. `ReadPump` ends when a read fails and then
  unregisters. `WritePump` ends when the channel is closed or a write fails and
  then closes the connection. Each makes the other end.
- A process runs two consumers, one for each topic, in two goroutines. Their
  handlers share the database, and share it with other instances of the service.
  There is no transaction around a handler: each repository call commits alone.
- The producer's failures are logged and dropped.
- A chat message is stored, then given to the hub of the process that took the
  request, then answered. The history is read by page, two queries for each.
- A trip is read through three calls: `GetTracking`, `GetRouteGeoJSON`, and
  `GetSharedTracking` for whoever has a token. Each is two to four queries of the
  tables that the event handlers write meanwhile, with no transaction around them.

What is hard: evictions, unregistrations and broadcasts in any order (a close or
send on a closed Go channel kills the process); counts read once and used later;
bounded channels that block; two goroutines that must end each other; a check for
a row and an insert that are not atomic; stale copies of a track; redelivery
after crashes; failed calls that did their work; events of two topics in no
order; pages of a table that grows; a websocket that is open before it is served;
answers put together from several reads; links that expire meanwhile. `PROJECT.json` lists these as hazards, each at its line, with the
properties that would catch it.

What makes each part correct:

- **Hub.** No channel is used after it is closed. The rooms hold exactly the live
  clients. Clients that disconnect, or are evicted, are cleaned up, goroutines
  included. A broadcaster is freed. A peer sees its booking's messages in order,
  each once, with no gap, until it is dropped.
- **Tracking.** A booking has one track, and it is announced once. It is
  completed once and for good, if its delivery is confirmed. A runner has one
  active trip. What viewers see is the stored route in its order. The distance is
  that of the route.
- **Chat.** A message that was shown or acknowledged is stored. A message has no
  earlier `created_at` than what could be read when it was sent, and comes, on
  every websocket, after what was answered by then. A walk through the pages
  reads each message once, and with the websocket leaves no gap.
- **Reading and sharing.** An answer is no older than its request, and its parts
  fit each other. A link works until its last moment, and for nobody after it.

## 2. Modules

| Module | What it is |
|---|---|
| `Hub` | the hub, the handler that creates clients, both pumps; its safety and liveness properties |
| `HubFeed` | `Hub` with a memory of what was said and heard, for properties of delivery |
| `RoomFeed` | abstract: what a client that watches a booking is promised |
| `HubProofs` | TLAPS proofs about `Hub` |
| `HubFeedProofs` | TLAPS proofs about `HubFeed`, and that it implements `RoomFeed` |
| `SequenceLemmas` | TLAPS proofs of what `Append`, `Tail`, `SubSeq` and `\o` do to a stretch of a stream |
| `Tracking` | the three event handlers, both consumers, the repository and the database |
| `TrackingInvariants` | the inductive invariants of `Tracking` |
| `TripLifecycle` | abstract: the life of a booking's trip and its announcements |
| `SharedTrips` | abstract: what is left of `TripLifecycle` when several processes share the tables |
| `TrackingProofs` | TLAPS proofs of the invariant of topics, handlers and tables |
| `TrackingSafetyProofs` | TLAPS proofs of what holds for any number of processes, and that `Tracking` implements `SharedTrips` |
| `TrackingOneProofs` | TLAPS proofs of what needs order or a single process, and that `Tracking` implements `TripLifecycle` |
| `TripViews` | the readers of a trip, and share links, on top of the steps of `TripLifecycle` they can see |
| `TripViewsProofs` | TLAPS proofs about `TripViews` |
| `Chat` | the chat of a booking, with a client that reads its history and its websocket |
| `ChatProofs` | TLAPS proofs about `Chat` |
| `MCHub`, `MCHubFeed`, `MCTracking`, `MCTripViews`, `MCChat` | constants and symmetry for TLC |

`HubFeed` extends `Hub` and instantiates `RoomFeed`. `Tracking` instantiates
`TripLifecycle` and `SharedTrips`, which extends the former. `TripViews` extends
`TripLifecycle` as well: its trips move by `TripNext`, which `Tracking` is shown to
implement, and that is all that the readers need to know of it. `Chat` keeps of
the hub what `RoomFeed` promises. The definitions called *Mutant* are not part of the
specifications. Each is a plausible mistake in the definition below
it, kept to show that a property would notice.

### Hub

One step is what a goroutine does between two operations another one can see.

| Code | Model |
|---|---|
| `Hub.rooms` | `rooms`, a function on the bookings that have a room |
| `Hub.broadcast`, `Hub.chatBcast` | `channel[kind]`, at most `BcastCap` messages |
| `Hub.register`, `Hub.unregister` (unbuffered) | `handler[c] = "registering"`, `reader[c] = "unregistering"`: the sender waits, and one step of the loop serves it |
| the `range` loop of `broadcastToRoom` | `outgoing` (the message), `todo` (the clients not yet visited); `HubSend` or `HubEvict` for each |
| `Client.Send` and `close` | `send[c]`, `closed[c]`; using a closed channel sets `panicked` |
| `Client.Conn` | `conn[c]`: `none`, `open`, `gone` (the peer left), `closed` |
| `ReadPump` | `reader[c]`: `reading`, `unregistering`, `closing`, `done` |
| `WritePump` | `writer[c]`: `select`, `sample` (before `len(c.Send)`), `drain`, `exit`, `done`; `frame[c]` is the WebSocket message being written, `drain[c]` what the loop has still to add |

The mutex is not a variable: only the event loop ever takes it, so it never
waits. A read fails whenever the environment likes (`ReadFails`): the peer left,
the deadline of `pongWait` passed, a message was too long. A failed
`json.Marshal` is left out: the two structs hold UUIDs, strings, times and
numbers that were parsed from JSON, which always can be written again. The
content of a message is a model value.

### HubFeed and RoomFeed

`HubFeed` numbers the messages and records, without ever deciding a step by it,
the order in which the hub took them (`feed`), where in that order a client
joined (`joined`), and what its flushed frames gave to the peer (`got`). Under
`room`, `from` = `joined`, `view` = `got`, it implements `RoomFeed`, whose whole
promise is that a view is a stretch of the feed that starts where the client
joined and only grows.

### Tracking

Every call of the database, the hub or the producer is a step; between two of
them other workers, other processes and crashes may come. A worker is a process
and a topic.

| Code | Model |
|---|---|
| table `trip_tracks`, `UNIQUE(booking_id)` | `tracks`, a set of rows; `Conflict` |
| table `waypoints` | `waypoints[id]`, points in insertion order |
| the local variable `track` of a handler | `track[w]`, a copy that may be stale |
| `HandleBookingAccepted` | `AcceptedFind`, `AcceptedSave`, `AcceptedPublish` |
| `HandleRunnerLocationUpdate` | `LocationFind`, `LocationAdd`, `LocationBroadcast`, `LocationPublish` |
| `HandleDeliveryConfirmed` | `ConfirmedFind`, `ConfirmedMeasure`, `ConfirmedUpdate`, `ConfirmedPublish` |
| `handleMessage`'s other branches | `Ignore` |
| `Complete` and its error | `TryComplete`, `Complete` |
| the consumer of lib-common, Kafka | `Take`, `Return`, `topic`, `PartitionOf` |
| a process dies and is restarted | `Crash` |
| each process's hub | `shown[i]`, what process `i` gave its hub to send |

A call may fail, with or without having done its work; `MaxFaults` bounds the
failures and crashes. Errors the code drops are dropped (`AcceptedFind`,
`LocationFind`, `ConfirmedMeasure`, the publishing steps).

Three things are external, and modelled from how the code uses them:

- *Kafka and the consumer of lib-common* (its source is not in the repository).
  An event is delivered until it is committed. After a failed handler the
  consumer may deliver it again, skip it, or stop (`OnFailure` says which a run
  allows). An event is in the partition that the constant `PartitionOf` names, and
  is taken only when those ahead of it in its partition are committed. Retrying
  means that the partition is read again from the failed event while the other
  partitions go on; an event that fails for ever holds up what is behind it.
  `SendUnknown` publishes events that are ignored or cannot be parsed.
- *gorm 1.31*, the version of `go.mod`. `Update` calls `Save` under
  `WHERE id = ? AND version = ?` with the version less one. Nothing in the
  repository calls `IncrementVersion`, so the `UPDATE` matches no row; gorm's
  `Save` then inserts the record with `ON CONFLICT` on the primary key, which
  overwrites the row. `Matches` is the code's condition and `Writes` is what
  happens. Without that fallback no trip would ever complete: it is the mutant
  `MatchedOnly`.
- *The other services.* They accept a runner's next booking after the one before
  it was confirmed, and confirm after accepting. They number locations.

Of a waypoint the model keeps the moment it was recorded. A distance is the set of
points it was computed from, and the empty set for fewer than two points, for
which `calculateTotalDistance` returns 0 (`Distances`, in `TripLifecycle` as well:
no distance is measured on a single point). Points stored twice one after the other
add nothing to a distance, so a set is enough for what the properties compare.
An `"overflow"` location is one whose speed `NewWaypoint` accepts and
`DECIMAL(6,2)` does not.

### TripViews

A request is a goroutine of the HTTP server, and `request[r]` is what it knows:
where it is, what was asked, the link, the copy of the track, the answer. `began`
is what there was to see when it came; no step but the mutant looks at it again.

| Code | Model |
|---|---|
| table `shared_trips` | `links`, a set of rows |
| `time.Now()` | `now`, which `Tick` moves between any two steps |
| `CreateShareLink` | `NewSharedTrip`, `SaveLink` |
| `GetSharedTracking` | `FindByToken`, `CheckExpiry`, `FindTrack`, `LoadPoints` |
| `GetTracking` | `FindTrack`, `LoadPoints` |
| `GetRouteGeoJSON`, `GetRouteAsGeoJSON` | `FindTrack`, `MakeLine` (PostGIS), `LoadPoints` (without it) |
| the event handlers meanwhile | `TripStep` |

Every query may fail, as often as it likes. `FindTrack` answers "not found"
whatever its error was, as the code does. Points are a set: every query orders
them by `recorded_at`. `TripStep` is `TripNext` of `TripLifecycle`: a trip starts,
gathers points and is completed, and may be completed again (`Recomplete`), when
the second of two handlers of a confirmation overwrites the distance (see
`tracking_race`). That the tracks of any number of processes do no more that a
reader could see is the theorem `ReadersSeeTrips`. Two things are assumed. The clock does not go back, and is one clock
for all processes: the code compares the time of one process with a time another
one may have written. And 16 random bytes are never drawn twice (`Used`); the
`UNIQUE` of the column turns a repetition into an error anyhow.

### Chat

A message is named by the request that sends it.

| Code | Model |
|---|---|
| table `chat_messages` | `stored`, with `time` as `created_at` |
| `SendMessage` | `NewChatMessage` (takes `created_at`), `Save`, `BroadcastChat` |
| `Hub.chatBcast`, `Run`, the pumps | `queue`, `Deliver`, `seen` |
| `HandleWebSocket` | `Open` (the upgrade), `Register` (the loop took the registration) |
| `parseChatPagination` | `PageFor`, `LimitFor` |
| `offset := (page - 1) * limit` | `Offset`, with the range of an int scaled down |
| `FindByBookingID` | `Count`, then `Find`: any order that `created_at` allows, then `Rows` |
| a process dies | `Crash` |

The client is external: it walks from a page to the last one that the total
promises, and asks again when a request fails. Gorm leaves out an `OFFSET` that
is not positive (`Rows`). There is one client and one hub: a message sent through
another process is only in the history, as a location is (`main.go:86`).

## 3. Runs

| Run | Instance | Question | Result |
|---|---|---|---|
| `hub` | 2 clients, 1 booking, both capacities 1 | are rooms, channels and counts right in every interleaving? | holds |
| `hub_live` | 1 client, 2 bookings, `SendCap` 2 | is everybody cleaned up, and every broadcaster freed? | holds |
| `hub_feed` | 1 client, 5 messages, fair | is what a peer sees the promised stretch of the feed, how far behind can it be, and does it catch up? | holds |
| `hub_feed_rooms` | 2 clients, 2 bookings, 2 messages, `BcastCap` 2 | do rooms and clients stay independent, and is the order kept? | holds |
| `hub_frames` | 1 client | one message per WebSocket message? | **violated** |
| `tracking_one` | 1 process, 2 bookings, 2 points, invalid locations, 1 partition, 2 faults; retry or stop | do the tracks implement `TripLifecycle`; are routes and views right? | holds |
| `tracking_two` | 2 processes, 1 booking, 2 points, 2 partitions, refused locations; skip or stop | do two processes with the same event keep one track, and do they implement `SharedTrips`? | holds |
| `tracking_live` | 1 process, 1 booking, 2 points, 2 partitions, an event that is malformed or ignored, refused locations, 1 fault; retry; fair | is every confirmed trip completed, and does the consumer get past every location, if nothing holds them up for ever? | holds |
| `trip_views` | 2 requests, 1 booking, 2 points, 1 token, links of 1 tick, 3 moments | are answers as new as their requests, in their parts too, and do links work exactly until they expire? | holds |
| `chat` | 3 messages, 2 moments, 1 client, pages of 1 or 2, ints up to 7 | do messages follow what was there before them, are pages exact, is there a gap between history and websocket? | holds |
| `tracking_distance` | 1 process, no fault | is the distance that of the route? | **violated** |
| `tracking_race` | 2 processes, no fault | is a completed record final? | **violated** |

What the properties say:

- `NoPanic`, `RoomsExact`, `FanOutFresh`, `DrainCovered`, `UnregisteredIsClosed`,
  `ClosedIsFinal`: see the comments in `Hub`. `HubInv` is their conjunction with
  the facts that make it inductive.
- `CleanupOnDisconnect`, `EvictedIsDisconnected`, `BroadcastersFreed`: liveness of
  the hub, with broadcasters that never stop.
- `Contiguous`, `NothingMissed`, `BoundedLag`, `InOrderPerKind`, `RoomFeedSpec`,
  `Delivered`: delivery. `BoundedLag` is tight: with `2 * SendCap + 1` TLC finds a
  counterexample. Nothing is promised between the two kinds of message, and
  nothing holds.
- `StartedOnce`, `OneActivePerRunner`, `LateBounded`, `CopiesNeedFaults`,
  `ShownIsStored`, `ShownInOrder`, `LifecycleSpec`, `SharedSpec`, `FinalRecord`,
  `ConfirmedCompletes`, `LocationsPass`: the trips. `ShownIsStored` counts over all processes' hubs
  together. `FinalRecord`, that no row of a completed trip is ever changed, does not
  hold of two processes (`tracking_race`); of one it is proved, and `tracking_one`
  checks `LifecycleSpec`, which does not allow a second completion. `SharedSpec` is
  what two processes keep of it: the trip goes only forwards, it is announced to
  have started once, its distance is one measured on points it had gathered, and
  its completion is told no more often than there are processes.
- The two liveness properties make exceptions for what is *held up* for ever: an
  event ahead of it in its partition is refused, which the handler does to an
  event that cannot be parsed, to a confirmation without a track, and to a
  location whose speed does not fit, as long as its runner has an active trip
  (`Refused`, `HeldUp`). `ConfirmedCompletes` says that a confirmed trip is
  completed, sooner or later and for good, unless one of its two events is held
  up for ever. `LocationsPass` says that the consumer gets past a location, the
  one that does not fit included, unless it is refused or held up for ever: once
  the trip is completed, nothing there is. Without the exception for either kind
  of event TLC finds a counterexample.
- `AnswersFresh`, `DistanceCovered`, `LinkHonoured`, `ExpiredShowsNothing`: the
  readers. `GetTracking` when it lost its points is left out of the first two: it
  answers without points and does not say so.
- `RepliesFollow`, `PagesExact`, `NoBlindSpot`, `PastTheEndIsEmpty`, and Chat's own
  `ShownIsStored`: the chat. `RepliesFollow` has two parts, because they hold of
  different messages. Of what is in the history, nothing has a later `created_at`
  than a message that is sent now. On a websocket a message comes after those
  that were *answered* when it was sent; a sender may have read one from the
  history that is stored and not broadcast yet, and what it sends then can be
  broadcast first (section 6). `PagesExact` makes an exception for a *disturbed*
  message: another one has the same `created_at`, or one of an earlier
  `created_at` is stored only after the walk began. Without either half of the
  exception TLC finds a message on two pages or on none. `NoBlindSpot` starts
  where the hub has taken the registration; a walk that starts when the
  websocket is merely open can miss a message for good, and the client cannot
  tell.
- `HubInv`, `FeedInv`, `TripsInv`, `OneProcessInv`, `ViewInv`, `ChatInv`: the
  inductive invariants of the proofs. They are checked so that the proofs rest on
  formulas TLC has agreed to. The type invariant of each module (`TypeOK`,
  `FeedTypeOK`, `ViewTypeOK`) is a conjunct of its own one (of `Tracking` it is in
  `OneProcessInv`), and is checked there. `TrackSafe` is proved only: of its parts
  `OneProcessInv` has the first, and the others are the properties of
  `tracking_two` and `ShownInOrder` with what makes them inductive.

Why the bounds are enough:

- *Capacities of 1 or 2* make full queues, evictions and blocked broadcasters a
  matter of two or three messages, where the code needs 257. Nothing in the hub
  depends on a capacity but the comparison with it, and the proofs are for every
  capacity.
- *Two clients* are what a range loop needs to go on after an eviction, and *two
  bookings* what it needs to go to the wrong room. The safety of the hub is
  proved for any number of both.
- *Five messages* let one client fall behind as far as it can: one each in the
  queue, the frame, the drained part and the range loop, and one more.
- *Two trips of one runner* are the smallest case in which `FindActiveByRunnerID`
  can pick a wrong track. *Two processes* are the smallest in which a stale copy
  exists of each kind. Two points are the fewest that have a distance.
- *Two requests* of readers: one creates the link that the other one uses, or two
  see one trip. They meet only in the table of links; the proofs are for any
  number. *Three moments* are before, at and after the last one of a link.
- *Three messages* with a page of one make three pages, and one message can be
  stored before, between and after them. *Ints up to 7* overflow on the last page
  an int can name, when pages have two messages.
- *Faults*: one is enough to deliver an event twice; two, to fail on a redelivery.
  `tracking_two` has none: what fails there is a location the database refuses, and
  two processes handle an event twice without one. With two points, and so with
  distances that differ, a fault more would take it out of reach; the theorems
  about what it checks are for any number of faults.

`hub`, `hub_live` and `hub_frames` check for deadlock. The other runs have a
bounded number of messages or events, after which the service rightly waits:
they set `CHECK_DEADLOCK FALSE`. Symmetry is used in safety runs only: of
clients, payloads or requests that are alike, of points where they are not
ordered (`trip_views`), of messages (`chat`).

`OneActivePerRunner` needs the events of a runner's bookings in one partition, and
consumers that never skip an event. With two partitions, or with `"skip"`, a
runner's next trip may start before the last one is completed; its locations then
go to the track with the smaller random id. That is why only `tracking_one`
claims it.

`PartitionOf` is a fixed function in a run: all events in one partition
(`InOrder`); accepted events in one and confirmed ones in the other, locations in
turns (`InTurns`); the same with all locations in one (`ByRunner`). The code
does not choose the keys, the publishers do, and nothing in the repository says
which they use: so `tracking_two` and `tracking_live` take the case that is worst
for the handlers, in which a confirmation can come before its acceptance, while a
location that holds up the others, in `tracking_live`, is in their partition.

## 4. Fairness

- *Go's `select`* chooses uniformly among ready cases, so a case that is ready
  again and again is taken: strong fairness for the four cases of `Run`
  (`HubTake` for each kind, `HubRegister` and `HubUnregister` for each client).
  With weak fairness a loop that always finds another message would be allowed
  to starve a client that unregisters.
- *A goroutine that can run does*: weak fairness for the range loop,
  `StartPumps`, `ReadClose`, and `WritePump`'s steps as a whole.
- *A read fails* for certain only if the connection is not open, at the latest
  when `pongWait` is over: weak fairness for `conn[c] # "open" /\ ReadFails(c)`.
- `Delivered` needs less: of these, only the two broadcast cases of `Run`, the range
  loop, `StartPumps` and `WritePump` (`Delivery` in `HubFeed`).
- Peers, broadcasters and failing pings owe nothing.
- *A worker* goes on with its handler: weak fairness for `Handle`. A consumer
  polls all its partitions: one that again and again has an event to take is
  served, although the worker is busy with another one in between, strong
  fairness for `Poll` of each partition. With weak fairness a partition whose
  first event fails for ever could starve the others. Which event of a partition
  is taken is not a choice. Publishers owe nothing, and nothing crashes for ever,
  because `MaxFaults` is finite.

## 5. Proofs

### The hub

`HubProofs` proves, with TLAPS, for any sets of clients, bookings and payloads
and any capacities:

| Theorem | Statement |
|---|---|
| `HubInvariant` | `Spec => []HubInv` |
| `TypeCorrect` | `Spec => []TypeOK` |
| `NeverPanics` | `Spec => []NoPanic` |
| `RoomsAreExact` | `Spec => []RoomsExact` |
| `FanOutIsFresh` | `Spec => []FanOutFresh` |
| `DrainIsCovered` | `Spec => []DrainCovered` |
| `UnregisterCloses` | `Spec => []UnregisteredIsClosed` |
| `ClosingIsFinal` | `Spec => ClosedIsFinal` |

The assumptions are those of `Hub`: capacities are natural numbers, and `None` is
neither a booking nor a message.

The argument. `NoPanic` is not inductive: to evict a client safely the loop must
know that its channel is open. `RoomsExact` says so of the members of rooms, and
`FanOutFresh` says that the clients still to be visited are members, although
the loop goes on over a map that was looked up before. `RoomsExact` in turn
needs to know that a client that registers was never closed (`ClosedWasOpened`)
and that it has its booking by then (`BookingSet`). `UnregisteredIsClosed` needs
`PumpsServe`: who unregisters was registered, so either it is in its room and is
closed now, or it was evicted. `DrainCovered` needs `DrainIdle`: only one drain
loop at a time takes from a queue, and everybody else only adds to it.

The lemmas follow this: `DropRoom` is what `delete` does to a room, shared by
eviction and unregistration; `TypeStep`, `RoomsStep`, `DrainStep` and `PumpsStep`
each show that every action keeps its part of `HubInv`; `ClosedStep` is the step
behind `ClosingIsFinal`.

### Delivery

`HubFeedProofs` proves, for any sets of clients and bookings, any capacities and
any number of messages:

| Theorem | Statement |
|---|---|
| `FeedInvariant` | `FeedSpec => []FeedInv` |
| `FeedIsHub` | `FeedSpec => Spec`: the memory decides no step |
| `HandedIsContiguous` | `FeedSpec => []Contiguous` |
| `NothingIsMissed` | `FeedSpec => []NothingMissed` |
| `KindsKeepOrder` | `FeedSpec => []InOrderPerKind` |
| `LagIsBounded` | `FeedSpec => []BoundedLag` |
| `HubImplementsRoomFeed` | `FeedSpec => RoomFeedSpec` |

The assumption added is that the messages are numbered up to `MaxSaid`, some
natural number.

The argument. What a client was handed lies in three places, `got`, `frame` and
`send`, and each step moves a message from one to the next or adds one at the
end. That the one added is the next of the feed is the heart of it: the range
loop sends the last message of the feed (`LoopSendsLast`), to a client that still
lacks just that one, as `NothingMissed` says. `Contiguous` and `NothingMissed`
are therefore proved together, on top of `HubInv`: without `RoomsExact` a message
could go to a client of another booking, or miss one. A client starts with
nothing (`NothingEarly`). `InOrderPerKind` needs that what waits in a channel is
younger than what the feeds hold of that kind (`ChannelsInOrder`). The bound of
`BoundedLag` adds up the three places; that a frame holds no more than a queue and
one message is `FrameBounded`, which holds because `WritePump` samples
`len(c.Send)` before it drains. The refinement then goes step by step:
`TakePublishes`, `JoinJoins`, `FlushShows`, `OtherStutters`.

### The trips

Three modules, from what needs no hypothesis to what does. The assumptions of
`Tracking` are that processes are finitely many, each booking has a runner, the
bounds are natural numbers and each event has one of the partitions, that events
and policies are of the known kinds, and that `None` is neither an event nor a
track.

| Theorem | Hypothesis | Statement |
|---|---|---|
| `TrackInvariant` | | `Spec => []TrackInv` |
| `TrackTypes` | | `Spec => []TypeOK` |
| `TripsStartOnce` | | `Spec => []StartedOnce` |
| `LateWaypointsAreFew` | | `Spec => []LateBounded` |
| `ViewersSeeTheRoute` | | `Spec => []ShownInOrder` |
| `PointsShownAreStored` | | `Spec => []ShownIsStored` |
| `TracksAreSafe` | | `Spec => []TrackSafe` |
| `TracksImplementSharedTrips` | | `Spec => SharedSpec` |
| `ReadersSeeTrips` | | `Spec => Shared!TripSpec` |
| `TripsInvariant` | in order, no skip | `Spec => []TripsInv` |
| `RunnersHaveOneTrip` | in order, no skip | `Spec => []OneActivePerRunner` |
| `CopiesAreFaults` | one process | `Spec => []CopiesNeedFaults` |
| `OneProcessIsSafe` | one process | `Spec => []OneProcessInv` |
| `CompletionIsFinal` | one process | `Spec => FinalRecord` |
| `TracksImplementLifecycle` | one process | `Spec => LifecycleSpec` |

*In order, no skip* is `Partitions = 1` and `"skip" \notin OnFailure`; *one
process* is `Processes = {p}`. Where no hypothesis is given, processes may be any
number, events may be in any partitions, and the consumer may retry, skip or stop;
these proofs do not use in which order a topic is read. The hypotheses are needed. `tracking_race` is the
counterexample of two processes to `FinalRecord`, hence to the refinement. A
location that both of two processes consume is stored twice without a fault. And
see the end of section 3 for `OneActivePerRunner`.

The argument. `TrackInv` says what a handler may rely on after the database
answered: its event is one that was sent and is handled by the step it is at
(`StepsFit`), its copy of the track, however stale, names a row that exists
(`CopiesFit`), and rows keep their identity and are unique by booking
(`TracksFit`). Everything else is proved on top of it.

- `StartedOnce`: whoever is to announce a start is the only one who inserted the
  row, because of the `UNIQUE` column (`StartInv`).
- `LateBounded`: when a trip is completed, each process has at most one handler
  that found it active and has its waypoint still to store. `LateInv` counts these
  (`Adders`) together with the waypoints that came late.
- `ShownInOrder`, `ShownIsStored`: a point that is stored, and not yet shown, is
  counted with those that are (`OrderInv`, `ShowInv`), so that showing it changes
  nothing.
- `OneActivePerRunner`: a committed event is settled, and an event is only taken
  when the ones before it are committed. The next booking of a runner is accepted
  after the confirmation of the one before, in the same topic, so when its track
  is inserted the other one is completed (`TripsInv`).
- `CopiesNeedFaults`: of one process, a location whose point is stored waits to be
  handled again only after a fault. `CopiesInv` counts these (`Again`) with the
  copies.
- `TracksImplementSharedTrips`: each step maps to one of `SharedTrips` or to a
  stutter: `InsertStarts`, `AddGathers`, `UpdateCompletes` (to `Complete` if the row
  is still active, to `Recomplete` if another process was first), `StartsAnnounces`,
  `FinishesOwn`, `NothingSeen`. Two facts need an invariant of their own. A row
  that is no longer active never is again (`ClosedStays`), since every copy that is
  written back was completed by its handler. And a completion is told no more often
  than there are processes: of a completed trip, the completions told and the
  processes that have found it active and not told of it yet (`Tellers`) are
  together no more than all processes (`ToldInv`). That is kept because a handler that finds the trip
  completed does not join them (`TellersShrink`), and one that tells leaves them.
- `ReadersSeeTrips` follows: an announcement leaves the tables alone.
- The refinement of `TripLifecycle` and `FinalRecord`: while a handler of the one
  process is between `ConfirmedFind` and `ConfirmedUpdate` the row stays active,
  because nobody else completes it, and the completion was not told
  (`CompletionInv`). So `UpdateCompletes` gives `Complete`, never `Recomplete`, and
  the completion told is the first and that of the row (`FinishesAnnounces`). The
  other steps map as above.

### The chat

`ChatProofs` proves, for any finite set of messages, any clock, and any pages and
limits asked for:

| Theorem | Statement |
|---|---|
| `ChatInvariant` | `Spec => []ChatInv` |
| `ChatTyped` | `Spec => []TypeOK` |
| `AnsweredIsStored` | `Spec => []ShownIsStored` |
| `RepliesComeBehind` | `Spec => []RepliesFollow` |
| `PagesEnd` | `Spec => []PastTheEndIsEmpty` |
| `PagesAreExact` | `Spec => []PagesExact` |
| `NoMessageIsMissed` | `Spec => []NoBlindSpot` |

The assumptions are those of `Chat`: the default limit is from 1 up to the maximal
one, which is an int; what a query asks for is an int; and the messages of a
booking are no more than the largest int, since the table is counted in one.

The argument. A message reaches the hub after it was saved and with its answer, so
all that a hub or a client has is answered, and what is answered is stored. A
message takes its `created_at` from the clock, so nothing stored is later than
now. What was answered when it was sent has no later `created_at` (`HeardFit`), and
is already in the line of the client, or will never be (`OrderFit`); a crash drops what is queued, and
the order of the rest stays (`DropFromMiddle`). For the pages: the product of
page and limit is an int up to the last page that `PastTheEndIsEmpty` speaks of,
so `Wrap` changes nothing (`WrapSmall`), and the rows after the offset are none
(`RowsPastTheEnd`); that the table only grows is what makes the property one of
the page when it was read: the rows it may miss were stored later.

For the walk through the pages: whatever order the database gives rows of equal
`created_at`, a message that no other row disturbs has one place in the sorted
result, behind the messages of an earlier time (`Place`, `ResultPlaces`); what is
stored later comes behind it, or disturbs it (`PlacesStay`). A page has the message
exactly if that place is in the page's stretch of the result (`RowsAt`), which is
kept for every page read so far (`PlacesFit`). The pages of a walk are consecutive
stretches of one length and do not end before the messages that were there when it
began (`WalkFit`), so exactly one of them has the place (`PageOf`, `PageOnce`). No
induction over the number of pages is needed. `NoBlindSpot` then needs that what was
answered and was not there when the walk began is in the client's line: it was given
to the hub after the hub took the registration (`ServedFit`).

### The readers

`TripViewsProofs` proves, for any sets of bookings, points, tokens and requests
and any lifetime of links:

| Theorem | Statement |
|---|---|
| `ViewsSafe` | `ViewSpec => []ViewInv` |
| `ViewsTyped` | `ViewSpec => []ViewTypeOK` |
| `NoStaleAnswers` | `ViewSpec => []AnswersFresh` |
| `DistanceOnShownPoints` | `ViewSpec => []DistanceCovered` |
| `LinksHonoured` | `ViewSpec => []LinkHonoured` |
| `ExpiredLinksShut` | `ViewSpec => []ExpiredShowsNothing` |

The assumptions are those of `TripViews`: the lifetime and the end of the clock are
natural numbers, and `None` is neither a link nor a call.

The argument. That an answer covers its distance rests on the trip, whose distance
never leaves its route (`TripOK`), and on the copy, which was true when it was
read and can only fall behind (`CopyOK`), since routes only grow
(`TripStepForwards`). That an answer is fresh rests on `BeganOK`: what a request
found when it came has not been taken back. A link shows nothing after its end
because who passed the check had a row that had not expired when the request came
(`LinkOK`). That a good link is never refused needs more. What `FindByToken` finds
must be the very link its owner was given, so no two rows share a token
(`TokensDiffer`), and it must be in the table by then, so owners are told after
it was saved (`CreateOK`).

The lemmas follow this. `OneMoves` reduces a step to one request, and `Asked`,
`Created`, `Found`, `Tracked`, `Stepped` and `Answering` say what a step does to
it; one lemma for each part of `ViewInv` shows that its step keeps that part, and
the lemmas ending in `Stays` do so for a request that does not move.

### Only model-checked

- The liveness properties: `CleanupOnDisconnect`, `EvictedIsDisconnected`,
  `BroadcastersFreed`, `Delivered`, `ConfirmedCompletes`, `LocationsPass`. Their
  proofs need fairness and `ENABLED`, which the proof system cannot treat.
- That `Tracking` and `TripViews` fit together is proved of the tables
  (`ReadersSeeTrips`), not of one specification that has both: the trips that
  `TripViews` puts under its readers move by the very steps that `Tracking`'s do.

## 6. Findings

- **A completed trip can be completed again** (`tracking_race`). The version that
  `trip_track.go` keeps "for optimistic locking" is never incremented, so the
  `WHERE` of `Update` matches nothing and gorm's `Save` falls back to an upsert.
  Two processes that handle the same confirmed event, as after a rebalance, both
  succeed, and the second overwrites the distance and time of the first.
- **The stored distance is not that of the route** (`tracking_distance`).
  `HandleDeliveryConfirmed` reads the waypoints and then updates the track. A
  location handler that had found the trip active stores its waypoint after that.
  At most one such waypoint for each process: `LateBounded`.
- **Several messages in one WebSocket message** (`hub_frames`). `WritePump` joins
  what is queued by newlines. The README shows a client one JSON object, and a
  client that parses each WebSocket message as one fails only under load.

Also seen, without a run of their own, because no document promises otherwise: a
crash or a failed `PublishEvent` loses a `TrackingStarted` or
`TrackingCompleted` event for good, since on redelivery the handler finds its work
done; a database error while the active track is looked up loses the location;
an event that cannot be parsed holds up its partition for ever if the consumer
retries, and a location whose speed does not fit its column holds it up until the
trip is completed; a message sent by somebody who read another one from the
history between its `Save` and its `BroadcastChat` may be broadcast before it;
`GetTracking` answers without points when they cannot be read; the broadcast
location has the event's speed and heading, the stored one those `NewWaypoint`
corrected; a page whose offset overflows shows the first rows, or some others; a
websocket is open before the hub knows of it; the index of `shared_trips` is for
"expiry sweeps", and nothing sweeps.

## 7. What is not modelled

- Haversine and rounding: floating point is beyond both tools. A distance is the
  set of points it was computed from.
- JSON, the WebSocket wire format, JWT checks, routing, configuration, health
  checks, migrations: input and output, or libraries. What the migrations demand
  of the data (`UNIQUE`, column widths) is in `Tracking` and `TripViews`.
- The graceful shutdown of `main.go` as such. It cancels the consumers' context,
  so running calls fail, and then ends the process: for them that is calls that
  fail, and a `Crash`. It lets HTTP requests finish, which needs no step of its
  own. `Crash` is the death of a process, as when it is killed.
- Clients of several processes: `Tracking` keeps what each process's hub was given
  to send, `Chat` has one hub. A client sees only what the process it is connected
  to consumes or is sent; the code promises no more.
- The order of a route in `TripViews`, and rows of equal `recorded_at`: all three
  queries ask for the same order, so nothing the properties say depends on it.
- A restart of the hub: rooms are in memory and connections end with the
  process, so it starts again at `Init`.
- Cancelled trips: `Cancel` exists and nothing in the service calls it. Nor is
  `FindByBookingID` of links called.
- Clocks that disagree or go back.

## 8. Plan

Done: `Hub` with its safety and liveness; `HubProofs`; `HubFeed` and `RoomFeed`;
`Tracking` and `TripLifecycle`; `TripViews` and `TripViewsProofs`; `Chat`; the proofs
of `HubFeed`, of `Tracking` with its refinement of `TripLifecycle` and, for several
processes, of `SharedTrips`, and of `Chat` with its walk through the pages.

All safety invariants, action properties and refinements that the passing runs
check are proved, for every value of the constants.

What is left is a composition of `Tracking` and `HubFeed`, where a full hub channel
holds up a Kafka worker and what a peer is shown is a stretch of the stored route;
today the one ends at `shown`, what a process gave its hub, and the other begins
at `Say`.
