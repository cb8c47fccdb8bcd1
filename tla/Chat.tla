-------------------------------- MODULE Chat --------------------------------
(***************************************************************************)
(* The chat of one booking: SendMessage and GetMessages of                  *)
(* application/chat_service.go, repository/chat_repository.go,              *)
(* domain/chat and the page parameters of handler/chat_handler.go, with a   *)
(* client that opens a websocket and reads the history page by page.       *)
(*                                                                         *)
(* A message is named by the request that sends it.  Each call of the       *)
(* database or the hub is a step.  Of the hub this module keeps what        *)
(* HubFeed was shown to implement, RoomFeed: it takes messages in their     *)
(* order, and a client that it serves is given each one from its            *)
(* registration on.  Integers have a word's range, scaled down.            *)
(***************************************************************************)
EXTENDS Integers, SequencesExt

CONSTANTS
  Senders,                 \* bound: the messages that are sent
  MaxTime,                 \* bound: where the clock stops
  MaxInt,                  \* the largest int
  AskedPages, AskedLimits, \* what strconv.Atoi makes of a query
  DefaultLimit, MaxLimit   \* 50 and 100 in the code

ASSUME BoundAssumption == MaxTime \in Nat /\ MaxInt \in Nat
\* The messages of a booking are counted in an int64.
ASSUME SendersAssumption == IsFiniteSet(Senders) /\ Cardinality(Senders) <= MaxInt
ASSUME LimitAssumption ==
  /\ DefaultLimit \in Nat /\ MaxLimit \in Nat
  /\ 1 <= DefaultLimit /\ DefaultLimit <= MaxLimit /\ MaxLimit <= MaxInt
ASSUME AskedAssumption == AskedPages \cup AskedLimits \subseteq (-MaxInt - 1)..MaxInt

VARIABLES
  now,     \* the clock
  at,      \* where a sender's request is
  time,    \* created_at of its message
  heard,   \* the messages that were answered when it was sent
  stored,  \* the table chat_messages, a set of messages
  queue,   \* the hub's channel of chat messages
  conn,    \* the client's websocket
  seen,    \* the messages it was given, in order
  reader   \* the client's walk through the history

vars == <<now, at, time, heard, stored, queue, conn, seen, reader>>

Init ==
  /\ now    = 0
  /\ at     = [s \in Senders |-> "idle"]
  /\ time   = [s \in Senders |-> 0]
  /\ heard  = [s \in Senders |-> {}]
  /\ stored = {}
  /\ queue  = <<>>
  /\ conn   = "none"
  /\ seen   = <<>>
  /\ reader = [at |-> "idle", page |-> 1, limit |-> 1, total |-> 0, pages |-> <<>>,
               before |-> {}, served |-> FALSE]

Tick ==
  /\ now < MaxTime
  /\ now' = now + 1
  /\ UNCHANGED <<at, time, heard, stored, queue, conn, seen, reader>>

-----------------------------------------------------------------------------
(* SendMessage.                                                            *)

Goes(s, step) == at' = [at EXCEPT ![s] = step]
Answered      == {s \in Senders : at[s] = "answered"}

\* NewChatMessage refuses an unknown type and empty content.
NewChatMessage(s) ==
  /\ at[s] = "idle"
  /\ \/ /\ Goes(s, "save")
        /\ time'  = [time EXCEPT ![s] = now]
        /\ heard' = [heard EXCEPT ![s] = Answered]
     \/ Goes(s, "failed") /\ UNCHANGED <<time, heard>>
  /\ UNCHANGED <<now, stored, queue, conn, seen, reader>>

\* Mutant: an error of Save is logged and dropped.
SaveDropsError(s) ==
  /\ at[s] = "save"
  /\ stored' = stored \cup {s} \/ UNCHANGED stored
  /\ Goes(s, "broadcast")
  /\ UNCHANGED <<now, time, heard, queue, conn, seen, reader>>

\* Save may store the message and fail to say so.
Save(s) ==
  /\ at[s] = "save"
  /\ \/ stored' = stored \cup {s} /\ Goes(s, "broadcast")
     \/ stored' = stored \cup {s} /\ Goes(s, "failed")
     \/ UNCHANGED stored /\ Goes(s, "failed")
  /\ UNCHANGED <<now, time, heard, queue, conn, seen, reader>>

\* Mutants: a message goes out as it can, from a goroutine of its own; and it
\* is dropped when the hub's channel is full.
BroadcastAnywhere(s) ==
  /\ at[s] = "broadcast"
  /\ queue' = <<s>> \o queue
  /\ Goes(s, "answered")
  /\ UNCHANGED <<now, time, heard, stored, conn, seen, reader>>
BroadcastOrDrop(s) ==
  /\ at[s] = "broadcast"
  /\ queue' = IF queue = <<>> THEN <<s>> ELSE queue
  /\ Goes(s, "answered")
  /\ UNCHANGED <<now, time, heard, stored, conn, seen, reader>>

\* hub.BroadcastChat, then the answer.
BroadcastChat(s) ==
  /\ at[s] = "broadcast"
  /\ queue' = Append(queue, s)
  /\ Goes(s, "answered")
  /\ UNCHANGED <<now, time, heard, stored, conn, seen, reader>>

-----------------------------------------------------------------------------
(* The hub and the client's websocket, which is open to the client before   *)
(* the hub has taken its registration.                                     *)

Open ==
  /\ conn = "none"
  /\ conn' = "open"
  /\ UNCHANGED <<now, at, time, heard, stored, queue, seen, reader>>

Register ==
  /\ conn = "open"
  /\ conn' = "served"
  /\ UNCHANGED <<now, at, time, heard, stored, queue, seen, reader>>

Deliver ==
  /\ queue # <<>>
  /\ queue' = Tail(queue)
  /\ seen'  = IF conn = "served" THEN Append(seen, Head(queue)) ELSE seen
  /\ UNCHANGED <<now, at, time, heard, stored, conn, reader>>

\* The process dies with its requests, its hub and its connections.  The client
\* may read on from the next one.
Crash ==
  /\ conn # "lost"
  /\ conn'  = "lost"
  /\ queue' = <<>>
  /\ at'    = [s \in Senders |-> IF at[s] \in {"save", "broadcast"} THEN "failed" ELSE at[s]]
  /\ reader' = [reader EXCEPT !.at = IF @ = "find" THEN "count" ELSE @]
  /\ UNCHANGED <<now, time, heard, stored, seen>>

-----------------------------------------------------------------------------
(* GetMessages.                                                            *)

\* parseChatPagination.
PageFor(page) == IF page < 1 THEN 1 ELSE page

\* Mutant: no upper limit.
LimitUnbounded(limit) == IF limit < 1 THEN DefaultLimit ELSE limit
LimitFor(limit) == IF limit < 1 THEN DefaultLimit
                   ELSE IF limit > MaxLimit THEN MaxLimit ELSE limit

Wrap(n) == ((n + MaxInt + 1) % (2 * (MaxInt + 1))) - (MaxInt + 1)

\* Mutants: pages are counted from 0; the offset is kept in half a word.
OffsetFromZero(page, limit) == page * limit
OffsetHalf(page, limit)     == ((page - 1) * limit) % (MaxInt \div 2)
Offset(page, limit) == Wrap((page - 1) * limit)

\* ORDER BY created_at ASC alone: rows of the same time come in any order.
Sorted(s)  == \A i, j \in 1..Len(s) : i < j => time[s[i]] <= time[s[j]]
Results(S) == {s \in SetToSeqs(S) : Sorted(s)}

\* LIMIT and OFFSET; gorm leaves out an OFFSET that is not positive.
Rows(s, limit, offset) ==
  LET first == IF offset > 0 THEN offset + 1 ELSE 1
      last  == IF first + limit - 1 < Len(s) THEN first + limit - 1 ELSE Len(s)
  IN  SubSeq(s, first, last)

\* The client begins to read.  From page 1 on it asks for every page that the
\* total promises; it may as well begin at any other.
StartWalk(page, limit) ==
  /\ reader.at = "idle"
  /\ reader' = [reader EXCEPT !.at = "count", !.page = PageFor(page), !.limit = LimitFor(limit),
                              !.before = stored, !.served = conn = "served"]
  /\ UNCHANGED <<now, at, time, heard, stored, queue, conn, seen>>

\* The first of FindByBookingID's two queries.
Count ==
  /\ reader.at = "count"
  /\ reader' = [reader EXCEPT !.at = "find", !.total = Cardinality(stored)]
  /\ UNCHANGED <<now, at, time, heard, stored, queue, conn, seen>>

\* The second; if one of them fails the client asks again.
Find ==
  /\ reader.at = "find"
  /\ \/ \E s \in Results(stored) :
          LET rows == Rows(s, reader.limit, Offset(reader.page, reader.limit))
              last == reader.page * reader.limit >= reader.total
          IN  reader' = [reader EXCEPT
                !.at    = IF last THEN "done" ELSE "count",
                !.page  = IF last THEN @ ELSE @ + 1,
                !.pages = Append(@, [page |-> reader.page, rows |-> rows])]
     \/ reader' = [reader EXCEPT !.at = "count"]
  /\ UNCHANGED <<now, at, time, heard, stored, queue, conn, seen>>

-----------------------------------------------------------------------------
Next ==
  \/ \E s \in Senders : NewChatMessage(s) \/ Save(s) \/ BroadcastChat(s)
  \/ Open \/ Register \/ Deliver \/ Crash \/ Tick
  \/ \E page \in AskedPages, limit \in AskedLimits : StartWalk(page, limit)
  \/ Count \/ Find

Spec == Init /\ [][Next]_vars
-----------------------------------------------------------------------------
(* Properties.                                                             *)

\* Every variable has its type.
TypeOK ==
  /\ now    \in 0..MaxTime
  /\ at     \in [Senders -> {"idle", "save", "broadcast", "answered", "failed"}]
  /\ time   \in [Senders -> 0..MaxTime]
  /\ heard  \in [Senders -> SUBSET Senders]
  /\ stored \subseteq Senders
  /\ queue  \in Seq(Senders)
  /\ conn   \in {"none", "open", "served", "lost"}
  /\ seen   \in Seq(Senders)
  /\ reader \in [at : {"idle", "count", "find", "done"}, page : 1..MaxInt,
                 limit : 1..MaxLimit, total : 0..Cardinality(Senders),
                 pages : Seq([page : 1..MaxInt, rows : Seq(Senders)]),
                 before : SUBSET Senders, served : BOOLEAN]

\* chat_service.go, "persists a chat message and broadcasts it": who was told
\* that a message is sent finds it in the table after any crash, and nobody is
\* given one that is not there.
ShownIsStored == Answered \cup Range(queue) \cup Range(seen) \subseteq stored

\* A message may reply to what is in the history when it is sent: nothing there
\* has a later created_at than what is sent now (with the same one, either may
\* come first).  On every websocket a message follows those that were answered
\* when it was sent, but only these: one that its sender read from the history
\* between its Save and its BroadcastChat it may overtake.
Line == seen \o queue   \* what the client was given, and what the hub has next
RepliesFollow ==
  /\ \A m \in stored : time[m] <= now
  /\ \A s \in stored : \A m \in heard[s] :
       /\ time[m] <= time[s]
       /\ \A i, j \in 1..Len(Line) : Line[i] = s /\ Line[j] = m => j < i

\* The client read from the first page to the last; where it met a message.
Walked   == reader.at = "done" /\ reader.pages[1].page = 1
Where(m) ==
  UNION {{n} \X {i \in 1..Len(reader.pages[n].rows) : reader.pages[n].rows[i] = m} :
         n \in 1..Len(reader.pages)}

\* A row whose place in the order moves under the reader: another one has its
\* time, or one of an earlier time is stored only now.
Disturbed(m) ==
  \E n \in stored \ {m} :
    time[n] = time[m] \/ (n \notin reader.before /\ time[n] < time[m])

\* Pages are read one by one while messages arrive, and each page is counted
\* and read by two queries: still the client reads every message that was
\* there when it began, once, unless the message is disturbed.
PagesExact ==
  Walked => \A m \in reader.before : Disturbed(m) \/ Cardinality(Where(m)) = 1

\* A client that the hub serves before it begins to read misses no message of
\* which the sender was told that it is sent: it has read it, was given it, or
\* will be.
NoBlindSpot ==
  Walked /\ reader.served /\ conn = "served" =>
    \A m \in Answered :
      Where(m) # {} \/ m \in Range(seen) \cup Range(queue) \/ Disturbed(m)

\* A page past the end is empty, up to the largest page whose offset is an int.
PastTheEndIsEmpty ==
  \A i \in 1..Len(reader.pages) :
    LET p == reader.pages[i]
        skipped == (p.page - 1) * reader.limit
    IN  Cardinality(stored) <= skipped /\ skipped <= MaxInt => p.rows = <<>>

\* The inductive invariant: a message is stored once it is sent, and no earlier
\* than that; only answered messages are in the hub, those that were answered
\* when another one was sent are no later than it, and ahead of it; a walk
\* that has not begun has no pages, and one that ended has some.  A walk from
\* page 1 counts its pages without a gap, asks for no offset that is not an
\* int, and does not end before what it found when it began; every page has a
\* message that is not disturbed exactly at the place that its time gives it;
\* and a client that is served has in its line what was answered since it began
\* to read.
HeardFit ==
  \A s \in Senders :
    /\ time[s] <= now
    /\ heard[s] \subseteq Answered
    /\ \A m \in heard[s] : time[m] <= time[s]
OrderFit ==
  /\ \A i \in 1..Len(Line) : Line[i] \in Answered
  /\ \A i, j \in 1..Len(Line) : Line[j] \in heard[Line[i]] => j < i
FromFirst == IF reader.pages = <<>> THEN reader.page = 1 ELSE reader.pages[1].page = 1
Place(m)  == Cardinality({n \in reader.before : time[n] < time[m]}) + 1
WalkFit ==
  /\ reader.before \subseteq stored
  /\ reader.at \in {"count", "find"} =>
       /\ reader.page = Len(reader.pages) + 1
       /\ (reader.page - 1) * reader.limit <= MaxInt
  /\ reader.at = "find" => Cardinality(reader.before) <= reader.total
  /\ reader.at = "done" => Cardinality(reader.before) <= Len(reader.pages) * reader.limit
PlacesFit ==
  \A n \in 1..Len(reader.pages) : \A m \in {m \in reader.before : ~Disturbed(m)} :
    LET rows   == reader.pages[n].rows
        offset == (n - 1) * reader.limit
    IN  /\ Len(rows) <= reader.limit
        /\ \A i \in 1..Len(rows) : rows[i] = m <=> offset + i = Place(m)
        /\ offset < Place(m) /\ Place(m) <= n * reader.limit => Place(m) - offset <= Len(rows)
ServedFit ==
  /\ reader.served => conn \in {"served", "lost"}
  /\ reader.served /\ conn = "served" =>
       Answered \subseteq reader.before \cup Range(seen) \cup Range(queue)
ChatInv ==
  /\ TypeOK
  /\ Answered \subseteq stored
  /\ \A s \in Senders : at[s] = "broadcast" => s \in stored
  /\ \A s \in Senders : at[s] = "idle" => s \notin stored
  /\ HeardFit
  /\ OrderFit
  /\ reader.at = "idle" => reader.pages = <<>>
  /\ reader.at = "done" => reader.pages # <<>>
  /\ PastTheEndIsEmpty
  /\ reader.at # "idle" /\ FromFirst => WalkFit /\ PlacesFit
  /\ reader.at = "idle" => ~reader.served
  /\ ServedFit
=============================================================================
