----------------------------- MODULE ChatProofs -----------------------------
(* Proofs about the chat: what was answered is stored, a message comes after *)
(* those that were answered when it was sent, a walk through the pages reads *)
(* each message once, the history and the websocket leave none out, and a    *)
(* page past the end is empty, for any number of messages, any limits and    *)
(* any width of an int.                                                      *)
EXTENDS Chat, SequenceLemmas, FiniteSetTheorems

-----------------------------------------------------------------------------
(* The arithmetic of pages.                                                *)

\* An int that is in range is not wrapped.
LEMMA WrapSmall == ASSUME NEW n \in 0..MaxInt PROVE Wrap(n) = n
<1>1. n + MaxInt + 1 \in Nat /\ 2 * (MaxInt + 1) \in Nat /\ n + MaxInt + 1 < 2 * (MaxInt + 1)
  BY BoundAssumption
<1>2. \A a, b \in Nat : a < b => a % b = a
  OBVIOUS
<1>3. (n + MaxInt + 1) % (2 * (MaxInt + 1)) = n + MaxInt + 1
  BY <1>1, <1>2
<1> QED
  BY <1>3, BoundAssumption DEF Wrap

LEMMA WrapTyped == ASSUME NEW n \in Int PROVE Wrap(n) \in Int
<1>1. \A a \in Int, b \in Nat : 0 < b => a % b \in Int
  OBVIOUS
<1>2. n + MaxInt + 1 \in Int /\ 2 * (MaxInt + 1) \in Nat /\ 0 < 2 * (MaxInt + 1)
  BY BoundAssumption
<1>3. (n + MaxInt + 1) % (2 * (MaxInt + 1)) \in Int
  BY <1>1, <1>2
<1> QED
  BY <1>3, BoundAssumption DEF Wrap

\* What a query asks for becomes a page and a limit.
LEMMA AskedTyped ==
  ASSUME NEW page \in AskedPages, NEW limit \in AskedLimits
  PROVE  PageFor(page) \in 1..MaxInt /\ LimitFor(limit) \in 1..MaxLimit
<1>1. page \in Int /\ page <= MaxInt /\ limit \in Int
  BY AskedAssumption, BoundAssumption
<1>2. /\ MaxInt \in Int /\ 1 <= MaxInt
      /\ DefaultLimit \in Int /\ MaxLimit \in Int
      /\ 1 <= DefaultLimit /\ DefaultLimit <= MaxLimit
  BY BoundAssumption, LimitAssumption
<1> QED
  BY <1>1, <1>2 DEF PageFor, LimitFor

\* The rows of a page are rows of the table, and there are none past its end.
LEMMA RowsTyped ==
  ASSUME NEW S, NEW s \in Seq(S), NEW limit \in Nat \ {0}, NEW offset \in Int
  PROVE  Rows(s, limit, offset) \in Seq(S)
<1> DEFINE first == IF offset > 0 THEN offset + 1 ELSE 1
           last  == IF first + limit - 1 < Len(s) THEN first + limit - 1 ELSE Len(s)
<1>1. first \in Nat /\ 1 <= first /\ last \in Nat /\ last <= Len(s)
  OBVIOUS
<1> HIDE DEF first, last
<1>2. SubSeq(s, first, last) \in Seq(S)
  BY <1>1
<1> QED
  BY <1>2 DEF Rows, first, last

LEMMA RowsPastTheEnd ==
  ASSUME NEW S, NEW s \in Seq(S), NEW limit \in Nat \ {0}, NEW offset \in Nat, Len(s) <= offset
  PROVE  Rows(s, limit, offset) = <<>>
<1> DEFINE first == IF offset > 0 THEN offset + 1 ELSE 1
           last  == IF first + limit - 1 < Len(s) THEN first + limit - 1 ELSE Len(s)
<1>1. first \in Nat /\ last \in Nat /\ last < first
  OBVIOUS
<1> HIDE DEF first, last
<1>2. SubSeq(s, first, last) = <<>>
  BY <1>1
<1> QED
  BY <1>2 DEF Rows, first, last

\* The page that a place is on.
LEMMA PageOf ==
  ASSUME NEW p \in Nat \ {0}, NEW l \in Nat \ {0}, NEW N \in Nat, p <= N * l
  PROVE  \E n \in 1..N : (n - 1) * l < p /\ p <= n * l
<1> DEFINE q == (p - 1) \div l
           r == (p - 1) % l
<1>1. q \in Nat /\ r \in Nat /\ r < l /\ p - 1 = l * q + r
  <2>1. \A a \in Nat, b \in Nat \ {0} :
          a \div b \in Nat /\ a % b \in Nat /\ a % b < b /\ a = b * (a \div b) + (a % b)
    OBVIOUS
  <2>2. p - 1 \in Nat
    OBVIOUS
  <2> QED
    BY <2>1, <2>2
<1> HIDE DEF q, r
<1>2. \A a, b, c \in Nat : a >= b => a * c >= b * c
  OBVIOUS
<1>3. (q + 1) * l = q * l + l /\ q * l = l * q /\ l * q \in Nat
  BY <1>1
<1>4. q < N
  BY <1>1, <1>2, <1>3
<1>5. q + 1 \in 1..N /\ ((q + 1) - 1) * l < p /\ p <= (q + 1) * l
  BY <1>1, <1>3, <1>4
<1> QED
  BY <1>5

\* A place is on one page only.
LEMMA PageOnce ==
  ASSUME NEW l \in Nat \ {0}, NEW n \in Nat \ {0}, NEW k \in Nat \ {0}, NEW p \in Nat,
         (n - 1) * l < p, p <= n * l, (k - 1) * l < p, p <= k * l
  PROVE  n = k
<1>1. \A a, b, c \in Nat : a <= b => a * c <= b * c
  OBVIOUS
<1>2. ASSUME n < k PROVE FALSE
  <2>1. n * l <= (k - 1) * l /\ n * l \in Nat /\ (k - 1) * l \in Nat
    BY <1>1, <1>2
  <2> QED
    BY <2>1
<1>3. ASSUME k < n PROVE FALSE
  <2>1. k * l <= (n - 1) * l /\ k * l \in Nat /\ (n - 1) * l \in Nat
    BY <1>1, <1>3
  <2> QED
    BY <2>1
<1> QED
  BY <1>2, <1>3

\* A page has the rows of the result that come after its offset, as many as
\* its limit allows and the result has.
LEMMA RowsAt ==
  ASSUME NEW S, NEW s \in Seq(S), NEW limit \in Nat \ {0}, NEW offset \in Nat
  PROVE  LET rows == Rows(s, limit, offset)
         IN  /\ Len(rows) \in Nat /\ Len(rows) <= limit
             /\ \A i \in 1..Len(rows) : offset + i \in 1..Len(s) /\ rows[i] = s[offset + i]
             /\ \A k \in 1..Len(s) : offset < k /\ k <= offset + limit => k - offset <= Len(rows)
<1> DEFINE last == IF offset + limit < Len(s) THEN offset + limit ELSE Len(s)
           rows == SubSeq(s, offset + 1, last)
<1>1. Rows(s, limit, offset) = rows
  <2>1. (IF offset > 0 THEN offset + 1 ELSE 1) = offset + 1 /\ offset + 1 + limit - 1 = offset + limit
    OBVIOUS
  <2> QED
    BY <2>1 DEF Rows
<1>2. last \in Nat /\ last <= Len(s) /\ last <= offset + limit
      /\ \A k \in 1..Len(s) : k <= offset + limit => k <= last
  OBVIOUS
<1> HIDE DEF last
<1>3. CASE offset + 1 <= last
  <2>1. Len(rows) = last - offset /\ \A i \in 1..Len(rows) : rows[i] = s[offset + i]
    <3>1. offset + 1 \in Int /\ last \in Int /\ \A j \in (offset + 1)..last : s[j] \in S
      BY <1>2, <1>3
    <3>2. Len(rows) = last - (offset + 1) + 1
          /\ \A i \in 1..(last - (offset + 1) + 1) : rows[i] = s[offset + 1 + i - 1]
      BY <1>3, <3>1
    <3>3. last - (offset + 1) + 1 = last - offset
      BY <1>2
    <3> HIDE DEF rows
    <3>4. \A i \in Nat : offset + 1 + i - 1 = offset + i
      OBVIOUS
    <3> QED
      BY <1>2, <3>2, <3>3, <3>4
  <2> HIDE DEF rows
  <2> QED
    BY <1>1, <1>2, <1>3, <2>1
<1>4. CASE last < offset + 1
  <2>1. rows = <<>>
    BY <1>2, <1>4
  <2> HIDE DEF rows
  <2>2. Len(rows) = 0
    BY <2>1
  <2>3. \A k \in 1..Len(s) : ~(offset < k /\ k <= offset + limit)
    BY <1>2, <1>4
  <2> QED
    BY <1>1, <2>2, <2>3
<1> QED
  BY <1>2, <1>3, <1>4

-----------------------------------------------------------------------------
(* Types.                                                                  *)

\* A result of the query is a sequence of all the stored messages.
LEMMA ResultsTyped ==
  ASSUME TypeOK, NEW s \in Results(stored)
  PROVE  s \in Seq(Senders) /\ Len(s) = Cardinality(stored)
<1>1. Cardinality(stored) \in Nat
  BY SendersAssumption, FS_Subset, FS_CardinalityType DEF TypeOK
<1>2. s \in [1..Cardinality(stored) -> stored]
  BY DEF Results, SetToSeqs
<1>3. s \in Seq(stored) /\ Len(s) = Cardinality(stored)
  BY <1>1, <1>2
<1>4. \A i \in 1..Len(s) : s[i] \in Senders
  BY <1>1, <1>2, <1>3 DEF TypeOK
<1> QED
  BY <1>3, <1>4

\* The table is finite, and its rows can be counted.
LEMMA CountsTyped ==
  ASSUME TypeOK
  PROVE  /\ IsFiniteSet(stored)
         /\ Cardinality(stored) \in 0..Cardinality(Senders)
         /\ Cardinality(Senders) \in Nat /\ Cardinality(Senders) <= MaxInt
<1>1. stored \subseteq Senders
  BY DEF TypeOK
<1>2. /\ IsFiniteSet(stored) /\ Cardinality(stored) \in Nat /\ Cardinality(Senders) \in Nat
      /\ Cardinality(stored) <= Cardinality(Senders)
  BY <1>1, SendersAssumption, FS_Subset, FS_CardinalityType
<1> QED
  BY <1>2, SendersAssumption

\* A page the client read.
PageRead == [page : 1..MaxInt, rows : Seq(Senders)]

LEMMA FindTyped ==
  ASSUME TypeOK, Find
  PROVE  TypeOK'
<1> DEFINE R == [at : {"idle", "count", "find", "done"}, page : 1..MaxInt,
                 limit : 1..MaxLimit, total : 0..Cardinality(Senders),
                 pages : Seq(PageRead), before : SUBSET Senders, served : BOOLEAN]
<1>0. reader \in R
  BY DEF TypeOK, PageRead
<1>1. /\ reader.page \in 1..MaxInt /\ reader.limit \in 1..MaxLimit
      /\ reader.total \in 0..Cardinality(Senders) /\ reader.pages \in Seq(PageRead)
  BY <1>0
<1>2. /\ MaxInt \in Nat /\ MaxLimit \in Nat /\ Cardinality(Senders) \in Nat
      /\ Cardinality(Senders) <= MaxInt
  BY BoundAssumption, LimitAssumption, CountsTyped
<1>3. reader' \in R
  <2>1. CASE reader' = [reader EXCEPT !.at = "count"]
    BY <1>0, <2>1
  <2>2. ASSUME NEW s \in Results(stored),
               LET rows == Rows(s, reader.limit, Offset(reader.page, reader.limit))
                   last == reader.page * reader.limit >= reader.total
               IN  reader' = [reader EXCEPT
                     !.at    = IF last THEN "done" ELSE "count",
                     !.page  = IF last THEN @ ELSE @ + 1,
                     !.pages = Append(@, [page |-> reader.page, rows |-> rows])]
        PROVE  reader' \in R
    <3> DEFINE rows == Rows(s, reader.limit, Offset(reader.page, reader.limit))
               last == reader.page * reader.limit >= reader.total
               next == IF last THEN reader.page ELSE reader.page + 1
               read == Append(reader.pages, [page |-> reader.page, rows |-> rows])
    <3>1. Offset(reader.page, reader.limit) \in Int
      <4>1. (reader.page - 1) * reader.limit \in Int
        BY <1>1, <1>2
      <4> QED
        BY <4>1, WrapTyped DEF Offset
    <3>2. rows \in Seq(Senders)
      <4>1. reader.limit \in Nat \ {0}
        BY <1>1, <1>2
      <4> QED
        BY <2>2, <3>1, <4>1, ResultsTyped, RowsTyped
    <3>3. next \in 1..MaxInt
      <4>1. ASSUME NEW p \in Nat, NEW l \in Nat, 1 <= p, 1 <= l, NEW t \in Nat, p * l < t
            PROVE  p < t
        BY <4>1
      <4>2. /\ reader.page \in Nat /\ reader.limit \in Nat /\ reader.total \in Nat
            /\ 1 <= reader.page /\ 1 <= reader.limit /\ reader.total <= MaxInt
            /\ reader.page * reader.limit \in Nat
        BY <1>1, <1>2
      <4>3. ~last => reader.page < reader.total
        BY <4>1, <4>2
      <4> QED
        BY <1>1, <1>2, <4>2, <4>3
    <3> HIDE DEF rows, last
    <3>4. read \in Seq(PageRead)
      <4>1. [page |-> reader.page, rows |-> rows] \in PageRead
        BY <1>1, <3>2 DEF PageRead
      <4> QED
        BY <1>1, <4>1
    <3>5. reader' = [reader EXCEPT !.at = IF last THEN "done" ELSE "count", !.page = next,
                                   !.pages = read]
      BY <2>2 DEF rows, last
    <3> HIDE DEF next, read
    <3> QED
      BY <1>0, <3>3, <3>4, <3>5
  <2> QED
    BY <2>1, <2>2 DEF Find
<1>4. UNCHANGED <<now, at, time, heard, stored, queue, conn, seen>>
  BY DEF Find
<1> QED
  BY <1>3, <1>4 DEF TypeOK, PageRead

LEMMA ChatTypeStep ==
  ASSUME TypeOK, [Next]_vars
  PROVE  TypeOK'
<1>0. MaxTime \in Nat /\ MaxInt \in Nat
  BY BoundAssumption
<1>1. ASSUME NEW s \in Senders, NewChatMessage(s) PROVE TypeOK'
  <2>1. /\ at' = [at EXCEPT ![s] = "save"] \/ at' = [at EXCEPT ![s] = "failed"]
        /\ time' = [time EXCEPT ![s] = now] \/ time' = time
        /\ heard' = [heard EXCEPT ![s] = Answered] \/ heard' = heard
    BY <1>1 DEF NewChatMessage, Goes
  <2>2. Answered \in SUBSET Senders
    BY DEF Answered
  <2>3. at' \in [Senders -> {"idle", "save", "broadcast", "answered", "failed"}]
    BY <2>1 DEF TypeOK
  <2>4. time' \in [Senders -> 0..MaxTime]
    BY <2>1 DEF TypeOK
  <2>5. heard' \in [Senders -> SUBSET Senders]
    <3>1. heard \in [Senders -> SUBSET Senders]
      BY DEF TypeOK
    <3> QED
      BY <2>1, <2>2, <3>1
  <2>6. UNCHANGED <<now, stored, queue, conn, seen, reader>>
    BY <1>1 DEF NewChatMessage
  <2> QED
    BY <2>3, <2>4, <2>5, <2>6 DEF TypeOK
<1>2. ASSUME NEW s \in Senders, Save(s) PROVE TypeOK'
  BY <1>2 DEF TypeOK, Save, Goes
<1>3. ASSUME NEW s \in Senders, BroadcastChat(s) PROVE TypeOK'
  BY <1>3 DEF TypeOK, BroadcastChat, Goes
<1>4. CASE Open
  BY <1>4 DEF TypeOK, Open
<1>5. CASE Register
  BY <1>5 DEF TypeOK, Register
<1>6. CASE Deliver
  <2>1. queue \in Seq(Senders) /\ seen \in Seq(Senders) /\ queue # <<>>
    BY <1>6 DEF TypeOK, Deliver
  <2>2. Tail(queue) \in Seq(Senders) /\ Append(seen, Head(queue)) \in Seq(Senders)
    BY <2>1
  <2> QED
    BY <1>6, <2>1, <2>2 DEF TypeOK, Deliver
<1>7. CASE Crash
  <2>1. reader' = [reader EXCEPT !.at = IF reader.at = "find" THEN "count" ELSE reader.at]
    BY <1>7 DEF Crash
  <2>2. <<>> \in Seq(Senders)
    OBVIOUS
  <2> QED
    BY <1>7, <2>1, <2>2 DEF TypeOK, Crash
<1>8. CASE Tick
  BY <1>0, <1>8 DEF TypeOK, Tick
<1>9. ASSUME NEW page \in AskedPages, NEW limit \in AskedLimits, StartWalk(page, limit)
      PROVE  TypeOK'
  <2>1. PageFor(page) \in 1..MaxInt /\ LimitFor(limit) \in 1..MaxLimit
    BY AskedTyped
  <2>2. (conn = "served") \in BOOLEAN /\ stored \in SUBSET Senders
    BY DEF TypeOK
  <2> QED
    BY <1>9, <2>1, <2>2 DEF TypeOK, StartWalk
<1>10. CASE Count
  BY <1>10, CountsTyped DEF TypeOK, Count
<1>11. CASE Find
  BY <1>11, FindTyped
<1>12. CASE UNCHANGED vars
  BY <1>12 DEF TypeOK, vars
<1> QED
  BY <1>1, <1>2, <1>3, <1>4, <1>5, <1>6, <1>7, <1>8, <1>9, <1>10, <1>11, <1>12 DEF Next

-----------------------------------------------------------------------------
(* Messages: what is answered, stored and heard of.                        *)

\* What a step makes of the messages that are answered, of the table and of
\* what requests had heard.
LEMMA MessagesStep ==
  ASSUME ChatInv, [Next]_vars
  PROVE  /\ stored \subseteq stored' /\ now <= now' /\ Answered \subseteq Answered'
         /\ Answered' \subseteq stored'
         /\ \A s \in Senders : at'[s] = "broadcast" => s \in stored'
         /\ \/ UNCHANGED <<time, heard>>
            \/ \E s \in Senders :
                 /\ at[s] = "idle" /\ UNCHANGED Line /\ now' = now
                 /\ time'  = [time EXCEPT ![s] = now]
                 /\ heard' = [heard EXCEPT ![s] = Answered]
<1>0. /\ TypeOK /\ Answered \subseteq stored /\ now \in Nat
      /\ \A s \in Senders : at[s] = "broadcast" => s \in stored
  <2>1. /\ TypeOK /\ Answered \subseteq stored
        /\ \A s \in Senders : at[s] = "broadcast" => s \in stored
    BY DEF ChatInv
  <2> QED
    BY <2>1, BoundAssumption DEF TypeOK
<1> USE <1>0
<1>1. ASSUME NEW s \in Senders, NewChatMessage(s)
      PROVE  /\ stored' = stored /\ now' = now /\ UNCHANGED Line /\ at[s] = "idle"
             /\ \/ UNCHANGED <<time, heard>>
                \/ /\ time'  = [time EXCEPT ![s] = now]
                   /\ heard' = [heard EXCEPT ![s] = Answered]
             /\ \A r \in Senders : at'[r] \in {"answered", "broadcast"} <=>
                                   at[r] \in {"answered", "broadcast"}
             /\ \A r \in Senders : at'[r] = "answered" <=> at[r] = "answered"
  BY <1>1 DEF NewChatMessage, Goes, Line, TypeOK
<1>2. ASSUME NEW s \in Senders, Save(s)
      PROVE  /\ stored \subseteq stored' /\ UNCHANGED <<now, time, heard>>
             /\ \A r \in Senders : at'[r] = "answered" <=> at[r] = "answered"
             /\ \A r \in Senders : at'[r] = "broadcast" => r \in stored'
  BY <1>2 DEF Save, Goes, TypeOK
<1>3. ASSUME NEW s \in Senders, BroadcastChat(s)
      PROVE  /\ stored = stored' /\ UNCHANGED <<now, time, heard>>
             /\ s \in stored
             /\ \A r \in Senders : at'[r] = "answered" <=> at[r] = "answered" \/ r = s
             /\ \A r \in Senders : at'[r] = "broadcast" => at[r] = "broadcast"
  BY <1>3 DEF BroadcastChat, Goes, TypeOK
<1>4. CASE Crash
  <2>1. /\ stored' = stored /\ UNCHANGED <<now, time, heard>>
        /\ \A r \in Senders : at'[r] = "answered" <=> at[r] = "answered"
        /\ \A r \in Senders : at'[r] # "broadcast"
    BY <1>4 DEF Crash, TypeOK
  <2> QED
    BY <2>1 DEF Answered
<1>5. CASE UNCHANGED <<at, stored, time, heard>> /\ (now' = now \/ now' = now + 1)
  BY <1>5 DEF Answered
<1>6. Open \/ Register \/ Deliver \/ Tick \/ Count \/ Find \/ UNCHANGED vars
        => UNCHANGED <<at, stored, time, heard>> /\ (now' = now \/ now' = now + 1)
  BY DEF Open, Register, Deliver, Tick, Count, Find, vars
<1>7. ASSUME NEW page \in AskedPages, NEW limit \in AskedLimits, StartWalk(page, limit)
      PROVE  UNCHANGED <<at, stored, time, heard, now>>
  BY <1>7 DEF StartWalk
<1>8. ASSUME NEW s \in Senders, NewChatMessage(s) \/ Save(s) \/ BroadcastChat(s)
      PROVE  /\ stored \subseteq stored' /\ now <= now' /\ Answered \subseteq Answered'
             /\ Answered' \subseteq stored'
             /\ \A r \in Senders : at'[r] = "broadcast" => r \in stored'
  <2>1. stored \subseteq stored' /\ now' = now
    BY <1>1, <1>2, <1>3, <1>8
  <2>2. \A r \in Senders : at[r] = "answered" => at'[r] = "answered"
    BY <1>1, <1>2, <1>3, <1>8
  <2>3. \A r \in Senders : at'[r] = "answered" => r \in stored'
    BY <1>1, <1>2, <1>3, <1>8 DEF Answered
  <2>4. \A r \in Senders : at'[r] = "broadcast" => r \in stored'
    <3>1. CASE NewChatMessage(s)
      BY <1>1, <3>1 DEF Answered
    <3>2. CASE Save(s)
      BY <1>2, <3>2
    <3>3. CASE BroadcastChat(s)
      BY <1>3, <3>3
    <3> QED
      BY <1>8, <3>1, <3>2, <3>3
  <2> QED
    BY <2>1, <2>2, <2>3, <2>4 DEF Answered
<1> QED
  BY <1>1, <1>2, <1>3, <1>4, <1>5, <1>6, <1>7, <1>8 DEF Next

LEMMA HeardStep ==
  ASSUME ChatInv, [Next]_vars
  PROVE  HeardFit'
<1>0. /\ TypeOK /\ TypeOK' /\ HeardFit
      /\ stored \subseteq stored' /\ now <= now' /\ Answered \subseteq Answered'
  BY MessagesStep, ChatTypeStep DEF ChatInv
<1>1. /\ now \in Nat /\ now' \in Nat
      /\ \A r \in Senders : time[r] \in Nat /\ time[r] <= now
  BY <1>0, BoundAssumption DEF TypeOK, HeardFit
<1>2. CASE UNCHANGED <<time, heard>>
  BY <1>0, <1>1, <1>2 DEF HeardFit, Answered
<1>3. ASSUME NEW s \in Senders, at[s] = "idle", now' = now,
             time'  = [time EXCEPT ![s] = now],
             heard' = [heard EXCEPT ![s] = Answered]
      PROVE  HeardFit'
  <2>1. s \notin Answered
    BY <1>3 DEF Answered
  <2>2. \A r \in Senders : r # s => time'[r] = time[r] /\ heard'[r] = heard[r]
    BY <1>0, <1>3 DEF TypeOK
  <2>3. time'[s] = now /\ heard'[s] = Answered
    BY <1>0, <1>3 DEF TypeOK
  <2>4. \A r \in Senders : heard[r] \subseteq Answered /\ \A m \in heard[r] : time[m] <= time[r]
    BY <1>0 DEF HeardFit
  <2>5. \A r \in Senders : heard'[r] \subseteq Answered
    BY <2>2, <2>3, <2>4
  <2>6. \A r \in Senders : time'[r] <= now'
    BY <1>1, <1>3, <2>2, <2>3
  <2>7. ASSUME NEW r \in Senders, NEW m \in heard'[r] PROVE time'[m] <= time'[r]
    <3>1. m \in Answered /\ m # s /\ m \in Senders /\ time'[m] = time[m]
      BY <2>1, <2>2, <2>5, <2>7 DEF Answered
    <3>2. CASE r = s
      BY <1>1, <2>3, <3>1, <3>2
    <3>3. CASE r # s
      BY <2>2, <2>4, <2>7, <3>1, <3>3
    <3> QED
      BY <3>2, <3>3
  <2> QED
    BY <1>0, <2>5, <2>6, <2>7 DEF HeardFit, Answered
<1> QED
  BY <1>2, <1>3, MessagesStep

-----------------------------------------------------------------------------
(* The line of messages: each is behind those it has heard of.             *)

\* A sequence that keeps some elements of another, in their order.
Keeps(n, s) ==
  \E f : /\ \A j \in 1..Len(n) : f[j] \in 1..Len(s) /\ n[j] = s[f[j]]
         /\ \A i, j \in 1..Len(n) : f[i] < f[j] => i < j

\* Without the head of what is behind it, a sequence keeps the rest.
LEMMA DropFromMiddle ==
  ASSUME NEW S, NEW p \in Seq(S), NEW q \in Seq(S), q # <<>>, NEW s, s = p \o q,
         NEW n, n = p \o Tail(q)
  PROVE  Keeps(n, s)
<1> DEFINE f == [j \in 1..Len(n) |-> IF j <= Len(p) THEN j ELSE j + 1]
<1>1. /\ Len(p) \in Nat /\ Len(q) \in Nat /\ Len(q) > 0
      /\ Tail(q) \in Seq(S) /\ Len(Tail(q)) = Len(q) - 1
      /\ Len(s) = Len(p) + Len(q) /\ Len(n) = Len(p) + (Len(q) - 1)
  OBVIOUS
<1>2. ASSUME NEW j \in 1..Len(n) PROVE f[j] \in 1..Len(s) /\ n[j] = s[f[j]]
  <2>1. CASE j <= Len(p)
    <3>1. n[j] = p[j] /\ s[j] = p[j]
      BY <1>1, <2>1
    <3> QED
      BY <1>1, <2>1, <3>1
  <2>2. CASE ~(j <= Len(p))
    <3>1. j - Len(p) \in 1..Len(Tail(q)) /\ f[j] = j + 1
      BY <1>1, <2>2
    <3>2. n[j] = Tail(q)[j - Len(p)] /\ Tail(q)[j - Len(p)] = q[j - Len(p) + 1]
      BY <1>1, <2>2, <3>1
    <3>3. s[j + 1] = q[j + 1 - Len(p)] /\ j + 1 - Len(p) = j - Len(p) + 1
      BY <1>1, <2>2
    <3> QED
      BY <1>1, <2>2, <3>1, <3>2, <3>3
  <2> QED
    BY <2>1, <2>2
<1>3. \A i, j \in 1..Len(n) : f[i] < f[j] => i < j
  BY <1>1
<1> HIDE DEF f
<1> QED
  BY <1>2, <1>3 DEF Keeps

LEMMA KeepPrefix ==
  ASSUME NEW S, NEW p \in Seq(S), NEW q \in Seq(S), NEW s, s = p \o q
  PROVE  Keeps(p, s)
<1> DEFINE f == [j \in 1..Len(p) |-> j]
<1>1. \A j \in 1..Len(p) : f[j] \in 1..Len(s) /\ p[j] = s[f[j]]
  OBVIOUS
<1>2. \A i, j \in 1..Len(p) : f[i] < f[j] => i < j
  OBVIOUS
<1> HIDE DEF f
<1> QED
  BY <1>1, <1>2 DEF Keeps

\* What a step makes of the line: a message joins it at its end, or some of
\* them leave it.
LEMMA LineStep ==
  ASSUME TypeOK, [Next]_vars
  PROVE  /\ Line \in Seq(Senders)
         /\ \/ UNCHANGED Line
            \/ \E s \in Senders : /\ at[s] = "broadcast" /\ at'[s] = "answered"
                                  /\ Line' = Append(Line, s)
            \/ Keeps(Line', Line)
<1>0. queue \in Seq(Senders) /\ seen \in Seq(Senders) /\ Line \in Seq(Senders)
  BY DEF TypeOK, Line
<1>1. ASSUME NEW s \in Senders, BroadcastChat(s)
      PROVE  at[s] = "broadcast" /\ at'[s] = "answered" /\ Line' = Append(Line, s)
  <2>1. seen \o Append(queue, s) = Append(seen \o queue, s)
    BY <1>0
  <2> QED
    BY <1>1, <2>1 DEF BroadcastChat, Goes, Line, TypeOK
<1>2. CASE Deliver
  <2>1. queue # <<>> /\ queue' = Tail(queue)
    BY <1>2 DEF Deliver
  <2>2. CASE conn = "served"
    <3>1. Append(seen, Head(queue)) \o Tail(queue) = seen \o queue
      BY <1>0, <2>1
    <3> QED
      BY <1>0, <1>2, <2>1, <2>2, <3>1 DEF Deliver, Line
  <2>3. CASE conn # "served"
    <3>1. Line' = seen \o Tail(queue)
      BY <1>2, <2>3 DEF Deliver, Line
    <3>2. Keeps(Line', Line)
      BY <1>0, <2>1, <3>1, DropFromMiddle DEF Line
    <3> QED
      BY <1>0, <3>2
  <2> QED
    BY <2>2, <2>3
<1>3. CASE Crash
  <2>1. queue' = <<>> /\ seen' = seen
    BY <1>3 DEF Crash
  <2>2. seen \o <<>> = seen
    BY <1>0
  <2>3. Line' = seen
    BY <2>1, <2>2 DEF Line
  <2>4. Keeps(seen, Line)
    BY <1>0, KeepPrefix DEF Line
  <2> QED
    BY <1>0, <2>3, <2>4
<1>4. ASSUME NEW s \in Senders, NewChatMessage(s) \/ Save(s) PROVE UNCHANGED Line
  BY <1>4 DEF NewChatMessage, Save, Line
<1>5. Open \/ Register \/ Tick \/ Count \/ Find \/ UNCHANGED vars => UNCHANGED Line
  BY DEF Open, Register, Tick, Count, Find, vars, Line
<1>6. ASSUME NEW page \in AskedPages, NEW limit \in AskedLimits, StartWalk(page, limit)
      PROVE  UNCHANGED Line
  BY <1>6 DEF StartWalk, Line
<1> QED
  BY <1>0, <1>1, <1>2, <1>3, <1>4, <1>5, <1>6 DEF Next

LEMMA OrderStep ==
  ASSUME ChatInv, [Next]_vars
  PROVE  OrderFit'
<1> DEFINE L == Line
           M == Line'
<1>0. /\ TypeOK /\ L \in Seq(Senders) /\ Len(L) \in Nat /\ HeardFit
      /\ \A i \in 1..Len(L) : L[i] \in Answered
      /\ \A i, j \in 1..Len(L) : L[j] \in heard[L[i]] => j < i
      /\ Answered \subseteq Answered'
  <2>1. TypeOK /\ HeardFit /\ Answered \subseteq Answered'
    BY MessagesStep DEF ChatInv
  <2>2. L \in Seq(Senders)
    BY <2>1, LineStep
  <2>3. Len(L) \in Nat
    BY <2>2
  <2>4. /\ \A i \in 1..Len(L) : L[i] \in Answered
        /\ \A i, j \in 1..Len(L) : L[j] \in heard[L[i]] => j < i
    BY DEF ChatInv, OrderFit
  <2> QED
    BY <2>1, <2>2, <2>3, <2>4
<1>1. \A r \in Answered : heard'[r] = heard[r]
  BY <1>0, MessagesStep DEF Answered, TypeOK
<1>2. SUFFICES /\ \A i \in 1..Len(M) : M[i] \in Answered'
               /\ \A i, j \in 1..Len(M) : M[j] \in heard'[M[i]] => j < i
  BY DEF OrderFit
<1>3. CASE M = L
  BY <1>0, <1>1, <1>3
<1>4. ASSUME NEW s \in Senders, at[s] = "broadcast", at'[s] = "answered", M = Append(L, s)
      PROVE  /\ \A i \in 1..Len(M) : M[i] \in Answered'
             /\ \A i, j \in 1..Len(M) : M[j] \in heard'[M[i]] => j < i
  <2>1. s \notin Answered /\ s \in Answered'
    BY <1>4 DEF Answered
  <2>2. \A r \in Senders : s \notin heard[r]
    BY <1>0, <2>1 DEF HeardFit
  <2>3. s \notin heard'[s] /\ \A r \in Senders : r \in Answered \/ r = s => s \notin heard'[r]
    <3>1. heard'[s] = heard[s]
      BY <1>0, <1>4, MessagesStep DEF TypeOK
    <3> QED
      BY <1>1, <2>2, <3>1
  <2> HIDE DEF L, M
  <2>4. /\ Len(M) = Len(L) + 1 /\ M[Len(M)] = s
        /\ \A i \in 1..Len(L) : M[i] = L[i]
        /\ \A i \in 1..Len(M) : i \in 1..Len(L) \/ i = Len(M)
    BY <1>0, <1>4, AppendElements
  <2>5. \A i \in 1..Len(M) : M[i] \in Answered'
    BY <1>0, <2>1, <2>4
  <2>6. ASSUME NEW i \in 1..Len(M), NEW j \in 1..Len(M), M[j] \in heard'[M[i]] PROVE j < i
    <3>1. M[i] \in Senders /\ (M[i] \in Answered \/ M[i] = s)
      BY <1>0, <2>4 DEF Answered
    <3>2. M[j] # s
      BY <2>3, <2>6, <3>1
    <3>3. j \in 1..Len(L) /\ M[j] = L[j]
      BY <2>4, <3>2
    <3>4. CASE i \in 1..Len(L)
      <4>1. M[i] = L[i] /\ L[i] \in Answered
        BY <1>0, <2>4, <3>4
      <4>2. L[j] \in heard[L[i]]
        BY <1>1, <2>6, <3>3, <4>1
      <4> QED
        BY <1>0, <3>3, <3>4, <4>2
    <3>5. CASE i = Len(M)
      BY <1>0, <2>4, <3>3, <3>5
    <3> QED
      BY <2>4, <3>4, <3>5
  <2> QED
    BY <2>5, <2>6
<1>5. ASSUME Keeps(M, L)
      PROVE  /\ \A i \in 1..Len(M) : M[i] \in Answered'
             /\ \A i, j \in 1..Len(M) : M[j] \in heard'[M[i]] => j < i
  <2> HIDE DEF L, M
  <2>1. PICK f : /\ \A j \in 1..Len(M) : f[j] \in 1..Len(L) /\ M[j] = L[f[j]]
                 /\ \A i, j \in 1..Len(M) : f[i] < f[j] => i < j
    BY <1>5 DEF Keeps
  <2>2. \A i \in 1..Len(M) : M[i] \in Answered
    BY <1>0, <2>1
  <2>3. ASSUME NEW i \in 1..Len(M), NEW j \in 1..Len(M), M[j] \in heard'[M[i]] PROVE j < i
    <3>1. L[f[j]] \in heard[L[f[i]]]
      BY <1>1, <2>1, <2>2, <2>3
    <3>2. f[j] < f[i]
      BY <1>0, <2>1, <3>1
    <3> QED
      BY <2>1, <3>2
  <2> QED
    BY <1>0, <2>2, <2>3
<1> QED
  BY <1>0, <1>3, <1>4, <1>5, LineStep

-----------------------------------------------------------------------------
(* Pages.                                                                  *)

\* A page past the end stays one, or is none when the table has grown; the
\* last page is one.
LEMMA PagesStep ==
  ASSUME ChatInv, [Next]_vars
  PROVE  /\ PastTheEndIsEmpty' /\ (reader'.at = "idle" => reader'.pages = <<>>)
         /\ reader'.at = "done" => reader'.pages # <<>>
<1> DEFINE P == reader.pages
           Q == reader'.pages
           C == Cardinality(stored)
           C1 == Cardinality(stored')
           l == reader.limit
<1>0. /\ TypeOK /\ stored \subseteq stored' /\ (reader.at = "idle" => P = <<>>)
      /\ (reader.at = "done" => P # <<>>)
      /\ P \in Seq(PageRead) /\ l \in Nat \ {0} /\ reader.page \in Nat /\ 1 <= reader.page
      /\ \A i \in 1..Len(P) :
           C <= (P[i].page - 1) * l /\ (P[i].page - 1) * l <= MaxInt => P[i].rows = <<>>
  <2>1. /\ TypeOK /\ stored \subseteq stored' /\ (reader.at = "idle" => P = <<>>)
        /\ (reader.at = "done" => P # <<>>) /\ PastTheEndIsEmpty
    BY MessagesStep DEF ChatInv
  <2>2. P \in Seq(PageRead) /\ l \in 1..MaxLimit /\ reader.page \in 1..MaxInt
    BY <2>1 DEF TypeOK, PageRead
  <2> QED
    BY <2>1, <2>2, LimitAssumption, BoundAssumption DEF PastTheEndIsEmpty
<1>1. C \in Nat /\ C1 \in Nat /\ C <= C1
  <2>1. TypeOK'
    BY <1>0, ChatTypeStep
  <2>2. IsFiniteSet(stored')
    BY <2>1, SendersAssumption, FS_Subset DEF TypeOK
  <2> QED
    BY <1>0, <2>2, FS_Subset, FS_CardinalityType
<1>2. SUFFICES /\ \A i \in 1..Len(Q) :
                    C1 <= (Q[i].page - 1) * reader'.limit /\ (Q[i].page - 1) * reader'.limit <= MaxInt
                      => Q[i].rows = <<>>
               /\ reader'.at = "idle" => Q = <<>>
               /\ reader'.at = "done" => Q # <<>>
  BY DEF PastTheEndIsEmpty
<1>3. ASSUME Q = P, reader'.limit = l
      PROVE  \A i \in 1..Len(Q) :
               C1 <= (Q[i].page - 1) * reader'.limit /\ (Q[i].page - 1) * reader'.limit <= MaxInt
                 => Q[i].rows = <<>>
  <2> SUFFICES ASSUME NEW i \in 1..Len(P),
                      C1 <= (P[i].page - 1) * l, (P[i].page - 1) * l <= MaxInt
               PROVE  P[i].rows = <<>>
    BY <1>3
  <2>1. P[i].page \in Nat /\ (P[i].page - 1) * l \in Int
    <3>1. P[i] \in PageRead
      BY <1>0
    <3>2. P[i].page \in Nat
      BY <3>1, BoundAssumption DEF PageRead
    <3> QED
      BY <1>0, <3>2
  <2>2. C <= (P[i].page - 1) * l
    BY <1>1, <2>1
  <2> QED
    BY <1>0, <2>2
<1>4. CASE reader' = reader
  BY <1>0, <1>3, <1>4
<1>5. ASSUME NEW page \in AskedPages, NEW limit \in AskedLimits, StartWalk(page, limit)
      PROVE  Q = <<>> /\ reader'.at = "count"
  <2>1. reader.at = "idle" /\ Q = P /\ reader'.at = "count"
    BY <1>0, <1>5 DEF StartWalk, TypeOK
  <2> QED
    BY <1>0, <2>1
<1>6. CASE Crash
  <2>1. /\ Q = P /\ reader'.limit = l
        /\ reader'.at = "idle" => reader.at = "idle"
        /\ reader'.at = "done" => reader.at = "done"
    BY <1>0, <1>6 DEF Crash, TypeOK
  <2> QED
    BY <1>0, <1>3, <2>1
<1>7. CASE Count
  <2>1. Q = P /\ reader'.limit = l /\ reader'.at = "find"
    BY <1>0, <1>7 DEF Count, TypeOK
  <2> QED
    BY <1>3, <2>1
<1>8. CASE Find
  <2>1. CASE reader' = [reader EXCEPT !.at = "count"]
    <3>1. Q = P /\ reader'.limit = l /\ reader'.at = "count"
      BY <1>0, <2>1 DEF TypeOK
    <3> QED
      BY <1>3, <3>1
  <2>2. ASSUME NEW s \in Results(stored),
               LET rows == Rows(s, reader.limit, Offset(reader.page, reader.limit))
                   last == reader.page * reader.limit >= reader.total
               IN  reader' = [reader EXCEPT
                     !.at    = IF last THEN "done" ELSE "count",
                     !.page  = IF last THEN @ ELSE @ + 1,
                     !.pages = Append(@, [page |-> reader.page, rows |-> rows])]
        PROVE  /\ \A i \in 1..Len(Q) :
                    C1 <= (Q[i].page - 1) * reader'.limit /\ (Q[i].page - 1) * reader'.limit <= MaxInt
                      => Q[i].rows = <<>>
               /\ reader'.at # "idle" /\ Q # <<>>
    <3> DEFINE rows == Rows(s, l, Offset(reader.page, l))
               new  == [page |-> reader.page, rows |-> rows]
    <3>1. /\ reader'.limit = l /\ reader'.at \in {"done", "count"}
          /\ Q = Append(P, new)
      BY <1>0, <2>2 DEF TypeOK
    <3>2. stored' = stored /\ C1 = C
      BY <1>8 DEF Find
    <3>3. ASSUME C <= (reader.page - 1) * l, (reader.page - 1) * l <= MaxInt
          PROVE  rows = <<>>
      <4> DEFINE k == (reader.page - 1) * l
      <4>1. k \in Int
        BY <1>0
      <4> HIDE DEF k
      <4>2. k \in 0..MaxInt /\ C <= k
        BY <1>1, <3>3, <4>1 DEF k
      <4>3. Offset(reader.page, l) = k
        BY <4>2, WrapSmall DEF Offset, k
      <4>4. s \in Seq(Senders) /\ Len(s) <= k /\ k \in Nat
        BY <1>0, <2>2, <4>2, ResultsTyped, BoundAssumption
      <4>5. Rows(s, l, k) = <<>>
        BY <1>0, <4>4, RowsPastTheEnd
      <4> QED
        BY <4>3, <4>5
    <3>4. new.page = reader.page /\ new.rows = rows
      OBVIOUS
    <3> HIDE DEF rows, new
    <3>5. Len(P) \in Nat
      BY <1>0
    <3>6. /\ Len(Q) = Len(P) + 1 /\ Q[Len(P) + 1] = new
          /\ \A i \in 1..Len(P) : Q[i] = P[i]
      BY <1>0, <3>1
    <3>7. \A i \in 1..Len(Q) : i \in 1..Len(P) \/ i = Len(P) + 1
      BY <3>5, <3>6
    <3> HIDE DEF P, Q, C, C1, l
    <3>8. ASSUME NEW i \in 1..Len(Q),
                 C1 <= (Q[i].page - 1) * reader'.limit, (Q[i].page - 1) * reader'.limit <= MaxInt
          PROVE  Q[i].rows = <<>>
      <4>1. CASE i \in 1..Len(P)
        BY <1>0, <3>1, <3>2, <3>6, <3>8, <4>1
      <4>2. CASE i = Len(P) + 1
        BY <3>1, <3>2, <3>3, <3>4, <3>6, <3>8, <4>2 DEF l, C
      <4> QED
        BY <3>7, <4>1, <4>2
    <3>9. Q # <<>>
      <4>1. Len(<<>>) = 0
        OBVIOUS
      <4> QED
        BY <3>5, <3>6, <4>1
    <3> QED
      BY <3>1, <3>8, <3>9
  <2> QED
    BY <1>8, <2>1, <2>2 DEF Find
<1>9. ASSUME NEW s \in Senders, NewChatMessage(s) \/ Save(s) \/ BroadcastChat(s)
      PROVE  reader' = reader
  BY <1>9 DEF NewChatMessage, Save, BroadcastChat
<1>10. Open \/ Register \/ Deliver \/ Tick \/ UNCHANGED vars => reader' = reader
  BY DEF Open, Register, Deliver, Tick, vars
<1> QED
  BY <1>4, <1>5, <1>6, <1>7, <1>8, <1>9, <1>10 DEF Next

-----------------------------------------------------------------------------
(* The walk through the pages.                                             *)

\* A message is not in the table before it was sent, and keeps its time there.
LEMMA UnsentStep ==
  ASSUME ChatInv, [Next]_vars
  PROVE  \A s \in Senders : at'[s] = "idle" => s \notin stored'
<1>0. TypeOK /\ \A s \in Senders : at[s] = "idle" => s \notin stored
  BY DEF ChatInv
<1>1. ASSUME NEW r \in Senders, NewChatMessage(r)
      PROVE  \A s \in Senders : at'[s] = "idle" => s \notin stored'
  BY <1>0, <1>1 DEF NewChatMessage, Goes, TypeOK
<1>2. ASSUME NEW r \in Senders, Save(r)
      PROVE  \A s \in Senders : at'[s] = "idle" => s \notin stored'
  BY <1>0, <1>2 DEF Save, Goes, TypeOK
<1>3. ASSUME NEW r \in Senders, BroadcastChat(r)
      PROVE  \A s \in Senders : at'[s] = "idle" => s \notin stored'
  BY <1>0, <1>3 DEF BroadcastChat, Goes, TypeOK
<1>4. CASE Crash
  BY <1>0, <1>4 DEF Crash, TypeOK
<1>5. Open \/ Register \/ Deliver \/ Tick \/ Count \/ Find \/ UNCHANGED vars
        => UNCHANGED <<at, stored>>
  BY DEF Open, Register, Deliver, Tick, Count, Find, vars
<1>6. ASSUME NEW page \in AskedPages, NEW limit \in AskedLimits, StartWalk(page, limit)
      PROVE  UNCHANGED <<at, stored>>
  BY <1>6 DEF StartWalk
<1> QED
  BY <1>0, <1>1, <1>2, <1>3, <1>4, <1>5, <1>6 DEF Next

LEMMA TimesStay ==
  ASSUME ChatInv, [Next]_vars
  PROVE  \A m \in stored : m \in stored' /\ time'[m] = time[m]
<1>1. /\ TypeOK /\ stored \subseteq stored'
      /\ \A s \in Senders : at[s] = "idle" => s \notin stored
  BY MessagesStep DEF ChatInv
<1>2. \/ UNCHANGED time
      \/ \E s \in Senders : at[s] = "idle" /\ time' = [time EXCEPT ![s] = now]
  BY MessagesStep
<1>3. stored \subseteq Senders
  BY <1>1 DEF TypeOK
<1> QED
  BY <1>1, <1>2, <1>3 DEF TypeOK

\* So a message that was there when the walk began keeps its place, and one
\* that is disturbed stays so.
LEMMA PlacesStay ==
  ASSUME ChatInv, [Next]_vars, reader'.before = reader.before, reader.before \subseteq stored
  PROVE  \A m \in reader.before : Place(m)' = Place(m) /\ (Disturbed(m) => Disturbed(m)')
<1> SUFFICES ASSUME NEW m \in reader.before
             PROVE  Place(m)' = Place(m) /\ (Disturbed(m) => Disturbed(m)')
  OBVIOUS
<1>1. \A n \in stored : n \in stored' /\ time'[n] = time[n]
  BY TimesStay
<1>2. m \in stored
  OBVIOUS
<1>3. {n \in reader'.before : time'[n] < time'[m]} = {n \in reader.before : time[n] < time[m]}
  BY <1>1, <1>2
<1>4. Place(m)' = Place(m)
  BY <1>3 DEF Place
<1>5. Disturbed(m) => Disturbed(m)'
  <2> SUFFICES ASSUME NEW n \in stored \ {m},
                      time[n] = time[m] \/ (n \notin reader.before /\ time[n] < time[m])
               PROVE  Disturbed(m)'
    BY DEF Disturbed
  <2>1. n \in stored' \ {m} /\ time'[n] = time[n] /\ time'[m] = time[m]
    BY <1>1, <1>2
  <2> QED
    BY <2>1 DEF Disturbed
<1> QED
  BY <1>4, <1>5

\* In a sorted result, a message that shares its time with no other one comes
\* right after those of an earlier time.
LEMMA ResultPlaces ==
  ASSUME TypeOK, NEW s \in Results(stored), NEW m \in stored,
         \A n \in stored \ {m} : time[n] # time[m]
  PROVE  LET place == Cardinality({n \in stored : time[n] < time[m]}) + 1
         IN  /\ place \in 1..Len(s)
             /\ \A k \in 1..Len(s) : s[k] = m <=> k = place
<1> DEFINE C == Cardinality(stored)
           E == {n \in stored : time[n] < time[m]}
<1>1. /\ IsFiniteSet(stored) /\ C \in Nat /\ \A n \in stored : time[n] \in Int
  <2>1. stored \in SUBSET Senders
    BY DEF TypeOK
  <2>2. IsFiniteSet(stored)
    BY <2>1, SendersAssumption, FS_Subset
  <2> QED
    BY <2>1, <2>2, FS_CardinalityType, BoundAssumption DEF TypeOK
<1> HIDE DEF C
<1>2. /\ s \in [1..C -> stored] /\ s \in Seq(stored) /\ Len(s) = C
      /\ \A i, j \in 1..C : i # j => s[i] # s[j]
      /\ \A i, j \in 1..C : i < j => time[s[i]] <= time[s[j]]
  <2>1. s \in [1..C -> stored] /\ \A i, j \in 1..C : i # j => s[i] # s[j]
    BY DEF Results, SetToSeqs, C
  <2>2. s \in Seq(stored) /\ Len(s) = C
    BY <1>1, <2>1
  <2>3. Sorted(s)
    BY DEF Results
  <2> QED
    BY <2>1, <2>2, <2>3 DEF Sorted
<1>3. IsFiniteSet(1..C) /\ Cardinality(1..C) = C
  BY <1>1, FS_Interval
<1>4. PICK k \in 1..C : s[k] = m
  <2>1. s \in Injection(1..C, stored)
    BY <1>2 DEF Injection, IsInjective
  <2>2. s \in Surjection(1..C, stored)
    BY <1>1, <1>3, <2>1, FS_Injection DEF C
  <2> QED
    BY <2>2 DEF Surjection
<1> DEFINE K == 1..(k - 1)
           f == [i \in K |-> s[i]]
<1>5. K \subseteq 1..C /\ IsFiniteSet(K) /\ Cardinality(K) = k - 1
  <2>1. k \in Int /\ k - 1 \in Int /\ 1 \in Int /\ 1 <= k
    BY <1>1, <1>4
  <2>2. IsFiniteSet(K) /\ Cardinality(K) = IF 1 > k - 1 THEN 0 ELSE k - 1 - 1 + 1
    BY <2>1, FS_Interval
  <2> QED
    BY <1>1, <1>4, <2>1, <2>2
<1>6. \A i \in 1..C : s[i] \in stored /\ (i \in K <=> s[i] \in E)
  <2> SUFFICES ASSUME NEW i \in 1..C PROVE s[i] \in stored /\ (i \in K <=> s[i] \in E)
    OBVIOUS
  <2>1. s[i] \in stored /\ time[s[i]] \in Int /\ time[m] \in Int
    BY <1>1, <1>2
  <2>2. CASE i < k
    <3>1. time[s[i]] <= time[m] /\ s[i] # m
      BY <1>2, <1>4, <2>2
    <3> QED
      BY <1>1, <2>1, <2>2, <3>1
  <2>3. CASE i = k
    BY <1>4, <2>1, <2>3
  <2>4. CASE i > k
    <3>1. time[m] <= time[s[i]]
      BY <1>2, <1>4, <2>4
    <3> QED
      BY <1>1, <2>1, <2>4, <3>1
  <2> QED
    BY <1>1, <2>2, <2>3, <2>4
<1> HIDE DEF K, E
<1>7. Cardinality(E) = k - 1
  <2>1. f \in [K -> E]
    BY <1>5, <1>6
  <2>2. \A i, j \in K : i # j => f[i] # f[j]
    BY <1>2, <1>5
  <2>3. \A e \in E : \E i \in K : f[i] = e
    <3> SUFFICES ASSUME NEW e \in E PROVE \E i \in K : f[i] = e
      OBVIOUS
    <3>1. e \in stored
      BY DEF E
    <3>2. s \in Surjection(1..C, stored)
      <4>1. s \in Injection(1..C, stored)
        BY <1>2 DEF Injection, IsInjective
      <4> QED
        BY <1>1, <1>3, <4>1, FS_Injection DEF C
    <3>3. PICK i \in 1..C : s[i] = e
      BY <3>1, <3>2 DEF Surjection
    <3>4. i \in K
      BY <1>6, <3>3
    <3> QED
      BY <3>3, <3>4
  <2> HIDE DEF f
  <2>4. f \in Bijection(K, E)
    BY <2>1, <2>2, <2>3 DEF Bijection, Injection, IsInjective, Surjection
  <2>5. ExistsBijection(K, E)
    BY <2>4 DEF ExistsBijection
  <2> QED
    BY <1>5, <2>5, FS_Bijection
<1>8. Cardinality(E) + 1 = k
  BY <1>1, <1>4, <1>7
<1> QED
  BY <1>2, <1>4, <1>8 DEF E

\* The place of an undisturbed message is its place in the table as well.
LEMMA PlaceInTable ==
  ASSUME TypeOK, reader.before \subseteq stored, NEW m \in reader.before, ~Disturbed(m),
         NEW s \in Results(stored)
  PROVE  /\ Place(m) \in 1..Len(s)
         /\ \A k \in 1..Len(s) : s[k] = m <=> k = Place(m)
<1>1. m \in stored /\ \A n \in stored \ {m} : time[n] # time[m]
  BY DEF Disturbed
<1>2. \A n \in stored : time[n] \in Int
  BY BoundAssumption DEF TypeOK
<1>3. {n \in stored : time[n] < time[m]} = {n \in reader.before : time[n] < time[m]}
  BY <1>1, <1>2 DEF Disturbed
<1> QED
  BY <1>1, <1>3, ResultPlaces DEF Place

\* What the pages show stays when no page is added.
LEMMA PlacesFitStays ==
  ASSUME ChatInv, [Next]_vars, PlacesFit, reader.before \subseteq stored,
         reader'.before = reader.before, reader'.limit = reader.limit,
         reader'.pages = reader.pages
  PROVE  PlacesFit'
<1> SUFFICES ASSUME NEW n \in 1..Len(reader.pages), NEW m \in reader.before, ~Disturbed(m)'
             PROVE  LET rows   == reader.pages[n].rows
                        offset == (n - 1) * reader.limit
                    IN  /\ Len(rows) <= reader.limit
                        /\ \A i \in 1..Len(rows) : rows[i] = m <=> offset + i = Place(m)'
                        /\ offset < Place(m)' /\ Place(m)' <= n * reader.limit
                             => Place(m)' - offset <= Len(rows)
  BY DEF PlacesFit
<1>1. Place(m)' = Place(m) /\ ~Disturbed(m)
  BY PlacesStay
<1> QED
  BY <1>1 DEF PlacesFit

\* A page that is read from the first one on has every undisturbed message at
\* its place.
LEMMA PageFits ==
  ASSUME ChatInv, FromFirst, WalkFit, PlacesFit, Find, NEW s \in Results(stored),
         LET rows == Rows(s, reader.limit, Offset(reader.page, reader.limit))
             last == reader.page * reader.limit >= reader.total
         IN  reader' = [reader EXCEPT
               !.at    = IF last THEN "done" ELSE "count",
               !.page  = IF last THEN @ ELSE @ + 1,
               !.pages = Append(@, [page |-> reader.page, rows |-> rows])]
  PROVE  WalkFit' /\ PlacesFit'
<1> DEFINE P == reader.pages
           Q == reader'.pages
           l == reader.limit
           offset == (reader.page - 1) * l
           rows == Rows(s, l, offset)
           last == reader.page * l >= reader.total
           new  == [page |-> reader.page, rows |-> rows]
<1>0. /\ TypeOK /\ reader.at = "find" /\ UNCHANGED <<time, stored>>
      /\ reader.before \subseteq stored
      /\ reader.page = Len(P) + 1 /\ offset <= MaxInt
      /\ Cardinality(reader.before) <= reader.total
  BY DEF ChatInv, Find, WalkFit
<1>1. /\ P \in Seq(PageRead) /\ Len(P) \in Nat /\ l \in Nat \ {0} /\ l \in Nat /\ 1 <= l
      /\ reader.total \in Nat /\ Cardinality(reader.before) \in Nat /\ MaxInt \in Nat
      /\ reader.page \in Nat
  <2>1. /\ P \in Seq(PageRead) /\ l \in 1..MaxLimit /\ reader.total \in 0..Cardinality(Senders)
        /\ reader.before \subseteq Senders /\ reader.page \in 1..MaxInt
    BY <1>0 DEF TypeOK, PageRead
  <2>2. Cardinality(reader.before) \in Nat
    BY <2>1, SendersAssumption, FS_Subset, FS_CardinalityType
  <2>3. MaxLimit \in Nat /\ MaxInt \in Nat /\ Cardinality(Senders) \in Nat
    BY LimitAssumption, BoundAssumption, CountsTyped, <1>0
  <2>4. Len(P) \in Nat
    BY <2>1
  <2> QED
    BY <2>1, <2>2, <2>3, <2>4
<1>2. offset = Len(P) * l /\ offset \in Nat /\ reader.page * l = offset + l
  <2>1. \A a, b \in Nat : a * b \in Nat /\ (a + 1) * b = a * b + b
    OBVIOUS
  <2>2. Len(P) \in Nat /\ l \in Nat /\ reader.page = Len(P) + 1
    BY <1>0, <1>1
  <2>3. reader.page - 1 = Len(P)
    BY <2>2
  <2>4. offset = Len(P) * l /\ reader.page * l = (Len(P) + 1) * l
    BY <2>2, <2>3
  <2>5. Len(P) * l \in Nat /\ (Len(P) + 1) * l = Len(P) * l + l
    BY <2>1, <2>2
  <2> HIDE DEF offset, l, P
  <2> QED
    BY <2>4, <2>5
<1>3. Offset(reader.page, l) = offset
  <2>1. offset \in 0..MaxInt
    BY <1>0, <1>1, <1>2
  <2> QED
    BY <2>1, WrapSmall DEF Offset
<1>4. /\ reader'.before = reader.before /\ reader'.limit = l
      /\ reader'.at = IF last THEN "done" ELSE "count"
      /\ reader'.page = IF last THEN reader.page ELSE reader.page + 1
      /\ reader'.total = reader.total
      /\ Q = Append(P, new)
  BY <1>0, <1>3 DEF TypeOK
<1>5. new.rows = rows /\ new.page = reader.page
  OBVIOUS
<1>6. s \in Seq(Senders) /\ Len(s) = Cardinality(stored)
  BY <1>0, ResultsTyped
<1>7. /\ Len(rows) \in Nat /\ Len(rows) <= l
      /\ \A i \in 1..Len(rows) : offset + i \in 1..Len(s) /\ rows[i] = s[offset + i]
      /\ \A k \in 1..Len(s) : offset < k /\ k <= offset + l => k - offset <= Len(rows)
  BY <1>1, <1>2, <1>6, RowsAt
<1> HIDE DEF rows, new, last
<1>8. /\ Len(Q) = Len(P) + 1 /\ Q[Len(P) + 1] = new
      /\ \A i \in 1..Len(P) : Q[i] = P[i]
  BY <1>1, <1>4
<1>9. \A i \in 1..Len(Q) : i \in 1..Len(P) \/ i = Len(P) + 1
  BY <1>1, <1>8
<1> HIDE DEF offset
<1>10. WalkFit'
  <2>1. reader'.before \subseteq stored'
    BY <1>0, <1>4
  <2>2. CASE last
    <3>1. reader'.at = "done"
      BY <1>4, <2>2
    <3>2. Len(Q) * reader'.limit = reader.page * l
      BY <1>0, <1>4, <1>8
    <3>3. Cardinality(reader'.before) <= Len(Q) * reader'.limit
      BY <1>0, <1>1, <1>2, <1>4, <2>2, <3>2 DEF last
    <3> QED
      BY <2>1, <3>1, <3>3 DEF WalkFit
  <2>3. CASE ~last
    <3>1. reader'.at = "count" /\ reader'.page = reader.page + 1
      BY <1>4, <2>3
    <3>2. reader'.page = Len(Q) + 1
      BY <1>0, <1>8, <3>1
    <3>3. (reader'.page - 1) * reader'.limit = reader.page * l
      BY <1>1, <1>4, <3>1
    <3>4. reader.page * l < reader.total /\ reader.total <= MaxInt
      <4>1. reader.page * l < reader.total
        BY <1>1, <1>2, <2>3 DEF last
      <4>2. reader.total \in 0..Cardinality(Senders)
        BY <1>0 DEF TypeOK
      <4>3. Cardinality(Senders) \in Nat /\ Cardinality(Senders) <= MaxInt
        BY <1>0, CountsTyped
      <4> QED
        BY <1>1, <4>1, <4>2, <4>3
    <3>5. (reader'.page - 1) * reader'.limit <= MaxInt
      BY <1>1, <1>2, <3>3, <3>4
    <3> QED
      BY <2>1, <3>1, <3>2, <3>5 DEF WalkFit
  <2> QED
    BY <2>2, <2>3
<1>11. PlacesFit'
  <2> SUFFICES ASSUME NEW n \in 1..Len(Q), NEW m \in reader.before, ~Disturbed(m)'
               PROVE  LET shown == Q[n].rows
                          skip  == (n - 1) * l
                      IN  /\ Len(shown) <= l
                          /\ \A i \in 1..Len(shown) : shown[i] = m <=> skip + i = Place(m)'
                          /\ skip < Place(m)' /\ Place(m)' <= n * l => Place(m)' - skip <= Len(shown)
    BY <1>4 DEF PlacesFit
  <2>1. [Next]_vars
    BY DEF Next
  <2>2. Place(m)' = Place(m) /\ ~Disturbed(m)
    BY <1>0, <1>4, <2>1, PlacesStay
  <2>3. CASE n \in 1..Len(P)
    BY <1>8, <2>2, <2>3 DEF PlacesFit
  <2>4. CASE n = Len(P) + 1
    <3>1. Q[n].rows = rows
      BY <1>5, <1>8, <2>4
    <3>2. (n - 1) * l = offset /\ n * l = offset + l
      <4>1. n = reader.page
        BY <1>0, <2>4
      <4> QED
        BY <1>2, <4>1 DEF offset
    <3>3. Place(m) \in 1..Len(s) /\ \A k \in 1..Len(s) : s[k] = m <=> k = Place(m)
      BY <1>0, <2>2, PlaceInTable
    <3>4. \A i \in 1..Len(rows) : rows[i] = m <=> offset + i = Place(m)
      BY <1>7, <3>3
    <3>5. offset < Place(m) /\ Place(m) <= offset + l => Place(m) - offset <= Len(rows)
      BY <1>7, <3>3
    <3> QED
      BY <1>7, <2>2, <3>1, <3>2, <3>4, <3>5
  <2> QED
    BY <1>9, <2>3, <2>4
<1> QED
  BY <1>10, <1>11

\* A walk from the first page keeps to its places.
LEMMA WalkStep ==
  ASSUME ChatInv, [Next]_vars, reader'.at # "idle", FromFirst'
  PROVE  WalkFit' /\ PlacesFit'
<1> DEFINE P == reader.pages
<1>0. /\ TypeOK /\ TypeOK' /\ stored \subseteq stored'
      /\ (reader.at = "idle" => P = <<>>)
      /\ reader.at # "idle" /\ FromFirst => WalkFit /\ PlacesFit
  BY ChatTypeStep, MessagesStep DEF ChatInv
<1>1. ASSUME NEW page \in AskedPages, NEW limit \in AskedLimits, StartWalk(page, limit)
      PROVE  WalkFit' /\ PlacesFit'
  <2>1. /\ reader'.at = "count" /\ reader'.pages = <<>> /\ reader'.before = stored
        /\ stored' = stored
    BY <1>0, <1>1 DEF StartWalk, TypeOK
  <2>2. reader'.page = 1
    BY <2>1 DEF FromFirst
  <2>3. reader'.limit \in Int /\ MaxInt \in Nat
    BY <1>0, BoundAssumption, LimitAssumption DEF TypeOK
  <2>4. (reader'.page - 1) * reader'.limit <= MaxInt
    BY <2>2, <2>3
  <2>5. reader'.page = Len(reader'.pages) + 1
    BY <2>1, <2>2
  <2>6. WalkFit'
    BY <2>1, <2>4, <2>5 DEF WalkFit
  <2>7. PlacesFit'
    BY <2>1 DEF PlacesFit
  <2> QED
    BY <2>6, <2>7
<1>2. ASSUME reader.at # "idle", reader'.before = reader.before, reader'.limit = reader.limit,
             reader'.pages = P, reader'.page = reader.page,
             \/ reader'.at = reader.at /\ reader'.total = reader.total
             \/ reader.at \in {"count", "find"} /\ reader'.at = "count"
             \/ reader.at = "count" /\ reader'.at = "find"
                /\ Cardinality(reader.before) <= reader'.total
      PROVE  WalkFit' /\ PlacesFit'
  <2>1. FromFirst
    BY <1>2 DEF FromFirst
  <2>2. WalkFit /\ PlacesFit
    BY <1>0, <1>2, <2>1
  <2>3. PlacesFit'
    BY <1>2, <2>2, PlacesFitStays DEF WalkFit
  <2>4. WalkFit'
    BY <1>0, <1>2, <2>2 DEF WalkFit
  <2> QED
    BY <2>3, <2>4
<1>3. CASE reader' = reader
  BY <1>2, <1>3
<1>4. CASE Crash
  <2>1. /\ reader'.before = reader.before /\ reader'.limit = reader.limit
        /\ reader'.pages = P /\ reader'.page = reader.page /\ reader'.total = reader.total
        /\ reader'.at = IF reader.at = "find" THEN "count" ELSE reader.at
    BY <1>0, <1>4 DEF Crash, TypeOK
  <2> QED
    BY <1>2, <2>1
<1>5. CASE Count
  <2>1. /\ reader'.before = reader.before /\ reader'.limit = reader.limit
        /\ reader'.pages = P /\ reader'.page = reader.page
        /\ reader'.total = Cardinality(stored)
        /\ reader.at = "count" /\ reader'.at = "find"
    BY <1>0, <1>5 DEF Count, TypeOK
  <2>2. reader.before \subseteq stored => Cardinality(reader.before) <= Cardinality(stored)
    BY <1>0, CountsTyped, FS_Subset
  <2>3. FromFirst
    BY <2>1 DEF FromFirst
  <2>4. reader.before \subseteq stored
    BY <1>0, <2>1, <2>3 DEF WalkFit
  <2> QED
    BY <1>2, <2>1, <2>2, <2>4
<1>6. CASE Find
  <2>1. CASE reader' = [reader EXCEPT !.at = "count"]
    <3>1. /\ reader'.before = reader.before /\ reader'.limit = reader.limit
          /\ reader'.pages = P /\ reader'.page = reader.page
          /\ reader.at = "find" /\ reader'.at = "count"
      BY <1>0, <1>6, <2>1 DEF TypeOK, Find
    <3> QED
      BY <1>2, <3>1
  <2>2. ASSUME NEW s \in Results(stored),
               LET rows == Rows(s, reader.limit, Offset(reader.page, reader.limit))
                   last == reader.page * reader.limit >= reader.total
               IN  reader' = [reader EXCEPT
                     !.at    = IF last THEN "done" ELSE "count",
                     !.page  = IF last THEN @ ELSE @ + 1,
                     !.pages = Append(@, [page |-> reader.page, rows |-> rows])]
        PROVE  WalkFit' /\ PlacesFit'
    <3> DEFINE rows == Rows(s, reader.limit, Offset(reader.page, reader.limit))
               new  == [page |-> reader.page, rows |-> rows]
    <3>1. reader'.pages = Append(P, new) /\ reader.at = "find" /\ P \in Seq(PageRead)
      BY <1>0, <1>6, <2>2 DEF TypeOK, PageRead, Find
    <3>2. new.page = reader.page
      OBVIOUS
    <3> HIDE DEF rows, new
    <3>3. reader'.pages # <<>> /\ reader'.pages[1] = IF P = <<>> THEN new ELSE P[1]
      <4>1. CASE P = <<>>
        BY <3>1, <4>1
      <4>2. CASE P # <<>>
        <5>1. Len(P) \in Nat /\ 1 <= Len(P)
          BY <3>1, <4>2
        <5>2. Len(reader'.pages) = Len(P) + 1 /\ \A i \in 1..Len(P) : reader'.pages[i] = P[i]
          BY <3>1
        <5> QED
          BY <4>2, <5>1, <5>2
      <4> QED
        BY <4>1, <4>2
    <3>4. FromFirst
      BY <3>2, <3>3 DEF FromFirst
    <3>5. WalkFit /\ PlacesFit
      BY <1>0, <3>1, <3>4
    <3> QED
      BY <1>6, <2>2, <3>4, <3>5, PageFits
  <2> QED
    BY <1>6, <2>1, <2>2 DEF Find
<1>7. ASSUME NEW s \in Senders, NewChatMessage(s) \/ Save(s) \/ BroadcastChat(s)
      PROVE  reader' = reader
  BY <1>7 DEF NewChatMessage, Save, BroadcastChat
<1>8. Open \/ Register \/ Deliver \/ Tick \/ UNCHANGED vars => reader' = reader
  BY DEF Open, Register, Deliver, Tick, vars
<1> QED
  BY <1>1, <1>3, <1>4, <1>5, <1>6, <1>7, <1>8 DEF Next

\* A client that was served when it began to read has in its line what was
\* answered since.
LEMMA ServedStep ==
  ASSUME ChatInv, [Next]_vars
  PROVE  ServedFit' /\ (reader'.at = "idle" => ~reader'.served)
<1> DEFINE Has == reader.before \cup Range(seen) \cup Range(queue)
<1>0. /\ TypeOK /\ TypeOK' /\ Answered \subseteq stored
      /\ (reader.at = "idle" => ~reader.served)
      /\ (reader.served => conn \in {"served", "lost"})
      /\ (reader.served /\ conn = "served" => Answered \subseteq Has)
      /\ queue \in Seq(Senders) /\ seen \in Seq(Senders)
  BY ChatTypeStep DEF ChatInv, ServedFit, TypeOK
<1>1. ASSUME NEW s \in Senders, BroadcastChat(s) PROVE ServedFit' /\ reader' = reader
  <2>1. /\ queue' = Append(queue, s) /\ at' = [at EXCEPT ![s] = "answered"]
        /\ UNCHANGED <<seen, conn, reader>>
    BY <1>1 DEF BroadcastChat, Goes
  <2>2. Answered' \subseteq Answered \cup {s}
    BY <1>0, <2>1 DEF Answered, TypeOK
  <2>3. Range(queue') = Range(queue) \cup {s}
    <3>1. /\ Len(queue) \in Nat /\ Len(queue') = Len(queue) + 1 /\ queue'[Len(queue')] = s
          /\ \A i \in 1..Len(queue) : i \in 1..Len(queue') /\ queue'[i] = queue[i]
          /\ \A i \in 1..Len(queue') : i \in 1..Len(queue) \/ i = Len(queue')
          /\ queue' \in Seq(Senders)
      BY <1>0, <2>1, AppendElements
    <3>2. DOMAIN queue = 1..Len(queue) /\ DOMAIN queue' = 1..Len(queue')
      BY <1>0, <3>1
    <3>3. Len(queue') \in 1..Len(queue')
      BY <3>1
    <3> QED
      BY <3>1, <3>2, <3>3 DEF Range
  <2> QED
    BY <1>0, <2>1, <2>2, <2>3 DEF ServedFit
<1>2. CASE Deliver
  <2>1. /\ queue # <<>> /\ queue' = Tail(queue) /\ UNCHANGED <<at, conn, reader>>
        /\ conn = "served" => seen' = Append(seen, Head(queue))
    BY <1>2 DEF Deliver
  <2>2. conn = "served" => Range(queue) \cup Range(seen) \subseteq Range(queue') \cup Range(seen')
    <3> SUFFICES ASSUME conn = "served"
                 PROVE  Range(queue) \cup Range(seen) \subseteq Range(queue') \cup Range(seen')
      OBVIOUS
    <3>1. /\ Head(queue) \in Senders /\ queue' \in Seq(Senders) /\ seen' = Append(seen, Head(queue))
          /\ seen' \in Seq(Senders) /\ Head(queue) = queue[1]
      BY <1>0, <2>1
    <3>2. /\ Len(queue') = Len(queue) - 1
          /\ \A i \in 1..Len(queue') : i + 1 \in 1..Len(queue) /\ queue'[i] = queue[i + 1]
      BY <1>0, <2>1, TailElements
    <3>3. /\ Len(seen) \in Nat /\ Len(seen') = Len(seen) + 1 /\ seen'[Len(seen')] = queue[1]
          /\ \A i \in 1..Len(seen) : i \in 1..Len(seen') /\ seen'[i] = seen[i]
      BY <1>0, <3>1, AppendElements
    <3>4. /\ DOMAIN queue = 1..Len(queue) /\ DOMAIN queue' = 1..Len(queue')
          /\ DOMAIN seen = 1..Len(seen) /\ DOMAIN seen' = 1..Len(seen')
          /\ Len(queue) \in Nat
      BY <1>0, <3>1
    <3>5. \A i \in 1..Len(queue) : i = 1 \/ (i - 1 \in 1..Len(queue') /\ queue'[i - 1] = queue[i])
      BY <3>2, <3>4
    <3>6. Len(seen') \in 1..Len(seen')
      BY <3>3
    <3>7. Range(seen) \subseteq Range(seen') /\ queue[1] \in Range(seen')
      BY <3>3, <3>4, <3>6 DEF Range
    <3>8. \A x \in Range(queue) : x = queue[1] \/ x \in Range(queue')
      BY <3>4, <3>5 DEF Range
    <3> QED
      BY <3>7, <3>8
  <2>3. Answered' = Answered
    BY <2>1 DEF Answered
  <2> QED
    BY <1>0, <2>1, <2>2, <2>3 DEF ServedFit
<1>3. CASE Crash
  <2>1. conn' = "lost" /\ reader'.served = reader.served
        /\ (reader'.at = "idle" => reader.at = "idle")
    BY <1>0, <1>3 DEF Crash, TypeOK
  <2> QED
    BY <1>0, <2>1 DEF ServedFit
<1>4. ASSUME NEW page \in AskedPages, NEW limit \in AskedLimits, StartWalk(page, limit)
      PROVE  ServedFit' /\ reader'.at # "idle"
  <2>1. /\ UNCHANGED <<at, conn, seen, queue>> /\ reader'.before = stored
        /\ reader'.served = (conn = "served") /\ reader'.at = "count"
    BY <1>0, <1>4 DEF StartWalk, TypeOK
  <2>2. Answered' \subseteq reader'.before
    BY <1>0, <2>1 DEF Answered
  <2> QED
    BY <2>1, <2>2 DEF ServedFit
<1>5. ASSUME UNCHANGED <<seen, queue>>, Answered' = Answered,
             reader'.before = reader.before, reader'.served = reader.served,
             reader'.at = "idle" => reader.at = "idle",
             \/ conn' = conn
             \/ conn = "none" /\ conn' = "open"
             \/ conn = "open" /\ conn' = "served"
      PROVE  ServedFit' /\ (reader'.at = "idle" => ~reader'.served)
  BY <1>0, <1>5 DEF ServedFit
<1>6. ASSUME NEW s \in Senders, NewChatMessage(s) \/ Save(s)
      PROVE  UNCHANGED <<seen, queue, conn, reader>> /\ Answered' = Answered
  <2>1. UNCHANGED <<seen, queue, conn, reader>>
    BY <1>6 DEF NewChatMessage, Save
  <2>2. \A r \in Senders : at'[r] = "answered" <=> at[r] = "answered"
    BY <1>0, <1>6 DEF NewChatMessage, Save, Goes, TypeOK
  <2> QED
    BY <2>1, <2>2 DEF Answered
<1>7. Open \/ Register \/ Tick \/ UNCHANGED vars
        => /\ UNCHANGED <<seen, queue, reader, at>>
           /\ \/ conn' = conn
              \/ conn = "none" /\ conn' = "open"
              \/ conn = "open" /\ conn' = "served"
  BY DEF Open, Register, Tick, vars
<1>8. Count \/ Find
        => /\ UNCHANGED <<seen, queue, conn, at>> /\ reader'.before = reader.before
           /\ reader'.served = reader.served /\ reader'.at # "idle"
  <2>1. Count => /\ UNCHANGED <<seen, queue, conn, at>> /\ reader'.before = reader.before
                 /\ reader'.served = reader.served /\ reader'.at # "idle"
    BY <1>0 DEF Count, TypeOK
  <2>2. Find => UNCHANGED <<seen, queue, conn, at>>
    BY DEF Find
  <2>3. Find => /\ reader'.before = reader.before
                /\ reader'.served = reader.served /\ reader'.at # "idle"
    BY <1>0 DEF Find, TypeOK
  <2> QED
    BY <2>1, <2>2, <2>3
<1>9. UNCHANGED at => Answered' = Answered
  BY DEF Answered
<1> QED
  BY <1>0, <1>1, <1>2, <1>3, <1>4, <1>5, <1>6, <1>7, <1>8, <1>9 DEF Next

\* At the end of a walk from the first page, an undisturbed message has been
\* read once: its place is on one page, and on that page it is in one row.
LEMMA ReadOnce ==
  ASSUME ChatInv, Walked, NEW m \in reader.before, ~Disturbed(m)
  PROVE  Cardinality(Where(m)) = 1
<1> DEFINE P == reader.pages
           N == Len(P)
           l == reader.limit
           p == Place(m)
<1>1. TypeOK /\ reader.at = "done" /\ WalkFit /\ PlacesFit
  <2>1. TypeOK /\ reader.at = "done" /\ P[1].page = 1
    BY DEF ChatInv, Walked
  <2>2. P # <<>>
    BY <2>1 DEF ChatInv
  <2> QED
    BY <2>1, <2>2 DEF ChatInv, FromFirst
<1>2. P \in Seq(PageRead) /\ N \in Nat /\ l \in Nat \ {0}
  <2>1. P \in Seq(PageRead) /\ l \in 1..MaxLimit
    BY <1>1 DEF TypeOK, PageRead
  <2> QED
    BY <2>1, LimitAssumption
<1>3. p \in Nat \ {0} /\ p <= N * l
  <2> DEFINE B == reader.before
             E == {n \in B : time[n] < time[m]}
  <2>1. B \subseteq Senders /\ \A n \in Senders : time[n] \in Int
    BY <1>1, BoundAssumption DEF TypeOK
  <2>2. IsFiniteSet(B) /\ Cardinality(B) \in Nat
    BY <2>1, SendersAssumption, FS_Subset, FS_CardinalityType
  <2>3. E \subseteq B \ {m}
    BY <2>1
  <2>4. IsFiniteSet(B \ {m}) /\ Cardinality(B \ {m}) = Cardinality(B) - 1
    BY <2>2, FS_RemoveElement
  <2>5. Cardinality(E) \in Nat /\ Cardinality(E) <= Cardinality(B) - 1
    BY <2>3, <2>4, FS_Subset, FS_CardinalityType
  <2>6. Cardinality(B) <= N * l
    BY <1>1 DEF WalkFit
  <2>7. p = Cardinality(E) + 1
    BY DEF Place
  <2>8. N * l \in Nat
    BY <1>2
  <2> HIDE DEF E, B, p, N, l
  <2> QED
    BY <2>2, <2>5, <2>6, <2>7, <2>8
<1> HIDE DEF p
<1>4. PICK n \in 1..N : (n - 1) * l < p /\ p <= n * l
  BY <1>2, <1>3, PageOf
<1> DEFINE k == p - (n - 1) * l
<1>5. \A a \in 1..N : /\ Len(P[a].rows) \in Nat /\ Len(P[a].rows) <= l
                      /\ \A i \in 1..Len(P[a].rows) : P[a].rows[i] = m <=> (a - 1) * l + i = p
                      /\ (a - 1) * l < p /\ p <= a * l => p - (a - 1) * l <= Len(P[a].rows)
  <2> SUFFICES ASSUME NEW a \in 1..N
               PROVE  /\ Len(P[a].rows) \in Nat /\ Len(P[a].rows) <= l
                      /\ \A i \in 1..Len(P[a].rows) : P[a].rows[i] = m <=> (a - 1) * l + i = p
                      /\ (a - 1) * l < p /\ p <= a * l => p - (a - 1) * l <= Len(P[a].rows)
    OBVIOUS
  <2>1. P[a] \in PageRead
    BY <1>2
  <2>2. Len(P[a].rows) \in Nat
    BY <2>1 DEF PageRead
  <2> QED
    BY <1>1, <2>2 DEF PlacesFit, p
<1>6. (n - 1) * l \in Nat /\ k \in 1..Len(P[n].rows) /\ P[n].rows[k] = m
  <2>1. (n - 1) * l \in Nat
    BY <1>2, <1>4
  <2>2. k \in Nat /\ 1 <= k /\ (n - 1) * l + k = p
    BY <1>3, <1>4, <2>1
  <2>3. Len(P[n].rows) \in Nat /\ k <= Len(P[n].rows)
    BY <1>4, <1>5
  <2>4. k \in 1..Len(P[n].rows)
    BY <2>2, <2>3
  <2> HIDE DEF k
  <2> QED
    BY <1>4, <1>5, <2>1, <2>2, <2>4
<1>7. ASSUME NEW a \in 1..N, NEW i \in 1..Len(P[a].rows), P[a].rows[i] = m
      PROVE  a = n /\ i = k
  <2>1. (a - 1) * l + i = p /\ Len(P[a].rows) \in Nat /\ Len(P[a].rows) <= l
    BY <1>5, <1>7
  <2>2. (a - 1) * l \in Nat /\ a * l = (a - 1) * l + l /\ i \in Nat /\ 1 <= i /\ i <= l
    <3>1. \A b \in Nat \ {0}, c \in Nat : (b - 1) * c \in Nat /\ b * c = (b - 1) * c + c
      OBVIOUS
    <3>2. a \in Nat \ {0} /\ l \in Nat /\ i \in Nat /\ 1 <= i /\ i <= l
      BY <1>2, <2>1
    <3> QED
      BY <3>1, <3>2
  <2>3. (a - 1) * l < p /\ p <= a * l
    <3>1. \A x, y, z \in Nat : z \in 1..y => x < x + z /\ x + z <= x + y
      OBVIOUS
    <3>2. l \in Nat /\ i \in 1..l
      BY <1>2, <2>2
    <3> QED
      BY <2>1, <2>2, <3>1, <3>2
  <2>4. a = n
    <3>1. a \in Nat \ {0} /\ n \in Nat \ {0} /\ p \in Nat
      BY <1>2, <1>3
    <3> HIDE DEF N, l
    <3> QED
      BY <1>2, <1>4, <2>3, <3>1, PageOnce
  <2> QED
    BY <1>3, <1>6, <2>1, <2>2, <2>4
<1> HIDE DEF k, N, l
<1>8. Where(m) = {<<n, k>>}
  <2> DEFINE W == UNION {{a} \X {i \in 1..Len(P[a].rows) : P[a].rows[i] = m} : a \in 1..N}
  <2>1. Where(m) = W
    BY DEF Where, N
  <2>2. <<n, k>> \in W
    BY <1>4, <1>6
  <2>3. ASSUME NEW x \in W PROVE x = <<n, k>>
    <3>1. PICK a \in 1..N : x \in {a} \X {i \in 1..Len(P[a].rows) : P[a].rows[i] = m}
      BY <2>3
    <3>2. PICK i \in 1..Len(P[a].rows) : P[a].rows[i] = m /\ x = <<a, i>>
      BY <3>1
    <3> QED
      BY <1>7, <3>2
  <2> HIDE DEF W
  <2> QED
    BY <2>1, <2>2, <2>3
<1> QED
  BY <1>8, FS_Singleton

-----------------------------------------------------------------------------
(* The theorems.                                                           *)

LEMMA ChatInit == ASSUME Init PROVE ChatInv
<1>1. TypeOK
  <2>1. /\ 0 \in 0..MaxTime /\ 1 \in 1..MaxInt /\ 1 \in 1..MaxLimit
        /\ 0 \in 0..Cardinality(Senders)
    BY BoundAssumption, LimitAssumption, SendersAssumption, FS_CardinalityType
  <2>2. <<>> \in Seq(Senders) /\ <<>> \in Seq([page : 1..MaxInt, rows : Seq(Senders)])
    OBVIOUS
  <2> QED
    BY <2>1, <2>2 DEF Init, TypeOK
<1>2. Answered = {} /\ Line = <<>> /\ reader.pages = <<>>
  BY DEF Init, Answered, Line
<1>3. HeardFit
  BY <1>2 DEF Init, HeardFit
<1>4. OrderFit
  BY <1>2 DEF OrderFit
<1>5. PastTheEndIsEmpty
  BY <1>2 DEF PastTheEndIsEmpty
<1>6. ServedFit /\ reader.at = "idle" /\ ~reader.served
  BY DEF Init, ServedFit
<1>7. /\ Answered \subseteq stored
      /\ \A s \in Senders : at[s] = "broadcast" => s \in stored
      /\ \A s \in Senders : at[s] = "idle" => s \notin stored
  BY <1>2 DEF Init
<1> QED
  BY <1>1, <1>2, <1>3, <1>4, <1>5, <1>6, <1>7 DEF ChatInv

\* The inductive invariant of the chat.
THEOREM ChatInvariant == Spec => []ChatInv
<1>1. Init => ChatInv
  BY ChatInit
<1>2. ChatInv /\ [Next]_vars => ChatInv'
  <2> SUFFICES ASSUME ChatInv, [Next]_vars PROVE ChatInv'
    OBVIOUS
  <2>1. TypeOK'
    BY ChatTypeStep DEF ChatInv
  <2>2. Answered' \subseteq stored' /\ \A s \in Senders : at'[s] = "broadcast" => s \in stored'
    BY MessagesStep
  <2>3. \A s \in Senders : at'[s] = "idle" => s \notin stored'
    BY UnsentStep
  <2>4. HeardFit' /\ OrderFit'
    BY HeardStep, OrderStep
  <2>5. /\ PastTheEndIsEmpty' /\ (reader'.at = "idle" => reader'.pages = <<>>)
        /\ reader'.at = "done" => reader'.pages # <<>>
    BY PagesStep
  <2>6. reader'.at # "idle" /\ FromFirst' => WalkFit' /\ PlacesFit'
    BY WalkStep
  <2>7. ServedFit' /\ (reader'.at = "idle" => ~reader'.served)
    BY ServedStep
  <2> QED
    BY <2>1, <2>2, <2>3, <2>4, <2>5, <2>6, <2>7 DEF ChatInv
<1> QED
  BY <1>1, <1>2, PTL DEF Spec

\* Every variable keeps its type: a walk never asks for a page that is no int,
\* and no limit is beyond the upper one.
THEOREM ChatTyped == Spec => []TypeOK
<1>1. ChatInv => TypeOK
  BY DEF ChatInv
<1> QED
  BY <1>1, ChatInvariant, PTL

\* A message that was answered is in the table for good, and the hub and the
\* client only have messages that are.
THEOREM AnsweredIsStored == Spec => []ShownIsStored
<1>1. ChatInv => ShownIsStored
  <2> SUFFICES ASSUME ChatInv PROVE ShownIsStored
    OBVIOUS
  <2>1. queue \in Seq(Senders) /\ seen \in Seq(Senders)
    BY DEF ChatInv, TypeOK
  <2>2. \A i \in 1..Len(seen) : seen[i] \in Answered
    <3>1. \A i \in 1..Len(seen) : i \in 1..Len(Line) /\ Line[i] = seen[i]
      BY <2>1 DEF Line
    <3> QED
      BY <3>1 DEF ChatInv, OrderFit
  <2>3. \A i \in 1..Len(queue) : queue[i] \in Answered
    <3>1. \A i \in 1..Len(queue) :
            Len(seen) + i \in 1..Len(Line) /\ Line[Len(seen) + i] = queue[i]
      BY <2>1 DEF Line
    <3> QED
      BY <3>1 DEF ChatInv, OrderFit
  <2>4. Range(queue) \subseteq Answered /\ Range(seen) \subseteq Answered
    BY <2>1, <2>2, <2>3 DEF Range
  <2> QED
    BY <2>4 DEF ShownIsStored, ChatInv
<1> QED
  BY <1>1, ChatInvariant, PTL

\* Nothing in the history has a later created_at than a message that is sent
\* now; and a message that was sent when another one was answered has no earlier
\* created_at than that one, and comes after it on every websocket.
THEOREM RepliesComeBehind == Spec => []RepliesFollow
<1>1. ChatInv => RepliesFollow
  <2> SUFFICES ASSUME ChatInv PROVE RepliesFollow
    OBVIOUS
  <2>1. stored \subseteq Senders
    BY DEF ChatInv, TypeOK
  <2>2. \A m \in stored : time[m] <= now
    BY <2>1 DEF ChatInv, HeardFit
  <2>3. ASSUME NEW s \in stored, NEW m \in heard[s]
        PROVE  /\ time[m] <= time[s]
               /\ \A i, j \in 1..Len(Line) : Line[i] = s /\ Line[j] = m => j < i
    BY <2>1, <2>3 DEF ChatInv, HeardFit, OrderFit
  <2> QED
    BY <2>2, <2>3 DEF RepliesFollow
<1> QED
  BY <1>1, ChatInvariant, PTL

\* A page past the end of the history is empty, as long as its offset is an
\* int, whenever it was read.
THEOREM PagesEnd == Spec => []PastTheEndIsEmpty
<1>1. ChatInv => PastTheEndIsEmpty
  BY DEF ChatInv
<1> QED
  BY <1>1, ChatInvariant, PTL

\* Pages read one by one while messages arrive have every message that was
\* there at first, and that no other one moves, exactly once.
THEOREM PagesAreExact == Spec => []PagesExact
<1>1. ChatInv => PagesExact
  BY ReadOnce DEF PagesExact
<1> QED
  BY <1>1, ChatInvariant, PTL

\* The history and the websocket together have every message that was
\* answered, if the websocket was served first and nothing moves the message.
THEOREM NoMessageIsMissed == Spec => []NoBlindSpot
<1>1. ChatInv => NoBlindSpot
  <2> SUFFICES ASSUME ChatInv, Walked, reader.served, conn = "served",
                      NEW m \in Answered, ~Disturbed(m)
               PROVE  Where(m) # {} \/ m \in Range(seen) \cup Range(queue)
    BY DEF NoBlindSpot
  <2>1. CASE m \in reader.before
    <3>1. IsFiniteSet({}) /\ Cardinality({}) = 0
      BY FS_EmptySet
    <3>2. Cardinality(Where(m)) = 1
      BY <2>1, ReadOnce
    <3> QED
      BY <3>1, <3>2
  <2>2. CASE m \notin reader.before
    BY <2>2 DEF ChatInv, ServedFit
  <2> QED
    BY <2>1, <2>2
<1> QED
  BY <1>1, ChatInvariant, PTL
=============================================================================
