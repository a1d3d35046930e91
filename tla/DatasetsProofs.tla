---------------------------- MODULE DatasetsProofs ----------------------------
(***************************************************************************)
(* What TLAPS proves of the path from the live sources to RAW, for any      *)
(* logs, topics, files, prices, attempts and bounds on them: of LogProducer, *)
(* BronzeStreams, PriceEnrichment and RawLoad, in this order.               *)
(*                                                                         *)
(* LogProducer.  What is published, looked up, queued and on the socket     *)
(* follow one another (OneAfterAnother), and the node's logs are all of it   *)
(* (NothingIsLost); every step moves the first message or appends a last.    *)
(*                                                                         *)
(* BronzeStreams.  Between a batch's write and its commit, the file or the   *)
(* appended offsets are those of the plan (BatchIsInFile, BatchIsAppended);  *)
(* files end in the log, so a copy once merged stays a copy.                 *)
(*                                                                         *)
(* PriceEnrichment.  The ordering of the window finds one price at most      *)
(* (OneBest), and it lies in the window unless the window is empty           *)
(* (LegIsPriced); a build uses the prices it read, whatever arrives later.   *)
(*                                                                         *)
(* RawLoad.  The transaction that has written RAW holds its lock, so RAW     *)
(* and merged_at do not move before it ends (Holding).  What its MERGE       *)
(* wrote is at least RAW (Grows) and at least every unmerged row (Covers);   *)
(* with the pool nobody copies another row before UPDATE marks them (Alone), *)
(* so what it marks it has merged (Marks), however late its COMMIT executes. *)
(***************************************************************************)
EXTENDS LogProducer, BronzeStreams, PriceEnrichment, RawLoad, NaturalBounds,
        SequenceTheorems, FiniteSetTheorems, TLAPS

--------------------------------------------------------------------------------
\* ---- LogProducer ----

Waiting == IF producer.step = "lookup" THEN {producer.log} ELSE {}

Coming == Waiting \cup LogsIn(pending) \cup LogsIn(socket)

Increasing(s) == \A i, j \in DOMAIN s : i < j => s[i] < s[j]

Before(A, B) == \A m \in A, n \in B : m < n

UsableOf(A) == {n \in A : Usable(n)}

\* What may be on the wire.  That a block is asked for only while a log is looked up is not
\* needed: an answer to nobody would be no log either.
Wire == Messages \cup {Message("block", BlockOf[0])}

ProducerTypes ==
  /\ emitted \in 0 .. MaxLog
  /\ socket \in Seq(Wire) /\ pending \in Seq(Wire)
  /\ producer \in {Down, Receiving} \cup [step : {"lookup"}, log : Logs]
  /\ delivered \in Seq(Logs) /\ published \in Seq(Logs)

\* Between two connections nothing is left of the last.
DownIsEmpty ==
  producer = Down => /\ socket = <<>> /\ pending = <<>> /\ requests = {}
                     /\ delivered = <<>> /\ published = <<>>

\* What is published, looked up, queued and on the socket follow one another.
OneAfterAnother ==
  /\ Increasing(published) /\ InLogOrder(pending) /\ InLogOrder(socket)
  /\ Before(Range(published), Coming)
  /\ Before(Waiting, LogsIn(pending) \cup LogsIn(socket))
  /\ Before(LogsIn(pending), LogsIn(socket))

\* The node has emitted it all, and nothing usable is missing.
NothingIsLost ==
  /\ \A n \in Range(published) \cup Coming : n <= emitted
  /\ UsableOf(Range(delivered)) = Range(published) \cup UsableOf(Coming)

ProducerInv ==
  /\ ProducerTypes
  /\ DownIsEmpty
  /\ producer.step = "lookup" => BlockOf[producer.log] # 0
  /\ OneAfterAnother
  /\ NothingIsLost

--------------------------------------------------------------------------------

LEMMA MessageKinds ==
  /\ \A n \in Logs : Message("log", n) \in Wire /\ Message("log", n).kind = "log"
                     /\ Message("log", n).item = n
  /\ \A n \in Logs \cup {0} : Message("block", BlockOf[n]) \in Wire
                     /\ Message("block", BlockOf[n]).kind = "block"
  /\ \A kind \in {"confirmation", "refusal", "error"} :
        Message(kind, 0) \in Wire /\ Message(kind, 0).kind = kind
  /\ \A m \in Wire : m.kind = "log" => m.item \in Logs
<1>1. \A kind, item : Message(kind, item).kind = kind /\ Message(kind, item).item = item
  BY DEF Message
<1> QED
  BY <1>1 DEF Messages, Wire

\* The log a message is, if it is one.
LogOf(m) == IF m.kind = "log" THEN {m.item} ELSE {}

LEMMA LogsAreLogs ==
  ASSUME NEW s \in Seq(Wire)
  PROVE  LogsIn(s) \subseteq Logs
<1>1. \A i \in DOMAIN s : s[i] \in Wire
  BY LenProperties, ElementOfSeq
<1> QED
  BY <1>1, MessageKinds DEF LogsIn

LEMMA EmptyLogs == LogsIn(<<>>) = {} /\ InLogOrder(<<>>)
BY DEF LogsIn, InLogOrder

\* A message read from the front of a queue.
LEMMA HeadLogs ==
  ASSUME NEW s \in Seq(Wire), s # <<>>
  PROVE  /\ Head(s) \in Wire /\ Tail(s) \in Seq(Wire)
         /\ LogsIn(s) = LogOf(Head(s)) \cup LogsIn(Tail(s))
         /\ InLogOrder(s) => InLogOrder(Tail(s)) /\ Before(LogOf(Head(s)), LogsIn(Tail(s)))
<1> DEFINE n == Len(Tail(s))
           S == Wire
<1>1. /\ Head(s) \in S /\ Tail(s) \in Seq(S) /\ Len(s) = n + 1 /\ n \in Nat
      /\ \A i \in 1 .. n : Tail(s)[i] = s[i + 1]
      /\ DOMAIN s = 1 .. n + 1 /\ DOMAIN Tail(s) = 1 .. n /\ Head(s) = s[1]
  <2>1. Head(s) \in S /\ Tail(s) \in Seq(S) /\ n = Len(s) - 1
        /\ \A i \in 1 .. n : Tail(s)[i] = s[i + 1]
    BY HeadTailProperties
  <2>2. Len(s) \in Nat /\ DOMAIN s = 1 .. Len(s) /\ n \in Nat /\ DOMAIN Tail(s) = 1 .. n
    BY <2>1, LenProperties
  <2> QED
    BY <2>1, <2>2
<1> DEFINE t == Tail(s)
           h == Head(s)
<1> HIDE DEF n, t, h
<1>2. /\ t \in Seq(S) /\ Len(s) = n + 1 /\ n \in Nat /\ \A i \in 1 .. n : t[i] = s[i + 1]
      /\ DOMAIN s = 1 .. n + 1 /\ DOMAIN t = 1 .. n /\ h = s[1]
  BY <1>1 DEF t, h
<1>3. \A i \in 1 .. n + 1 : i = 1 \/ (i - 1 \in 1 .. n /\ t[i - 1] = s[i])
  BY <1>2
<1>4. LogsIn(s) = LogOf(h) \cup LogsIn(t)
  <2>1. ASSUME NEW m \in LogsIn(s) PROVE m \in LogOf(h) \cup LogsIn(t)
    <3>1. PICK i \in 1 .. n + 1 : s[i].kind = "log" /\ m = s[i].item
      BY <1>2 DEF LogsIn
    <3> QED
      BY <1>2, <1>3, <3>1, ZenonT(40) DEF LogsIn, LogOf
  <2>2. ASSUME NEW m \in LogOf(h) PROVE m \in LogsIn(s)
    BY <1>2 DEF LogsIn, LogOf
  <2>3. ASSUME NEW m \in LogsIn(t) PROVE m \in LogsIn(s)
    <3>1. PICK i \in 1 .. n : t[i].kind = "log" /\ m = t[i].item
      BY <1>2 DEF LogsIn
    <3>2. i + 1 \in 1 .. n + 1 /\ s[i + 1] = t[i]
      BY <1>2
    <3> QED
      BY <1>2, <3>1, <3>2 DEF LogsIn
  <2> QED
    BY <2>1, <2>2, <2>3
<1>5. ASSUME InLogOrder(s)
      PROVE  InLogOrder(t) /\ Before(LogOf(h), LogsIn(t))
  <2>1. \A i, j \in 1 .. n + 1 : i < j /\ s[i].kind = "log" /\ s[j].kind = "log"
                                 => s[i].item < s[j].item
    BY <1>2, <1>5 DEF InLogOrder
  <2>2. \A i \in 1 .. n : i + 1 \in 1 .. n + 1 /\ 1 < i + 1 /\ s[i + 1] = t[i]
    BY <1>2
  <2>3. InLogOrder(t)
    <3> SUFFICES ASSUME NEW i \in 1 .. n, NEW j \in 1 .. n, i < j, t[i].kind = "log",
                        t[j].kind = "log"
                 PROVE  t[i].item < t[j].item
      BY <1>2 DEF InLogOrder
    <3>1. i + 1 < j + 1
      BY <1>2
    <3> QED
      BY <2>1, <2>2, <3>1
  <2>4. Before(LogOf(h), LogsIn(t))
    <3> SUFFICES ASSUME NEW i \in 1 .. n, h.kind = "log", t[i].kind = "log"
                 PROVE  h.item < t[i].item
      BY <1>2 DEF Before, LogOf, LogsIn
    <3> QED
      BY <1>2, <2>1, <2>2
  <2> QED
    BY <2>3, <2>4
<1> QED
  BY <1>1, <1>4, <1>5 DEF t, h

\* A message put behind a queue.
LEMMA AppendLogs ==
  ASSUME NEW s \in Seq(Wire), NEW m \in Wire
  PROVE  /\ Append(s, m) \in Seq(Wire)
         /\ LogsIn(Append(s, m)) = LogsIn(s) \cup LogOf(m)
         /\ InLogOrder(s) /\ Before(LogsIn(s), LogOf(m)) => InLogOrder(Append(s, m))
<1> DEFINE t == Append(s, m)
           n == Len(s)
<1>1. /\ t \in Seq(Wire) /\ Len(t) = n + 1 /\ n \in Nat
      /\ \A i \in 1 .. n : t[i] = s[i]
      /\ t[n + 1] = m
  BY AppendProperties, LenProperties
<1>2. DOMAIN t = 1 .. n + 1 /\ DOMAIN s = 1 .. n
  BY <1>1, LenProperties
<1> HIDE DEF t, n
<1>3. LogsIn(t) = LogsIn(s) \cup LogOf(m)
  <2>1. ASSUME NEW x \in LogsIn(t) PROVE x \in LogsIn(s) \cup LogOf(m)
    <3>1. PICK i \in 1 .. n + 1 : t[i].kind = "log" /\ x = t[i].item
      BY <1>2 DEF LogsIn
    <3>2. i \in 1 .. n \/ i = n + 1
      BY <1>1
    <3> QED
      BY <1>1, <1>2, <3>1, <3>2 DEF LogsIn, LogOf
  <2>2. ASSUME NEW x \in LogsIn(s) PROVE x \in LogsIn(t)
    <3>1. PICK i \in 1 .. n : s[i].kind = "log" /\ x = s[i].item
      BY <1>2 DEF LogsIn
    <3>2. i \in 1 .. n + 1 /\ t[i] = s[i]
      BY <1>1
    <3> QED
      BY <1>2, <3>1, <3>2 DEF LogsIn
  <2>3. ASSUME NEW x \in LogOf(m) PROVE x \in LogsIn(t)
    <3>1. n + 1 \in 1 .. n + 1
      BY <1>1
    <3> QED
      BY <1>1, <1>2, <3>1 DEF LogsIn, LogOf
  <2> QED
    BY <2>1, <2>2, <2>3
<1>4. ASSUME InLogOrder(s), Before(LogsIn(s), LogOf(m))
      PROVE  InLogOrder(t)
  <2> SUFFICES ASSUME NEW i \in 1 .. n + 1, NEW j \in 1 .. n + 1, i < j, t[i].kind = "log",
                      t[j].kind = "log"
               PROVE  t[i].item < t[j].item
    BY <1>2 DEF InLogOrder
  <2>1. i \in 1 .. n /\ t[i] = s[i] /\ (j \in 1 .. n \/ j = n + 1)
    BY <1>1
  <2>2. CASE j \in 1 .. n
    BY <1>1, <1>2, <1>4, <2>1, <2>2 DEF InLogOrder
  <2>3. CASE j = n + 1
    <3>1. s[i].item \in LogsIn(s) /\ m.item \in LogOf(m)
      BY <1>1, <1>2, <2>1, <2>3 DEF LogsIn, LogOf
    <3> QED
      BY <1>1, <1>4, <2>1, <2>3, <3>1 DEF Before
  <2> QED
    BY <2>1, <2>2, <2>3
<1> QED
  BY <1>1, <1>3, <1>4 DEF t

\* Two queues, one behind the other.
LEMMA ConcatLogs ==
  ASSUME NEW s \in Seq(Wire), NEW t \in Seq(Wire)
  PROVE  /\ s \o t \in Seq(Wire)
         /\ LogsIn(s \o t) = LogsIn(s) \cup LogsIn(t)
         /\ InLogOrder(s) /\ InLogOrder(t) /\ Before(LogsIn(s), LogsIn(t)) => InLogOrder(s \o t)
<1> DEFINE u == s \o t
           n == Len(s)
           k == Len(t)
           S == Wire
<1>1. s \in Seq(S) /\ t \in Seq(S)
  OBVIOUS
<1>2. /\ u \in Seq(S) /\ Len(u) = n + k
      /\ \A i \in 1 .. n + k : u[i] = IF i <= n THEN s[i] ELSE t[i - n]
  <2> HIDE DEF S
  <2> QED
    BY <1>1, ConcatProperties, Zenon
<1>3. n \in Nat /\ k \in Nat /\ DOMAIN s = 1 .. n /\ DOMAIN t = 1 .. k /\ DOMAIN u = 1 .. n + k
  BY <1>1, <1>2, LenProperties
<1> HIDE DEF u, n, k
<1>4. /\ \A i \in 1 .. n : i \in 1 .. n + k /\ u[i] = s[i]
      /\ \A i \in 1 .. k : n + i \in 1 .. n + k /\ u[n + i] = t[i]
      /\ \A i \in 1 .. n + k : i \in 1 .. n \/ (i - n \in 1 .. k /\ u[i] = t[i - n])
  <2>1. \A i \in 1 .. n : i \in 1 .. n + k /\ u[i] = s[i]
    BY <1>2, <1>3
  <2>2. \A i \in 1 .. n + k : i \in 1 .. n \/ (i - n \in 1 .. k /\ u[i] = t[i - n])
    BY <1>2, <1>3
  <2>3. ASSUME NEW i \in 1 .. k PROVE n + i \in 1 .. n + k /\ u[n + i] = t[i]
    <3>1. PICK j \in 1 .. n + k : j = n + i
      BY <1>3
    <3>2. ~(j \in 1 .. n) /\ j - n = i
      BY <1>3, <3>1
    <3> QED
      BY <2>2, <3>1, <3>2
  <2> QED
    BY <2>1, <2>2, <2>3
<1>5. LogsIn(u) = LogsIn(s) \cup LogsIn(t)
  <2>1. ASSUME NEW x \in LogsIn(u) PROVE x \in LogsIn(s) \cup LogsIn(t)
    <3>1. PICK i \in 1 .. n + k : u[i].kind = "log" /\ x = u[i].item
      BY <1>3 DEF LogsIn
    <3> QED
      BY <1>3, <1>4, <3>1, ZenonT(40) DEF LogsIn
  <2>2. ASSUME NEW x \in LogsIn(s) PROVE x \in LogsIn(u)
    <3>1. PICK i \in 1 .. n : s[i].kind = "log" /\ x = s[i].item
      BY <1>3 DEF LogsIn
    <3> QED
      BY <1>3, <1>4, <3>1 DEF LogsIn
  <2>3. ASSUME NEW x \in LogsIn(t) PROVE x \in LogsIn(u)
    <3>1. PICK i \in 1 .. k : t[i].kind = "log" /\ x = t[i].item
      BY <1>3 DEF LogsIn
    <3>2. PICK j \in 1 .. n + k : j = n + i /\ u[j] = t[i]
      BY <1>4
    <3> QED
      BY <1>3, <3>1, <3>2 DEF LogsIn
  <2> QED
    BY <2>1, <2>2, <2>3
<1>6. ASSUME InLogOrder(s), InLogOrder(t), Before(LogsIn(s), LogsIn(t))
      PROVE  InLogOrder(u)
  <2> SUFFICES ASSUME NEW i \in 1 .. n + k, NEW j \in 1 .. n + k, i < j, u[i].kind = "log",
                      u[j].kind = "log"
               PROVE  u[i].item < u[j].item
    BY <1>3 DEF InLogOrder
  <2>1. CASE j \in 1 .. n
    <3>1. i \in 1 .. n
      BY <1>3, <2>1
    <3> QED
      BY <1>3, <1>4, <1>6, <2>1, <3>1 DEF InLogOrder
  <2>2. CASE i \notin 1 .. n
    <3>1. PICK p \in 1 .. k, q \in 1 .. k : p = i - n /\ q = j - n /\ p < q
      BY <1>3, <1>4, <2>2
    <3>2. j \notin 1 .. n
      BY <1>3, <2>2
    <3>3. u[i] = t[p] /\ u[j] = t[q]
      BY <1>4, <2>2, <3>1, <3>2
    <3> QED
      BY <1>3, <1>6, <3>1, <3>3 DEF InLogOrder
  <2>3. CASE i \in 1 .. n /\ j \notin 1 .. n
    <3>1. u[i].item \in LogsIn(s)
      BY <1>3, <1>4, <2>3 DEF LogsIn
    <3>2. PICK q \in 1 .. k : q = j - n /\ u[j] = t[q]
      BY <1>4, <2>3
    <3>3. u[j].item \in LogsIn(t)
      BY <1>3, <3>2 DEF LogsIn
    <3> QED
      BY <1>6, <3>1, <3>3 DEF Before
  <2> QED
    BY <2>1, <2>2, <2>3
<1> QED
  BY <1>2, <1>5, <1>6 DEF u

--------------------------------------------------------------------------------

\* The message receive() returns is the first of what is queued and on the socket.
LEMMA NextIsFirst ==
  ASSUME ProducerInv, NextMessage # <<>>
  PROVE  LET read == NextMessage[1]
         IN  /\ read.message \in Wire
             /\ read.pending \in Seq(Wire) /\ read.socket \in Seq(Wire)
             /\ LogsIn(pending) \cup LogsIn(socket)
                  = LogOf(read.message) \cup LogsIn(read.pending) \cup LogsIn(read.socket)
             /\ InLogOrder(read.pending) /\ InLogOrder(read.socket)
             /\ Before(LogOf(read.message), LogsIn(read.pending) \cup LogsIn(read.socket))
             /\ Before(LogsIn(read.pending), LogsIn(read.socket))
<1>0. /\ pending \in Seq(Wire) /\ socket \in Seq(Wire)
      /\ InLogOrder(pending) /\ InLogOrder(socket) /\ Before(LogsIn(pending), LogsIn(socket))
  BY DEF ProducerInv, ProducerTypes, OneAfterAnother
<1>1. CASE pending # <<>>
  <2>1. /\ NextMessage[1].message = Head(pending) /\ NextMessage[1].pending = Tail(pending)
        /\ NextMessage[1].socket = socket
    BY <1>1 DEF NextMessage
  <2>2. /\ Head(pending) \in Wire /\ Tail(pending) \in Seq(Wire)
        /\ LogsIn(pending) = LogOf(Head(pending)) \cup LogsIn(Tail(pending))
        /\ InLogOrder(Tail(pending))
        /\ Before(LogOf(Head(pending)), LogsIn(Tail(pending)))
    BY <1>0, <1>1, HeadLogs
  <2>3. /\ Before(LogOf(Head(pending)), LogsIn(Tail(pending)) \cup LogsIn(socket))
        /\ Before(LogsIn(Tail(pending)), LogsIn(socket))
    BY <1>0, <2>2 DEF Before
  <2> QED
    BY <1>0, <2>1, <2>2, <2>3
<1>2. CASE pending = <<>>
  <2>1. socket # <<>>
    BY <1>2 DEF NextMessage
  <2>2. /\ NextMessage[1].message = Head(socket) /\ NextMessage[1].pending = pending
        /\ NextMessage[1].socket = Tail(socket)
    BY <1>2, <2>1 DEF NextMessage
  <2>3. /\ Head(socket) \in Wire /\ Tail(socket) \in Seq(Wire)
        /\ LogsIn(socket) = LogOf(Head(socket)) \cup LogsIn(Tail(socket))
        /\ InLogOrder(Tail(socket))
        /\ Before(LogOf(Head(socket)), LogsIn(Tail(socket)))
    BY <1>0, <2>1, HeadLogs
  <2>4. LogsIn(pending) = {}
    BY <1>2, EmptyLogs
  <2>5. /\ Before(LogOf(Head(socket)), LogsIn(pending) \cup LogsIn(Tail(socket)))
        /\ Before(LogsIn(pending), LogsIn(Tail(socket)))
    BY <2>3, <2>4 DEF Before
  <2> QED
    BY <1>0, <2>2, <2>3, <2>4, <2>5
<1> QED
  BY <1>1, <1>2

\* However a connection ends, nothing of it is left.
LEMMA LeaveStep ==
  ASSUME ProducerInv, emitted' = emitted, producer' = Down,
         socket' = <<>>, pending' = <<>>, requests' = {}, delivered' = <<>>, published' = <<>>
  PROVE  ProducerInv'
<1>1. producer'.step = "down"
  BY DEF Down
<1>2. ProducerTypes'
  BY EmptySeq DEF ProducerInv, ProducerTypes
<1>3. LogsIn(pending') = {} /\ LogsIn(socket') = {} /\ InLogOrder(pending') /\ InLogOrder(socket')
  BY EmptyLogs
<1>4. Waiting' = {} /\ Coming' = {}
  BY <1>1, <1>3 DEF Waiting, Coming
<1>5. Range(published') = {} /\ Range(delivered') = {} /\ Increasing(published')
  BY DEF Range, Increasing
<1>6. OneAfterAnother' /\ NothingIsLost'
  BY <1>3, <1>4, <1>5 DEF OneAfterAnother, NothingIsLost, Before, UsableOf
<1> QED
  BY <1>1, <1>2, <1>6 DEF ProducerInv, DownIsEmpty

LEMMA AppendRange ==
  ASSUME NEW s \in Seq(Logs), NEW item \in Logs
  PROVE  Append(s, item) \in Seq(Logs) /\ Range(Append(s, item)) = Range(s) \cup {item}
<1> DEFINE n == Len(s)
           t == Append(s, item)
<1>1. /\ t \in Seq(Logs) /\ Len(t) = n + 1 /\ n \in Nat
      /\ \A i \in 1 .. n : t[i] = s[i]
      /\ t[n + 1] = item
  BY AppendProperties, LenProperties
<1>2. DOMAIN t = 1 .. n + 1 /\ DOMAIN s = 1 .. n
  BY <1>1, LenProperties
<1> HIDE DEF n, t
<1>3. \A i \in 1 .. n + 1 : i \in 1 .. n \/ i = n + 1
  BY <1>1
<1>4. n + 1 \in 1 .. n + 1 /\ \A i \in 1 .. n : i \in 1 .. n + 1
  BY <1>1
<1>5. ASSUME NEW x \in Range(t) PROVE x \in Range(s) \cup {item}
  BY <1>1, <1>2, <1>3 DEF Range
<1>6. ASSUME NEW x \in Range(s) PROVE x \in Range(t)
  BY <1>1, <1>2, <1>4 DEF Range
<1>7. item \in Range(t)
  BY <1>1, <1>2, <1>4 DEF Range
<1> QED
  BY <1>1, <1>5, <1>6, <1>7 DEF t

\* What a recognized log adds to what is published.
LEMMA PublishedLogs ==
  ASSUME ProducerTypes, Increasing(published), NEW item \in Logs, BlockOf[item] # 0,
         Before(Range(published), {item}), Publish(item)
  PROVE  /\ published' \in Seq(Logs) /\ Increasing(published')
         /\ Range(published') = Range(published) \cup UsableOf({item})
<1>1. CASE item \in Unusable
  BY <1>1 DEF ProducerTypes, Publish, UsableOf, Usable
<1>2. CASE item \notin Unusable
  <2> DEFINE n == Len(published)
             s == published
             t == published'
  <2>1. t = Append(s, item) /\ s \in Seq(Logs)
    BY <1>2 DEF Publish, ProducerTypes
  <2>2. /\ t \in Seq(Logs) /\ Len(t) = n + 1 /\ n \in Nat
        /\ \A i \in 1 .. n : t[i] = s[i]
        /\ t[n + 1] = item
    <3> HIDE DEF s, t
    <3> QED
      BY <2>1, AppendProperties, LenProperties DEF s
  <2>3. DOMAIN t = 1 .. n + 1 /\ DOMAIN s = 1 .. n
    BY <2>1, <2>2, LenProperties
  <2> HIDE DEF n, s, t
  <2>4. Range(t) = Range(s) \cup {item}
    BY <2>1, AppendRange
  <2>5. Increasing(t)
    <3> SUFFICES ASSUME NEW i \in 1 .. n + 1, NEW j \in 1 .. n + 1, i < j
                 PROVE  t[i] < t[j]
      BY <2>3 DEF Increasing
    <3>1. i \in 1 .. n /\ t[i] = s[i] /\ (j \in 1 .. n \/ j = n + 1)
      BY <2>2
    <3>2. s[i] \in Range(s)
      BY <2>3, <3>1 DEF Range
    <3>3. s[i] < item
      BY <3>2 DEF Before, s
    <3>4. j \in 1 .. n => s[i] < s[j]
      BY <2>3, <3>1 DEF Increasing, s
    <3> QED
      BY <2>2, <3>1, <3>3, <3>4
  <2>6. UsableOf({item}) = {item}
    BY <1>2 DEF UsableOf, Usable
  <2> QED
    BY <2>2, <2>4, <2>5, <2>6 DEF s, t
<1> QED
  BY <1>1, <1>2

\* The log that comes first is published, and the rest come behind it.
LEMMA FirstIsPublished ==
  ASSUME ProducerInv, ProducerTypes', NEW item \in Logs, BlockOf[item] # 0, Publish(item),
         Coming = {item} \cup Coming', Before({item}, Coming'),
         Waiting' = {}, producer' = Receiving, InLogOrder(pending'), InLogOrder(socket'),
         Before(LogsIn(pending'), LogsIn(socket')),
         emitted' = emitted, delivered' = delivered
  PROVE  ProducerInv'
<1>0. ProducerTypes /\ OneAfterAnother /\ NothingIsLost
  BY DEF ProducerInv
<1>1. /\ published' \in Seq(Logs) /\ Increasing(published')
      /\ Range(published') = Range(published) \cup UsableOf({item})
  <2>1. Before(Range(published), {item})
    BY <1>0 DEF OneAfterAnother, Before
  <2> QED
    BY <1>0, <2>1, PublishedLogs DEF OneAfterAnother
<1>2. OneAfterAnother'
  <2>1. Before(Range(published'), Coming')
    BY <1>0, <1>1 DEF OneAfterAnother, Before, UsableOf
  <2> QED
    BY <1>1, <2>1 DEF OneAfterAnother, Before
<1>3. NothingIsLost'
  <2>1. \A n \in Range(published') \cup Coming' : n <= emitted'
    BY <1>0, <1>1 DEF NothingIsLost, UsableOf
  <2>2. UsableOf(Coming) = UsableOf({item}) \cup UsableOf(Coming')
    BY DEF UsableOf
  <2>3. UsableOf(Range(delivered)) = Range(published') \cup UsableOf(Coming')
    BY <1>0, <1>1, <2>2 DEF NothingIsLost
  <2>4. UsableOf(Range(delivered))' = UsableOf(Range(delivered))
    BY DEF UsableOf, Usable
  <2>5. UsableOf(Coming)' = UsableOf(Coming')
    BY DEF UsableOf, Usable
  <2> QED
    BY <2>1, <2>3, <2>4, <2>5 DEF NothingIsLost
<1>4. producer'.step = "receive" /\ producer' # Down
  BY DEF Receiving, Down
<1> QED
  BY <1>2, <1>3, <1>4 DEF ProducerInv, DownIsEmpty

\* What comes is handed on within the process, and what is dropped is not usable.
LEMMA OnlyMoved ==
  ASSUME ProducerInv, ProducerTypes', producer' # Down,
         Coming' \subseteq Coming, UsableOf(Coming) \subseteq Coming',
         producer'.step = "lookup" => BlockOf[producer'.log] # 0,
         InLogOrder(pending'), InLogOrder(socket'),
         Before(Waiting', LogsIn(pending') \cup LogsIn(socket')),
         Before(LogsIn(pending'), LogsIn(socket')),
         UNCHANGED <<emitted, delivered, published>>
  PROVE  ProducerInv'
<1>0. OneAfterAnother /\ NothingIsLost
  BY DEF ProducerInv
<1>1. OneAfterAnother'
  BY <1>0 DEF OneAfterAnother, Before, Increasing
<1>2. UsableOf(Coming') = UsableOf(Coming)
  BY DEF UsableOf
<1>3. NothingIsLost'
  <2>1. \A n \in Range(published) \cup Coming' : n <= emitted
    BY <1>0 DEF NothingIsLost
  <2>2. UsableOf(Range(delivered)) = Range(published) \cup UsableOf(Coming')
    BY <1>0, <1>2 DEF NothingIsLost
  <2> QED
    BY <2>1, <2>2 DEF NothingIsLost, UsableOf, Usable
<1> QED
  BY <1>1, <1>3 DEF ProducerInv, DownIsEmpty

\* The node sends the next log behind everything it sent before.
LEMMA EmitStep ==
  ASSUME ProducerInv, Emit
  PROVE  ProducerInv'
<1>0. ProducerTypes /\ OneAfterAnother /\ NothingIsLost
  BY DEF ProducerInv
<1>1. /\ emitted \in Nat /\ emitted < MaxLog /\ emitted' = emitted + 1
      /\ UNCHANGED <<pending, requests, producer, published>>
  BY <1>0, MaxLogAssumption DEF Emit, ProducerTypes
<1>2. emitted' \in Logs /\ emitted' \in 0 .. MaxLog
  BY <1>1, MaxLogAssumption DEF Logs
<1>3. \A n \in Range(published) \cup Coming : n \in Logs /\ n < emitted'
  <2>1. Range(published) \subseteq Logs
    BY <1>0, LenProperties, ElementOfSeq DEF ProducerTypes, Range
  <2>2. Coming \subseteq Logs
    <3>1. LogsIn(pending) \subseteq Logs /\ LogsIn(socket) \subseteq Logs
      BY <1>0, LogsAreLogs DEF ProducerTypes
    <3>2. Waiting \subseteq Logs
      BY <1>0 DEF ProducerTypes, Waiting, Down, Receiving
    <3> QED
      BY <3>1, <3>2 DEF Coming
  <2> TAKE n \in Range(published) \cup Coming
  <2>3. n \in Logs
    BY <2>1, <2>2, Zenon
  <2>4. n <= emitted
    BY <1>0 DEF NothingIsLost
  <2>5. n \in Int
    BY <2>3, MaxLogAssumption DEF Logs
  <2> QED
    BY <1>1, <2>3, <2>4, <2>5
<1>4. CASE "logs" \in requests
  <2> DEFINE m == Message("log", emitted')
  <2>1. socket' = Append(socket, m) /\ delivered' = Append(delivered, emitted')
    BY <1>4 DEF Emit
  <2>2. m \in Wire /\ LogOf(m) = {emitted'}
    BY <1>2, MessageKinds DEF LogOf
  <2>3. LogsIn(socket) \subseteq Coming /\ LogsIn(pending) \subseteq Coming
        /\ Waiting \subseteq Coming
    BY DEF Coming
  <2>4. /\ socket' \in Seq(Wire) /\ LogsIn(socket') = LogsIn(socket) \cup {emitted'}
        /\ InLogOrder(socket')
    <3>1. Before(LogsIn(socket), LogOf(m))
      BY <1>3, <2>2, <2>3 DEF Before
    <3> HIDE DEF m
    <3> QED
      BY <1>0, <2>1, <2>2, <3>1, AppendLogs DEF ProducerTypes, OneAfterAnother
  <2>5. delivered' \in Seq(Logs) /\ Range(delivered') = Range(delivered) \cup {emitted'}
    BY <1>0, <1>2, <2>1, AppendRange DEF ProducerTypes
  <2>6. ProducerTypes'
    BY <1>0, <1>1, <1>2, <2>4, <2>5 DEF ProducerTypes
  <2>7. DownIsEmpty'
    BY <1>1, <1>4 DEF ProducerInv, DownIsEmpty
  <2>8. Waiting' = Waiting /\ Coming' = Coming \cup {emitted'}
    BY <1>1, <2>4 DEF Waiting, Coming
  <2>9. OneAfterAnother'
    BY <1>0, <1>1, <1>3, <2>3, <2>4, <2>8 DEF OneAfterAnother, Before, Increasing
  <2>10. NothingIsLost'
    <3>1. \A n \in Range(published) \cup Coming' : n <= emitted'
      BY <1>1, <1>2, <1>3, <2>8, MaxLogAssumption DEF Logs
    <3>2. UsableOf(Range(delivered')) = Range(published) \cup UsableOf(Coming')
      BY <1>0, <2>5, <2>8 DEF NothingIsLost, UsableOf
    <3> QED
      BY <1>1, <3>1, <3>2 DEF NothingIsLost, UsableOf, Usable
  <2> QED
    BY <1>1, <2>6, <2>7, <2>9, <2>10 DEF ProducerInv
<1>5. CASE "logs" \notin requests
  <2>1. UNCHANGED <<socket, delivered>>
    BY <1>5 DEF Emit
  <2>2. ProducerTypes' /\ DownIsEmpty'
    BY <1>1, <1>2, <2>1 DEF ProducerInv, ProducerTypes, DownIsEmpty
  <2>3. Waiting' = Waiting /\ Coming' = Coming
    BY <1>1, <2>1 DEF Waiting, Coming
  <2>4. OneAfterAnother'
    BY <1>0, <1>1, <2>1, <2>3 DEF OneAfterAnother, Before, Increasing
  <2>5. NothingIsLost'
    <3>1. \A n \in Range(published) \cup Coming : n <= emitted'
      BY <1>1, <1>2, <1>3, MaxLogAssumption DEF Logs
    <3> QED
      BY <1>0, <1>1, <2>1, <2>3, <3>1 DEF NothingIsLost, UsableOf, Usable
  <2> QED
    BY <1>1, <2>2, <2>4, <2>5 DEF ProducerInv
<1> QED
  BY <1>4, <1>5

\* What the node answers is no log.
LEMMA AnswerStep ==
  ASSUME ProducerInv, NEW request \in requests, Answer(request)
  PROVE  ProducerInv'
<1>0. ProducerTypes /\ OneAfterAnother
  BY DEF ProducerInv
<1>1. producer # Down
  BY DEF ProducerInv, DownIsEmpty
<1>2. PICK m : /\ m \in IF request = "block"
                        THEN {Message("block", BlockOf[producer.log]), Message("refusal", 0)}
                        ELSE {Message("confirmation", 0), Message("error", 0)}
               /\ socket' = Append(socket, m)
  BY DEF Answer
<1>3. UNCHANGED <<emitted, pending, producer, delivered, published>>
  BY DEF Answer
<1>4. m.kind # "log"
  BY <1>2 DEF Message
<1>5. socket' \in Seq(Wire) /\ LogsIn(socket') = LogsIn(socket) /\ InLogOrder(socket')
  <2>1. m \in Wire
    <3>1. producer.log \in Logs \cup {0}
      BY <1>0 DEF ProducerTypes, Down, Receiving
    <3> QED
      BY <1>2, <3>1, MessageKinds
  <2>2. LogOf(m) = {} /\ Before(LogsIn(socket), LogOf(m))
    BY <1>4 DEF LogOf, Before
  <2> QED
    BY <1>0, <1>2, <2>1, <2>2, AppendLogs, ZenonT(40) DEF ProducerTypes, OneAfterAnother
<1>6. ProducerTypes' /\ producer' # Down
  BY <1>0, <1>1, <1>3, <1>5 DEF ProducerTypes
<1>7. Waiting' = Waiting /\ Coming' = Coming
  BY <1>3, <1>5 DEF Waiting, Coming
<1> QED
  BY <1>0, <1>3, <1>5, <1>6, <1>7, OnlyMoved DEF ProducerInv, OneAfterAnother, UsableOf

LEMMA ReceiveStep ==
  ASSUME ProducerInv, Receive
  PROVE  ProducerInv'
<1>0. ProducerTypes /\ OneAfterAnother
  BY DEF ProducerInv
<1> DEFINE read == NextMessage[1]
           message == read.message
           item == message.item
<1>1. producer = Receiving /\ NextMessage # <<>> /\ emitted' = emitted
  BY DEF Receive, Leave
<1>2. /\ message \in Wire
      /\ read.pending \in Seq(Wire) /\ read.socket \in Seq(Wire)
      /\ LogsIn(pending) \cup LogsIn(socket)
           = LogOf(message) \cup LogsIn(read.pending) \cup LogsIn(read.socket)
      /\ InLogOrder(read.pending) /\ InLogOrder(read.socket)
      /\ Before(LogOf(message), LogsIn(read.pending) \cup LogsIn(read.socket))
      /\ Before(LogsIn(read.pending), LogsIn(read.socket))
  BY <1>1, NextIsFirst
<1>3. producer.step = "receive" /\ producer # Down /\ Waiting = {}
  BY <1>1 DEF Receiving, Down, Waiting
<1>4. message.kind = "log" => item \in Logs
  BY <1>2, MessageKinds
<1>5. Coming = LogOf(message) \cup LogsIn(read.pending) \cup LogsIn(read.socket)
  BY <1>2, <1>3 DEF Coming
<1> DEFINE Kept == pending' = read.pending /\ socket' = read.socket
<1>6. \/ Leave
      \/ /\ message.kind = "confirmation" \/ (message.kind = "log" /\ BlockOf[item] = 0)
         /\ Kept
         /\ UNCHANGED <<producer, emitted, delivered, published>>
      \/ /\ message.kind = "log" /\ BlockOf[item] # 0 /\ Kept /\ Publish(item)
         /\ UNCHANGED <<producer, emitted, delivered>>
      \/ /\ message.kind = "log" /\ BlockOf[item] # 0 /\ Kept
         /\ producer' = [step |-> "lookup", log |-> item]
         /\ UNCHANGED <<emitted, delivered, published>>
  BY DEF Receive
<1> HIDE DEF read, message
<1>7. CASE Leave
  BY <1>7, LeaveStep DEF Leave
<1>8. CASE /\ message.kind = "confirmation" \/ (message.kind = "log" /\ BlockOf[item] = 0)
           /\ Kept
           /\ UNCHANGED <<producer, emitted, delivered, published>>
  <2>1. Waiting' = {} /\ Coming' = LogsIn(read.pending) \cup LogsIn(read.socket)
    BY <1>3, <1>8 DEF Waiting, Coming
  <2>2. Coming' \subseteq Coming /\ UsableOf(Coming) \subseteq Coming'
    BY <1>5, <1>8, <2>1 DEF UsableOf, Usable, LogOf
  <2>3. ProducerTypes' /\ producer' # Down /\ producer'.step # "lookup"
    BY <1>0, <1>2, <1>3, <1>8 DEF ProducerTypes
  <2>4. /\ InLogOrder(pending') /\ InLogOrder(socket')
        /\ Before(Waiting', LogsIn(pending') \cup LogsIn(socket'))
        /\ Before(LogsIn(pending'), LogsIn(socket'))
    BY <1>2, <1>8, <2>1 DEF Before
  <2> QED
    BY <1>8, <2>2, <2>3, <2>4, OnlyMoved
<1>9. CASE /\ message.kind = "log" /\ BlockOf[item] # 0 /\ Kept /\ Publish(item)
           /\ UNCHANGED <<producer, emitted, delivered>>
  <2>1. item \in Logs /\ LogOf(message) = {item}
    BY <1>4, <1>9 DEF LogOf
  <2>2. Waiting' = {} /\ Coming' = LogsIn(read.pending) \cup LogsIn(read.socket)
    BY <1>3, <1>9 DEF Waiting, Coming
  <2>3. Coming = {item} \cup Coming' /\ Before({item}, Coming')
    BY <1>2, <1>5, <2>1, <2>2
  <2>4. published' \in Seq(Logs)
    BY <1>0, <1>9, <2>1, AppendRange DEF Publish, ProducerTypes
  <2>5. ProducerTypes'
    BY <1>0, <1>2, <1>9, <2>4 DEF ProducerTypes
  <2>6. /\ InLogOrder(pending') /\ InLogOrder(socket')
        /\ Before(LogsIn(pending'), LogsIn(socket'))
    BY <1>2, <1>9
  <2> HIDE DEF item
  <2> QED
    BY <1>1, <1>9, <2>1, <2>2, <2>3, <2>5, <2>6, FirstIsPublished
<1>10. CASE /\ message.kind = "log" /\ BlockOf[item] # 0 /\ Kept
            /\ producer' = [step |-> "lookup", log |-> item]
            /\ UNCHANGED <<emitted, delivered, published>>
  <2>1. item \in Logs /\ LogOf(message) = {item}
    BY <1>4, <1>10 DEF LogOf
  <2>2. producer'.step = "lookup" /\ producer'.log = item /\ producer' # Down
    BY <1>10 DEF Down
  <2>3. Waiting' = {item}
    BY <2>2 DEF Waiting
  <2>4. Coming' = Coming
    BY <1>5, <1>10, <2>1, <2>3 DEF Coming
  <2>5. ProducerTypes'
    BY <1>0, <1>2, <1>10, <2>1 DEF ProducerTypes
  <2>6. /\ InLogOrder(pending') /\ InLogOrder(socket')
        /\ Before(Waiting', LogsIn(pending') \cup LogsIn(socket'))
        /\ Before(LogsIn(pending'), LogsIn(socket'))
    BY <1>2, <1>10, <2>1, <2>3
  <2> QED
    BY <1>10, <2>2, <2>4, <2>5, <2>6, OnlyMoved DEF UsableOf
<1> QED
  BY <1>6, <1>7, <1>8, <1>9, <1>10

LEMMA AwaitStep ==
  ASSUME ProducerInv, Await
  PROVE  ProducerInv'
<1>0. ProducerTypes /\ OneAfterAnother
  BY DEF ProducerInv
<1> DEFINE message == Head(socket)
           item == producer.log
<1>1. /\ producer.step = "lookup" /\ socket # <<>> /\ producer # Down
      /\ item \in Logs /\ BlockOf[item] # 0
  BY <1>0 DEF Await, ProducerInv, ProducerTypes, Down, Receiving
<1>2. /\ message \in Wire /\ Tail(socket) \in Seq(Wire)
      /\ LogsIn(socket) = LogOf(message) \cup LogsIn(Tail(socket))
      /\ InLogOrder(Tail(socket)) /\ Before(LogOf(message), LogsIn(Tail(socket)))
  BY <1>0, <1>1, HeadLogs DEF ProducerTypes, OneAfterAnother
<1>3. Waiting = {item}
  BY <1>1 DEF Waiting
<1>4. /\ InLogOrder(pending)
      /\ Before({item}, LogsIn(pending) \cup LogsIn(socket))
      /\ Before(LogsIn(pending), LogsIn(socket))
  BY <1>0, <1>3 DEF OneAfterAnother
<1>5. \/ Leave
      \/ /\ message.kind = "block" /\ socket' = Tail(socket) /\ Publish(item)
         /\ producer' = Receiving /\ UNCHANGED <<emitted, pending, delivered>>
      \/ /\ socket' = Tail(socket) /\ pending' = Append(pending, message)
         /\ UNCHANGED <<emitted, producer, delivered, published>>
  BY DEF Await
<1> HIDE DEF message, item
<1>6. CASE Leave
  <2>1. emitted' = emitted
    BY <1>6 DEF Leave
  <2> QED
    BY <1>6, <2>1, LeaveStep DEF Leave
<1>7. CASE /\ message.kind = "block" /\ socket' = Tail(socket) /\ Publish(item)
           /\ producer' = Receiving /\ UNCHANGED <<emitted, pending, delivered>>
  <2>1. LogOf(message) = {}
    BY <1>7 DEF LogOf
  <2>2. Waiting' = {} /\ Coming' = LogsIn(pending) \cup LogsIn(socket)
    BY <1>2, <1>7, <2>1 DEF Waiting, Coming, Receiving
  <2>3. Coming = {item} \cup Coming' /\ Before({item}, Coming')
    BY <1>3, <1>4, <2>2 DEF Coming
  <2>4. published' \in Seq(Logs)
    BY <1>0, <1>1, <1>7, AppendRange, ZenonT(40) DEF Publish, ProducerTypes
  <2>5. ProducerTypes'
    BY <1>0, <1>2, <1>7, <2>4 DEF ProducerTypes
  <2>6. /\ InLogOrder(pending') /\ InLogOrder(socket')
        /\ Before(LogsIn(pending'), LogsIn(socket'))
    BY <1>2, <1>4, <1>7, <2>1
  <2> QED
    BY <1>1, <1>7, <2>2, <2>3, <2>5, <2>6, FirstIsPublished
<1>8. CASE /\ socket' = Tail(socket) /\ pending' = Append(pending, message)
           /\ UNCHANGED <<emitted, producer, delivered, published>>
  <2>1. /\ pending' \in Seq(Wire)
        /\ LogsIn(pending') = LogsIn(pending) \cup LogOf(message)
        /\ InLogOrder(pending')
    <3>1. Before(LogsIn(pending), LogOf(message))
      BY <1>2, <1>4 DEF Before
    <3> QED
      BY <1>0, <1>2, <1>4, <1>8, <3>1, AppendLogs DEF ProducerTypes
  <2>2. Waiting' = Waiting /\ Coming' = Coming
    BY <1>2, <1>8, <2>1 DEF Waiting, Coming
  <2>3. /\ ProducerTypes' /\ producer' # Down
        /\ producer'.step = "lookup" => BlockOf[producer'.log] # 0
    BY <1>0, <1>1, <1>2, <1>8, <2>1 DEF ProducerTypes, item
  <2>4. /\ InLogOrder(socket')
        /\ Before(Waiting', LogsIn(pending') \cup LogsIn(socket'))
        /\ Before(LogsIn(pending'), LogsIn(socket'))
    BY <1>2, <1>3, <1>4, <1>8, <2>1, <2>2 DEF Before
  <2>5. Coming' \subseteq Coming /\ UsableOf(Coming) \subseteq Coming'
    BY <2>2 DEF UsableOf
  <2>6. UNCHANGED <<emitted, delivered, published>>
    BY <1>8
  <2> QED
    BY <2>1, <2>3, <2>4, <2>5, <2>6, OnlyMoved
<1> QED
  BY <1>5, <1>6, <1>7, <1>8

LEMMA ProducerInvStep ==
  ASSUME ProducerInv, [ProducerNext]_producerVars
  PROVE  ProducerInv'
<1>0. ProducerTypes /\ OneAfterAnother /\ NothingIsLost
  BY DEF ProducerInv
<1>1. CASE Connect
  <2>1. /\ producer = Down /\ producer' = Receiving
        /\ UNCHANGED <<emitted, socket, pending, delivered, published>>
    BY <1>0, <1>1 DEF Connect, Up, ProducerTypes, Receiving
  <2>2. producer.step = "down" /\ producer'.step = "receive" /\ producer' # Down
    BY <2>1 DEF Down, Receiving
  <2>3. Waiting = {} /\ Waiting' = {} /\ Coming' = Coming
    BY <2>1, <2>2 DEF Waiting, Coming
  <2>4. ProducerTypes'
    BY <1>0, <2>1 DEF ProducerTypes
  <2>5. /\ InLogOrder(pending') /\ InLogOrder(socket')
        /\ Before(Waiting', LogsIn(pending') \cup LogsIn(socket'))
        /\ Before(LogsIn(pending'), LogsIn(socket'))
    BY <1>0, <2>1, <2>3 DEF OneAfterAnother, Before
  <2> QED
    BY <2>1, <2>2, <2>3, <2>4, <2>5, OnlyMoved DEF UsableOf
<1>2. CASE Interrupt \/ KillProducer
  <2>1. /\ emitted' = emitted /\ producer' = Down
        /\ socket' = <<>> /\ pending' = <<>> /\ requests' = {}
        /\ delivered' = <<>> /\ published' = <<>>
    BY <1>2 DEF Interrupt, Leave, KillProducer
  <2> QED
    BY <2>1, LeaveStep
<1>3. CASE Deliver \/ UNCHANGED producerVars
  <2>1. UNCHANGED <<emitted, socket, pending, requests, producer, delivered, published>>
    BY <1>3 DEF Deliver, producerVars
  <2>2. Waiting' = Waiting /\ Coming' = Coming
    BY <2>1 DEF Waiting, Coming
  <2>3. ProducerTypes' /\ DownIsEmpty'
    BY <2>1 DEF ProducerInv, ProducerTypes, DownIsEmpty
  <2>4. OneAfterAnother'
    BY <1>0, <2>1, <2>2 DEF OneAfterAnother, Before, Increasing
  <2>5. NothingIsLost'
    BY <1>0, <2>1, <2>2 DEF NothingIsLost, UsableOf, Usable
  <2> QED
    BY <2>1, <2>3, <2>4, <2>5 DEF ProducerInv
<1> QED
  BY <1>1, <1>2, <1>3, EmitStep, AnswerStep, ReceiveStep, AwaitStep DEF ProducerNext

\* What comes, read off the queues, is what is on the way.
LEMMA ComingIsOnTheWay ==
  ASSUME ProducerInv
  PROVE  LogsIn(OnTheWay) = Coming /\ InLogOrder(OnTheWay)
<1>0. ProducerTypes /\ OneAfterAnother
  BY DEF ProducerInv
<1> DEFINE m == Message("log", producer.log)
           w == IF producer.step = "lookup" THEN <<m>> ELSE <<>>
<1>1. w \in Seq(Wire) /\ LogsIn(w) = Waiting /\ InLogOrder(w)
  <2>1. CASE producer.step = "lookup"
    <3>1. producer.log \in Logs
      BY <1>0, <2>1 DEF ProducerTypes, Down, Receiving
    <3>2. m \in Wire /\ LogOf(m) = {producer.log}
      BY <3>1, MessageKinds DEF LogOf
    <3> HIDE DEF m
    <3>3. w = Append(<<>>, m) /\ <<>> \in Seq(Wire)
      BY <2>1
    <3>4. Before(LogsIn(<<>>), LogOf(m))
      BY EmptyLogs DEF Before
    <3>5. /\ Append(<<>>, m) \in Seq(Wire)
          /\ LogsIn(Append(<<>>, m)) = LogsIn(<<>>) \cup LogOf(m)
          /\ InLogOrder(Append(<<>>, m))
      BY <3>2, <3>3, <3>4, AppendLogs, EmptyLogs
    <3> QED
      BY <2>1, <3>2, <3>3, <3>5, EmptyLogs DEF Waiting
  <2>2. CASE producer.step # "lookup"
    BY <2>2, EmptyLogs DEF Waiting
  <2> QED
    BY <2>1, <2>2
<1> HIDE DEF w
<1>2. /\ w \o pending \in Seq(Wire) /\ LogsIn(w \o pending) = Waiting \cup LogsIn(pending)
      /\ InLogOrder(w \o pending)
  <2>1. Before(LogsIn(w), LogsIn(pending))
    BY <1>0, <1>1 DEF OneAfterAnother, Before
  <2> QED
    BY <1>0, <1>1, <2>1, ConcatLogs DEF ProducerTypes, OneAfterAnother
<1> DEFINE v == w \o pending
<1>3. v \in Seq(Wire) /\ LogsIn(v) = Waiting \cup LogsIn(pending) /\ InLogOrder(v)
  BY <1>2
<1> HIDE DEF v
<1>4. /\ LogsIn(v \o socket) = Waiting \cup LogsIn(pending) \cup LogsIn(socket)
      /\ InLogOrder(v \o socket)
  <2>1. Before(LogsIn(v), LogsIn(socket))
    BY <1>0, <1>3 DEF OneAfterAnother, Before
  <2> QED
    BY <1>0, <1>3, <2>1, ConcatLogs DEF ProducerTypes, OneAfterAnother
<1> QED
  BY <1>4 DEF OnTheWay, Coming, v, w

\* For any logs, blocks, cache and buffer: a connection publishes the usable logs sent over it
\* once each and in their order, the rest of them being on their way behind what is published,
\* however answers, confirmations and logs mix on the socket (AlchemyClient.receive,
\* get_block_timestamp, run_producer).
THEOREM LogsArePublishedInOrder == ProducerSpec => []PublishedInOrder
<1>1. ProducerInit => ProducerInv
  <2> SUFFICES ASSUME ProducerInit PROVE ProducerInv
    OBVIOUS
  <2>1. producer.step = "down"
    BY DEF ProducerInit, Down
  <2>2. ProducerTypes
    BY MaxLogAssumption, EmptySeq DEF ProducerInit, ProducerTypes
  <2>3. LogsIn(pending) = {} /\ LogsIn(socket) = {} /\ InLogOrder(pending) /\ InLogOrder(socket)
    BY EmptyLogs DEF ProducerInit
  <2>4. Waiting = {} /\ Coming = {}
    BY <2>1, <2>3 DEF Waiting, Coming
  <2>5. Range(published) = {} /\ Range(delivered) = {} /\ Increasing(published)
    BY DEF ProducerInit, Range, Increasing
  <2>6. OneAfterAnother /\ NothingIsLost
    BY <2>3, <2>4, <2>5 DEF OneAfterAnother, NothingIsLost, Before, UsableOf
  <2> QED
    BY <2>1, <2>2, <2>6 DEF ProducerInv, DownIsEmpty, ProducerInit
<1>2. ProducerInv /\ [ProducerNext]_producerVars => ProducerInv'
  BY ProducerInvStep
<1>3. ProducerInv => PublishedInOrder
  <2> SUFFICES ASSUME ProducerInv PROVE PublishedInOrder
    OBVIOUS
  <2>1. LogsIn(OnTheWay) = Coming /\ InLogOrder(OnTheWay)
    BY ComingIsOnTheWay
  <2> QED
    BY <2>1 DEF ProducerInv, OneAfterAnother, NothingIsLost, PublishedInOrder, UsableOf, Before,
                Increasing
<1> QED
  BY <1>1, <1>2, <1>3, PTL DEF ProducerSpec

--------------------------------------------------------------------------------
\* ---- BronzeStreams ----

Records == Swaps \cup OtherEvents \cup {"observation", "malformed"}

StreamStates == [step : {"new", "down", "ready", "planned", "written", "sunk"},
                 first : 0 .. MaxTopic, committed : 0 .. MaxTopic, planned : 0 .. MaxTopic]

Files == [from : Nat, to : Nat, whole : BOOLEAN]

StreamsTypes ==
  /\ log = [t \in Topics |-> log[t]]
  /\ \A t \in Topics : log[t] \in Seq(Records) /\ Len(log[t]) <= MaxTopic
  /\ stream \in [Topics -> StreamStates]
  /\ files \in Seq(Files)
  /\ silver \in [Swaps -> 0 .. MaxTopic]

\* A stream's offsets follow one another, up to the end of its topic.
OffsetsAreInOrder ==
  \A t \in Topics : /\ stream[t].first <= stream[t].committed
                    /\ stream[t].committed <= stream[t].planned
                    /\ stream[t].planned <= Len(log[t])

\* Between the write and the commit the last file is the one of the batch.
BatchIsInFile ==
  stream["events"].step \in {"written", "sunk"} =>
    /\ files # <<>>
    /\ files[Len(files)].from = stream["events"].committed + 1
    /\ files[Len(files)].to = stream["events"].planned
    /\ stream["events"].step = "sunk" => files[Len(files)].whole

\* What write_market_data_batch has appended of the batch before it returns.
BatchIsAppended ==
  /\ stream["market"].step \in {"written", "sunk"} => Valid(Batch("market")) \subseteq marketBronze
  /\ stream["market"].step = "sunk" =>
       Batch("market") \ Valid(Batch("market")) \subseteq marketQuarantine

FilesEndInTheLog == \A i \in DOMAIN files : files[i].to <= Len(log["events"])

ListedAreFiles == manifest \subseteq DOMAIN files /\ build.selected \subseteq DOMAIN files

\* A merge is in Silver before its files are listed, and Silver keeps the newest copies.
SavedIsMerged ==
  build.step = "save" =>
    \A s \in Swaps : \A o \in Copies(s, build.selected) : silver[s] >= o

StreamsInv ==
  /\ StreamsTypes
  /\ OffsetsAreInOrder
  /\ BatchIsInFile
  /\ BatchIsAppended
  /\ FilesEndInTheLog
  /\ ListedAreFiles
  /\ SavedIsMerged
  /\ CommittedIsKept

--------------------------------------------------------------------------------

LEMMA TopicNames ==
  "events" \in Topics /\ "market" \in Topics \ {"events"} /\ "events" \in Topics \ {"market"}
BY DEF Topics

\* What the types say of the parts the properties look at.
LEMMA StreamFacts ==
  ASSUME StreamsTypes
  PROVE  /\ \A t \in Topics : Len(log[t]) \in Nat /\ DOMAIN log[t] = 1 .. Len(log[t])
         /\ \A t \in Topics : /\ stream[t].first \in Nat /\ stream[t].committed \in Nat
                              /\ stream[t].planned \in Nat
         /\ Len(files) \in Nat /\ DOMAIN files = 1 .. Len(files)
         /\ \A i \in DOMAIN files : files[i].from \in Nat /\ files[i].to \in Nat
         /\ \A s \in Swaps : silver[s] \in Nat
<1>1. \A t \in Topics : Len(log[t]) \in Nat /\ DOMAIN log[t] = 1 .. Len(log[t])
  BY LenProperties DEF StreamsTypes
<1>2. \A t \in Topics : /\ stream[t].first \in Nat /\ stream[t].committed \in Nat
                        /\ stream[t].planned \in Nat
  BY StreamBoundsAssumption DEF StreamsTypes, StreamStates
<1>3. /\ Len(files) \in Nat /\ DOMAIN files = 1 .. Len(files)
      /\ \A i \in 1 .. Len(files) : files[i] \in Files
  BY LenProperties, ElementOfSeq DEF StreamsTypes
<1>4. \A i \in DOMAIN files : files[i].from \in Nat /\ files[i].to \in Nat
  BY <1>3 DEF Files
<1>5. \A s \in Swaps : silver[s] \in Nat
  BY StreamBoundsAssumption DEF StreamsTypes
<1> QED
  BY <1>1, <1>2, <1>3, <1>4, <1>5

\* A topic that only grew.
Grown(old, new) ==
  /\ Len(old) <= Len(new)
  /\ \A o \in 1 .. Len(old) : new[o] = old[o]

\* Copies, of any topic and any files.
CopiesIn(records, list, s, selected) ==
  {o \in Offsets : /\ o <= Len(records) /\ records[o] = s
                   /\ \E i \in selected : o \in list[i].from .. list[i].to}

\* A copy lies in the topic already, so growth behind the files adds none.
LEMMA CopiesOfGrown ==
  ASSUME NEW old, NEW new, Grown(old, new), Len(old) \in Nat, Len(new) \in Nat,
         NEW list, NEW selected, NEW s,
         \A i \in selected : list[i].from \in Nat /\ list[i].to \in Nat /\ list[i].to <= Len(old)
  PROVE  CopiesIn(new, list, s, selected) = CopiesIn(old, list, s, selected)
<1> SUFFICES ASSUME NEW o \in Offsets, NEW i \in selected, o \in list[i].from .. list[i].to
             PROVE  (o <= Len(new) /\ new[o] = s) <=> (o <= Len(old) /\ old[o] = s)
  BY DEF CopiesIn
<1>1. o \in 1 .. Len(old)
  BY StreamBoundsAssumption DEF Offsets
<1> QED
  BY <1>1 DEF Grown

\* Records that arrive behind what the streams have planned change nothing they hold.
LEMMA LogStep ==
  ASSUME StreamsInv, StreamsTypes',
         \A t \in Topics : Grown(log[t], log'[t]),
         UNCHANGED <<stream, files, marketBronze, marketQuarantine, silver, manifest, build>>
  PROVE  StreamsInv'
<1>0. StreamsTypes /\ OffsetsAreInOrder /\ FilesEndInTheLog /\ ListedAreFiles
  BY DEF StreamsInv
<1>1. \A t \in Topics : Len(log[t]) \in Nat /\ Len(log'[t]) \in Nat
  BY <1>0, LenProperties DEF StreamsTypes
<1>2. \A t \in Topics : Len(log[t]) <= Len(log'[t])
                        /\ \A o \in 1 .. Len(log[t]) : log'[t][o] = log[t][o]
  BY DEF Grown
<1>3. \A t \in Topics : /\ stream[t].first \in Nat /\ stream[t].committed \in Nat
                        /\ stream[t].planned \in Nat
  BY <1>0, StreamFacts
<1>4. OffsetsAreInOrder'
  BY <1>0, <1>1, <1>2, <1>3 DEF OffsetsAreInOrder
<1>5. BatchIsInFile' /\ ListedAreFiles'
  BY DEF StreamsInv, BatchIsInFile, ListedAreFiles
<1>6. \A i \in DOMAIN files : files[i].to \in Nat /\ files[i].from \in Nat
  BY <1>0, StreamFacts
<1>7. FilesEndInTheLog'
  BY <1>0, <1>1, <1>2, <1>6, TopicNames DEF FilesEndInTheLog
<1>8. \A s, selected : selected \subseteq DOMAIN files =>
        CopiesIn(log'["events"], files, s, selected) = CopiesIn(log["events"], files, s, selected)
  <2> TAKE s, selected
  <2> HAVE selected \subseteq DOMAIN files
  <2>1. \A i \in selected : /\ files[i].from \in Nat /\ files[i].to \in Nat
                            /\ files[i].to <= Len(log["events"])
    BY <1>0, <1>6 DEF FilesEndInTheLog
  <2> DEFINE old == log["events"]
             new == log'["events"]
  <2>2. Grown(old, new) /\ Len(old) \in Nat /\ Len(new) \in Nat
    BY <1>1, TopicNames
  <2>3. \A i \in selected : /\ files[i].from \in Nat /\ files[i].to \in Nat
                            /\ files[i].to <= Len(old)
    BY <2>1
  <2> HIDE DEF old, new
  <2>4. CopiesIn(new, files, s, selected) = CopiesIn(old, files, s, selected)
    BY <2>2, <2>3, CopiesOfGrown
  <2> QED
    BY <2>4, Zenon DEF old, new
<1>9. SavedIsMerged'
  <2>1. build.step = "save" => \A s \in Swaps :
          \A o \in CopiesIn(log["events"], files, s, build.selected) : silver[s] >= o
    BY DEF StreamsInv, SavedIsMerged, Copies, CopiesIn
  <2>2. build.step = "save" => \A s \in Swaps :
          \A o \in CopiesIn(log'["events"], files, s, build.selected) : silver[s] >= o
    BY <1>0, <1>8, <2>1 DEF ListedAreFiles
  <2> QED
    BY <2>2 DEF SavedIsMerged, Copies, CopiesIn
<1>10. \A o \in Nat : 1 <= o /\ o <= stream["market"].planned
                      => log'["market"][o] = log["market"][o]
  BY <1>0, <1>1, <1>2, <1>3, TopicNames DEF OffsetsAreInOrder
<1>11. BatchIsAppended'
  <2>1. \A o \in Batch("market") : log'["market"][o] = log["market"][o]
    BY <1>3, <1>10, TopicNames DEF Batch
  <2>2. Batch("market")' = Batch("market") /\ Valid(Batch("market"))' = Valid(Batch("market"))
    BY <2>1 DEF Batch, Valid
  <2> QED
    BY <2>2 DEF StreamsInv, BatchIsAppended
<1>12. CommittedIsKept'
  <2>1. \A o \in Consumed("market") : log'["market"][o] = log["market"][o]
    BY <1>0, <1>3, <1>10, TopicNames, SMTT(30) DEF Consumed, OffsetsAreInOrder
  <2>2. \A s \in Swaps : \A o \in CopiesIn(log'["events"], files, s, manifest) : silver[s] >= o
    BY <1>0, <1>8 DEF StreamsInv, CommittedIsKept, ListedAreFiles, Copies, CopiesIn
  <2>3. \A s \in Swaps : \A o \in Copies(s, manifest)' : silver'[s] >= o
    BY <2>2 DEF Copies, CopiesIn
  <2> QED
    BY <2>1, <2>3 DEF StreamsInv, CommittedIsKept, Consumed
<1> QED
  BY <1>4, <1>5, <1>7, <1>9, <1>11, <1>12 DEF StreamsInv

\* A stream that starts, plans, commits or dies: it commits past nothing but what it had
\* committed and, once the batch is sunk, the batch.
LEMMA StreamStep ==
  ASSUME StreamsInv, NEW t \in Topics, NEW r \in StreamStates,
         stream' = [stream EXCEPT ![t] = r],
         r.first <= r.committed, r.committed <= r.planned, r.planned <= Len(log[t]),
         r.step \notin {"written", "sunk"},
         \A o \in (r.first + 1) .. r.committed :
            o \in Consumed(t) \/ (stream[t].step = "sunk" /\ o \in Batch(t)),
         marketBronze \subseteq marketBronze', marketQuarantine \subseteq marketQuarantine',
         UNCHANGED <<log, files, silver, manifest, build>>
  PROVE  StreamsInv'
<1>0. StreamsTypes /\ OffsetsAreInOrder /\ BatchIsInFile /\ BatchIsAppended /\ CommittedIsKept
  BY DEF StreamsInv
<1>1. stream'[t] = r /\ \A u \in Topics \ {t} : stream'[u] = stream[u]
  BY <1>0 DEF StreamsTypes
<1>2. StreamsTypes'
  BY <1>0 DEF StreamsTypes
<1>3. OffsetsAreInOrder'
  BY <1>0, <1>1 DEF OffsetsAreInOrder
<1>4. BatchIsInFile'
  <2>1. CASE t = "events"
    BY <1>1, <2>1 DEF BatchIsInFile
  <2>2. CASE t # "events"
    <3>1. stream'["events"] = stream["events"]
      BY <1>1, <2>2, TopicNames
    <3> QED
      BY <1>0, <3>1 DEF BatchIsInFile
  <2> QED
    BY <2>1, <2>2
<1>5. BatchIsAppended'
  <2>1. CASE t = "market"
    BY <1>1, <2>1 DEF BatchIsAppended
  <2>2. CASE t # "market"
    <3>1. stream'["market"] = stream["market"]
      BY <1>1, <2>2, TopicNames
    <3>2. Batch("market")' = Batch("market") /\ Valid(Batch("market"))' = Valid(Batch("market"))
      BY <3>1 DEF Batch, Valid
    <3> QED
      BY <1>0, <3>1, <3>2 DEF BatchIsAppended
  <2> QED
    BY <2>1, <2>2
<1>6. FilesEndInTheLog' /\ ListedAreFiles'
  BY DEF StreamsInv, FilesEndInTheLog, ListedAreFiles
<1>7. SavedIsMerged'
  BY DEF StreamsInv, SavedIsMerged, Copies
<1>8. CommittedIsKept'
  <2>1. \A u \in Topics : \A o \in Consumed(u)' :
          o \in Consumed(u) \/ (stream[u].step = "sunk" /\ o \in Batch(u))
    <3> SUFFICES ASSUME NEW u \in Topics
                 PROVE  \A o \in Consumed(u)' :
                          o \in Consumed(u) \/ (stream[u].step = "sunk" /\ o \in Batch(u))
      OBVIOUS
    <3>1. CASE u = t
      BY <1>1, <3>1 DEF Consumed
    <3>2. CASE u # t
      BY <1>1, <3>2 DEF Consumed
    <3> QED
      BY <3>1, <3>2
  <2>2. ASSUME NEW o \in Consumed("events")'
        PROVE  \E i \in DOMAIN files : files[i].whole /\ o \in files[i].from .. files[i].to
    <3>1. CASE o \in Consumed("events")
      BY <1>0, <3>1 DEF CommittedIsKept
    <3>2. CASE stream["events"].step = "sunk" /\ o \in Batch("events")
      <4>1. files # <<>> /\ files[Len(files)].whole
            /\ o \in files[Len(files)].from .. files[Len(files)].to
        BY <1>0, <3>2 DEF BatchIsInFile, Batch
      <4>2. Len(files) \in DOMAIN files
        BY <1>0, <4>1, StreamFacts, EmptySeq DEF StreamsTypes
      <4> QED
        BY <4>1, <4>2
    <3> QED
      BY <2>1, <2>2, <3>1, <3>2, TopicNames
  <2>3. ASSUME NEW o \in Consumed("market")'
        PROVE  o \in (IF log["market"][o] = "observation" THEN marketBronze ELSE marketQuarantine)
    <3>1. CASE o \in Consumed("market")
      BY <1>0, <3>1 DEF CommittedIsKept
    <3>2. CASE stream["market"].step = "sunk" /\ o \in Batch("market")
      BY <1>0, <3>2 DEF BatchIsAppended, Valid
    <3> QED
      BY <2>1, <2>3, <3>1, <3>2, TopicNames
  <2>4. \A s \in Swaps : \A o \in Copies(s, manifest)' : silver'[s] >= o
    BY <1>0 DEF CommittedIsKept, Copies
  <2>5. \A o \in Consumed("events")' :
          \E i \in DOMAIN files' : files'[i].whole /\ o \in files'[i].from .. files'[i].to
    BY <2>2
  <2>6. \A o \in Consumed("market")' :
          o \in (IF log'["market"][o] = "observation" THEN marketBronze' ELSE marketQuarantine')
    BY <2>3
  <2> QED
    BY <2>4, <2>5, <2>6 DEF CommittedIsKept
<1> QED
  BY <1>2, <1>3, <1>4, <1>5, <1>6, <1>7, <1>8 DEF StreamsInv

\* Steps of the head, the poller and nobody.
LEMMA SameStep ==
  ASSUME StreamsInv,
         UNCHANGED <<log, stream, files, marketBronze, marketQuarantine, silver, manifest, build>>
  PROVE  StreamsInv'
<1>1. StreamsTypes'
  BY DEF StreamsInv, StreamsTypes
<1>2. \A t \in Topics : Grown(log[t], log'[t])
  BY StreamFacts DEF StreamsInv, Grown
<1> QED
  BY <1>1, <1>2, LogStep

LEMMA PublishStep ==
  ASSUME StreamsInv, NEW t \in Topics, NEW record \in Records, Len(log[t]) < MaxTopic,
         log' = [log EXCEPT ![t] = Append(@, record)],
         UNCHANGED <<stream, files, marketBronze, marketQuarantine, silver, manifest, build>>
  PROVE  StreamsInv'
<1>0. StreamsTypes
  BY DEF StreamsInv
<1>1. /\ log'[t] = Append(log[t], record)
      /\ \A u \in Topics \ {t} : log'[u] = log[u]
      /\ log' = [u \in Topics |-> log'[u]]
  BY <1>0 DEF StreamsTypes
<1>2. log[t] \in Seq(Records) /\ Len(log[t]) \in Nat
  BY <1>0, StreamFacts DEF StreamsTypes
<1> DEFINE old == log[t]
           new == log'[t]
<1>3. /\ new \in Seq(Records) /\ Len(new) = Len(old) + 1
      /\ \A i \in 1 .. Len(old) : new[i] = old[i]
  BY <1>1, <1>2, AppendProperties
<1>4. \A u \in Topics : Grown(log[u], log'[u])
  BY <1>0, <1>1, <1>2, <1>3, StreamFacts DEF Grown
<1>5. StreamsTypes'
  BY <1>0, <1>1, <1>2, <1>3, StreamBoundsAssumption DEF StreamsTypes
<1> QED
  BY <1>4, <1>5, LogStep

\* A cycle of the poller appends an observation for each message that is delivered.
LEMMA PollStep ==
  ASSUME StreamsInv, Poll
  PROVE  StreamsInv'
<1>0. StreamsTypes
  BY DEF StreamsInv
<1>1. PICK block, sent, landed :
        /\ sent \in SUBSET NewRounds(block) /\ landed \in SUBSET sent
        /\ Len(log["market"]) + Cardinality(landed) <= MaxTopic
        /\ log' = [log EXCEPT !["market"] =
                     @ \o [i \in 1 .. Cardinality(landed) |-> "observation"]]
  BY DEF Poll
<1>2. PICK n \in Nat : n = Cardinality(landed)
  <2>1. landed \subseteq PollFeeds
    BY <1>1 DEF NewRounds
  <2> QED
    BY <2>1, PollFeedsAssumption, FS_Subset, FS_CardinalityType
<1> DEFINE old == log["market"]
           sentNow == [i \in 1 .. n |-> "observation"]
           new == log'["market"]
           R == Records
<1>3. /\ new = old \o sentNow /\ Len(old) + n <= MaxTopic
      /\ \A u \in Topics \ {"market"} : log'[u] = log[u]
      /\ log' = [u \in Topics |-> log'[u]]
  BY <1>0, <1>1, <1>2, TopicNames DEF StreamsTypes
<1>4. old \in Seq(R) /\ Len(old) \in Nat
  BY <1>0, TopicNames, StreamFacts DEF StreamsTypes
<1>5. sentNow \in Seq(R) /\ Len(sentNow) = n
  BY <1>2 DEF Records
<1>6. /\ new \in Seq(R) /\ Len(new) = Len(old) + n
      /\ \A i \in 1 .. Len(old) + n :
            new[i] = (IF i <= Len(old) THEN old[i] ELSE sentNow[i - Len(old)])
  <2> HIDE DEF old, sentNow, new, R
  <2>1. /\ old \o sentNow \in Seq(R) /\ Len(old \o sentNow) = Len(old) + Len(sentNow)
        /\ \A i \in 1 .. Len(old) + Len(sentNow) : (old \o sentNow)[i] =
              IF i <= Len(old) THEN old[i] ELSE sentNow[i - Len(old)]
    BY <1>4, <1>5, ConcatProperties, Zenon
  <2> QED
    BY <1>3, <1>5, <2>1
<1>7. \A i \in 1 .. Len(old) : new[i] = old[i]
  <2> HIDE DEF old, sentNow, new, R
  <2> QED
    BY <1>2, <1>4, <1>6
<1>8. \A u \in Topics : Grown(log[u], log'[u])
  <2>1. Grown(old, new)
    <3> HIDE DEF old, sentNow, new, R
    <3> QED
      BY <1>2, <1>4, <1>6, <1>7 DEF Grown
  <2> HIDE DEF sentNow, R
  <2> QED
    BY <1>0, <1>3, <2>1, StreamFacts DEF Grown
<1>9. StreamsTypes'
  <2>1. log'["market"] \in Seq(Records) /\ Len(log'["market"]) <= MaxTopic
    BY <1>3, <1>4, <1>6
  <2>2. UNCHANGED <<stream, files, silver>>
    BY DEF Poll
  <2> HIDE DEF old, sentNow, new, R
  <2> QED
    BY <1>0, <1>3, <2>1, <2>2 DEF StreamsTypes
<1>10. UNCHANGED <<stream, files, marketBronze, marketQuarantine, silver, manifest, build>>
  BY DEF Poll
<1> QED
  BY <1>8, <1>9, <1>10, LogStep

\* Starting, planning, committing and dying, topic by topic.
LEMMA StreamSteps ==
  ASSUME StreamsInv, NEW t \in Topics,
         StartStream(t) \/ PlanBatch(t) \/ CommitBatch(t) \/ KillStream(t)
  PROVE  StreamsInv'
<1>0. StreamsTypes /\ OffsetsAreInOrder
  BY DEF StreamsInv
<1> DEFINE s == stream[t]
           end == Len(log[t])
           R(step, first, committed, planned) ==
             [step |-> step, first |-> first, committed |-> committed, planned |-> planned]
<1>1. /\ s \in StreamStates /\ end \in Nat /\ end <= MaxTopic
      /\ s.first \in Nat /\ s.committed \in Nat /\ s.planned \in Nat
      /\ s.first <= s.committed /\ s.committed <= s.planned /\ s.planned <= end
  BY <1>0, StreamFacts DEF StreamsTypes, OffsetsAreInOrder
<1>2. \A step \in {"new", "down", "ready", "planned", "written", "sunk"} :
      \A first, committed, planned \in 0 .. MaxTopic :
        R(step, first, committed, planned) \in StreamStates
  BY DEF StreamStates
<1>3. \A o \in (s.first + 1) .. s.committed : o \in Consumed(t)
  BY DEF Consumed
<1>4. s = R(s.step, s.first, s.committed, s.planned)
  BY <1>1 DEF StreamStates
<1> DEFINE Follows(r) ==
             /\ r \in StreamStates
             /\ r.first <= r.committed /\ r.committed <= r.planned /\ r.planned <= end
             /\ r.step \notin {"written", "sunk"}
             /\ \A o \in (r.first + 1) .. r.committed :
                   o \in Consumed(t) \/ (s.step = "sunk" /\ o \in Batch(t))
<1>r. ASSUME NEW r, Follows(r), stream' = [stream EXCEPT ![t] = r],
             marketBronze \subseteq marketBronze', marketQuarantine \subseteq marketQuarantine',
             UNCHANGED <<log, files, silver, manifest, build>>
      PROVE  StreamsInv'
  BY <1>r, StreamStep
<1>5. CASE StartStream(t) /\ s.step = "new"
  <2> DEFINE r == R("ready", end, end, end)
  <2>1. stream' = [stream EXCEPT ![t] = r]
    BY <1>5 DEF StartStream
  <2>2. UNCHANGED <<log, files, marketBronze, marketQuarantine, silver, manifest, build>>
    BY <1>5 DEF StartStream
  <2>3. Follows(r)
    <3>1. r \in StreamStates
      BY <1>1, <1>2, StreamBoundsAssumption
    <3> HIDE DEF s, end
    <3> QED
      BY <1>1, <3>1
  <2> QED
    BY <1>r, <2>1, <2>2, <2>3
<1>6. CASE StartStream(t) /\ s.step = "down"
  <2> DEFINE step == IF s.planned > s.committed THEN "planned" ELSE "ready"
             r == R(step, s.first, s.committed, s.planned)
  <2>1. stream' = [stream EXCEPT ![t] = r]
    BY <1>0, <1>4, <1>6 DEF StartStream, StreamsTypes
  <2>2. UNCHANGED <<log, files, marketBronze, marketQuarantine, silver, manifest, build>>
    BY <1>6 DEF StartStream
  <2>3. Follows(r)
    <3>1. r \in StreamStates /\ s.committed <= s.planned /\ s.planned <= end
      BY <1>1, <1>2, StreamBoundsAssumption
    <3> HIDE DEF s, end
    <3> QED
      BY <1>1, <1>3, <3>1
  <2> QED
    BY <1>r, <2>1, <2>2, <2>3
<1>7. CASE PlanBatch(t)
  <2> DEFINE r == R("planned", s.first, s.committed, end)
  <2>1. stream' = [stream EXCEPT ![t] = r]
    <3>1. stream' = [stream EXCEPT ![t] = [s EXCEPT !.step = "planned", !.planned = end]]
      BY <1>7, Zenon DEF PlanBatch
    <3>2. [s EXCEPT !.step = "planned", !.planned = end] = r
      <4>1. /\ r \in [step : {"planned"}, first : 0 .. MaxTopic,
                     committed : 0 .. MaxTopic, planned : {end}]
            /\ r.first = s.first /\ r.committed = s.committed
        BY <1>1, StreamBoundsAssumption
      <4> HIDE DEF s, end, r
      <4> QED
        BY <1>1, <4>1 DEF StreamStates
    <3> QED
      BY <3>1, <3>2, Zenon
  <2>2. UNCHANGED <<log, files, marketBronze, marketQuarantine, silver, manifest, build>>
    BY <1>7 DEF PlanBatch
  <2>3. Follows(r)
    <3>1. s.committed <= end
      BY <1>1
    <3>2. r \in StreamStates
      BY <1>1, <1>2, StreamBoundsAssumption
    <3> HIDE DEF s, end
    <3> QED
      BY <1>1, <1>3, <3>1, <3>2
  <2> QED
    BY <1>r, <2>1, <2>2, <2>3
<1>8. CASE CommitBatch(t)
  <2> DEFINE r == R("ready", s.first, s.planned, s.planned)
  <2>1. stream' = [stream EXCEPT ![t] = r]
    <3>1. stream' = [stream EXCEPT ![t] = [s EXCEPT !.step = "ready", !.committed = s.planned]]
      BY <1>8, Zenon DEF CommitBatch
    <3>2. [s EXCEPT !.step = "ready", !.committed = s.planned] = r
      <4>1. /\ r \in [step : {"ready"}, first : 0 .. MaxTopic,
                     committed : {s.planned}, planned : 0 .. MaxTopic]
            /\ r.first = s.first /\ r.planned = s.planned
        BY <1>1, StreamBoundsAssumption
      <4> HIDE DEF s, end, r
      <4> QED
        BY <1>1, <4>1 DEF StreamStates
    <3> QED
      BY <3>1, <3>2, Zenon
  <2>2. UNCHANGED <<log, files, marketBronze, marketQuarantine, silver, manifest, build>>
    BY <1>8 DEF CommitBatch
  <2>3. \A o \in (s.first + 1) .. s.planned :
          o \in Consumed(t) \/ (stream[t].step = "sunk" /\ o \in Batch(t))
    BY <1>1, <1>8 DEF CommitBatch, Consumed, Batch
  <2>4. Follows(r)
    <3>1. r \in StreamStates
      BY <1>1, <1>2, StreamBoundsAssumption, SMTT(30)
    <3>2. \A o \in (s.first + 1) .. s.planned :
            o \in Consumed(t) \/ (s.step = "sunk" /\ o \in Batch(t))
      BY <2>3
    <3> HIDE DEF s, end
    <3>3. s.first <= s.planned
      BY <1>1
    <3> QED
      BY <1>1, <3>1, <3>2, <3>3
  <2> QED
    BY <1>r, <2>1, <2>2, <2>4
<1>9. CASE KillStream(t)
  <2> DEFINE r == R("down", s.first, s.committed, s.planned)
  <2>1. stream' = [stream EXCEPT ![t] = r]
    <3>1. stream' = [stream EXCEPT ![t] = [s EXCEPT !.step = "down"]]
      BY <1>9, Zenon DEF KillStream
    <3>2. [s EXCEPT !.step = "down"] = r
      BY <1>4
    <3> QED
      BY <3>1, <3>2, Zenon
  <2>2. UNCHANGED <<log, files, silver, manifest, build>>
    BY <1>9 DEF KillStream
  <2>3. marketBronze \subseteq marketBronze' /\ marketQuarantine \subseteq marketQuarantine'
    BY <1>9 DEF KillStream
  <2>4. Follows(r)
    <3>1. r \in StreamStates /\ s.committed <= s.planned /\ s.planned <= end
      BY <1>1, <1>2, StreamBoundsAssumption
    <3> HIDE DEF s, end
    <3> QED
      BY <1>1, <1>3, <3>1
  <2> QED
    BY <1>r, <2>1, <2>2, <2>3, <2>4
<1> QED
  BY <1>5, <1>6, <1>7, <1>8, <1>9 DEF StartStream

\* A file that appears or is finished: what was in the directory stays, and stays whole.
LEMMA FileStep ==
  ASSUME StreamsInv, StreamsTypes', BatchIsInFile', FilesEndInTheLog',
         \A t \in Topics : /\ stream'[t].first = stream[t].first
                           /\ stream'[t].committed = stream[t].committed
                           /\ stream'[t].planned = stream[t].planned,
         stream'["market"] = stream["market"],
         DOMAIN files \subseteq DOMAIN files',
         \A i \in DOMAIN files : /\ files'[i].from = files[i].from /\ files'[i].to = files[i].to
                                 /\ files[i].whole => files'[i].whole,
         UNCHANGED <<log, marketBronze, marketQuarantine, silver, manifest, build>>
  PROVE  StreamsInv'
<1>0. OffsetsAreInOrder /\ BatchIsAppended /\ ListedAreFiles /\ SavedIsMerged /\ CommittedIsKept
  BY DEF StreamsInv
<1>1. OffsetsAreInOrder' /\ ListedAreFiles'
  BY <1>0 DEF OffsetsAreInOrder, ListedAreFiles
<1>2. BatchIsAppended'
  <2>1. Batch("market")' = Batch("market") /\ Valid(Batch("market"))' = Valid(Batch("market"))
    BY DEF Batch, Valid
  <2> QED
    BY <1>0, <2>1 DEF BatchIsAppended
<1>3. \A s, selected : selected \subseteq DOMAIN files =>
        CopiesIn(log["events"], files', s, selected) = CopiesIn(log["events"], files, s, selected)
  BY DEF CopiesIn
<1>4. \A s : /\ CopiesIn(log["events"], files', s, manifest)
                  = CopiesIn(log["events"], files, s, manifest)
             /\ CopiesIn(log["events"], files', s, build.selected)
                  = CopiesIn(log["events"], files, s, build.selected)
  BY <1>0, <1>3 DEF ListedAreFiles
<1>5. SavedIsMerged'
  <2>1. build.step = "save" => \A s \in Swaps :
          \A o \in CopiesIn(log["events"], files', s, build.selected) : silver[s] >= o
    BY <1>0, <1>4 DEF SavedIsMerged, Copies, CopiesIn
  <2> QED
    BY <2>1 DEF SavedIsMerged, Copies, CopiesIn
<1>6. CommittedIsKept'
  <2>1. Consumed("events")' = Consumed("events") /\ Consumed("market")' = Consumed("market")
    BY TopicNames DEF Consumed
  <2>2. \A o \in Consumed("events")' :
          \E i \in DOMAIN files' : files'[i].whole /\ o \in files'[i].from .. files'[i].to
    <3> SUFFICES ASSUME NEW o \in Consumed("events")
                 PROVE  \E i \in DOMAIN files' :
                           files'[i].whole /\ o \in files'[i].from .. files'[i].to
      BY <2>1
    <3>1. PICK i \in DOMAIN files : files[i].whole /\ o \in files[i].from .. files[i].to
      BY <1>0 DEF CommittedIsKept
    <3> QED
      BY <3>1
  <2>3. \A o \in Consumed("market")' :
          o \in (IF log'["market"][o] = "observation" THEN marketBronze' ELSE marketQuarantine')
    BY <1>0, <2>1 DEF CommittedIsKept
  <2>4. \A s \in Swaps : \A o \in CopiesIn(log["events"], files', s, manifest) : silver[s] >= o
    BY <1>0, <1>4, ZenonT(40) DEF CommittedIsKept, Copies, CopiesIn
  <2>5. \A s \in Swaps : \A o \in Copies(s, manifest)' : silver'[s] >= o
    BY <2>4 DEF Copies, CopiesIn
  <2> QED
    BY <2>2, <2>3, <2>5 DEF CommittedIsKept
<1> QED
  BY <1>1, <1>2, <1>5, <1>6 DEF StreamsInv

\* A stream takes a step name and keeps its offsets.
LEMMA StepOnly ==
  ASSUME StreamsTypes, NEW t \in Topics,
         NEW step \in {"new", "down", "ready", "planned", "written", "sunk"},
         stream' = [stream EXCEPT ![t].step = step]
  PROVE  /\ stream' \in [Topics -> StreamStates]
         /\ stream'[t].step = step
         /\ \A u \in Topics : /\ stream'[u].first = stream[u].first
                              /\ stream'[u].committed = stream[u].committed
                              /\ stream'[u].planned = stream[u].planned
         /\ \A u \in Topics \ {t} : stream'[u] = stream[u]
<1>1. stream \in [Topics -> StreamStates]
  BY DEF StreamsTypes
<1> QED
  BY <1>1 DEF StreamStates

LEMMA OpenFileStep ==
  ASSUME StreamsInv, OpenFile
  PROVE  StreamsInv'
<1>0. StreamsTypes /\ OffsetsAreInOrder /\ FilesEndInTheLog
  BY DEF StreamsInv
<1> DEFINE f == [from |-> stream["events"].committed + 1, to |-> stream["events"].planned,
                 whole |-> FALSE]
           n == Len(files)
<1>1. /\ stream' = [stream EXCEPT !["events"].step = "written"] /\ files' = Append(files, f)
      /\ UNCHANGED <<log, marketBronze, marketQuarantine, silver, manifest, build>>
  BY DEF OpenFile
<1>2. /\ stream' \in [Topics -> StreamStates] /\ stream'["events"].step = "written"
      /\ \A u \in Topics : /\ stream'[u].first = stream[u].first
                           /\ stream'[u].committed = stream[u].committed
                           /\ stream'[u].planned = stream[u].planned
      /\ \A u \in Topics \ {"events"} : stream'[u] = stream[u]
  BY <1>0, <1>1, StepOnly, TopicNames
<1>3. /\ f \in Files /\ f.from = stream["events"].committed + 1
      /\ f.to = stream["events"].planned /\ ~f.whole
  BY <1>0, StreamFacts, TopicNames DEF Files
<1>4. files \in Seq(Files) /\ n \in Nat /\ DOMAIN files = 1 .. n
  BY <1>0, StreamFacts DEF StreamsTypes
<1> HIDE DEF f, n
<1>5. /\ files' \in Seq(Files) /\ files' # <<>> /\ Len(files') = n + 1
      /\ \A i \in 1 .. n : files'[i] = files[i]
      /\ files'[n + 1] = f
  BY <1>1, <1>3, <1>4, AppendProperties DEF n
<1>6. DOMAIN files' = 1 .. n + 1
  BY <1>5, LenProperties
<1>7. StreamsTypes'
  BY <1>0, <1>1, <1>2, <1>5 DEF StreamsTypes
<1>8. BatchIsInFile'
  BY <1>2, <1>3, <1>5, TopicNames DEF BatchIsInFile
<1>9. FilesEndInTheLog'
  <2>1. f.to <= Len(log["events"])
    BY <1>0, <1>3, TopicNames DEF OffsetsAreInOrder
  <2> QED
    BY <1>0, <1>1, <1>4, <1>5, <1>6, <2>1 DEF FilesEndInTheLog
<1> QED
  BY <1>1, <1>2, <1>4, <1>5, <1>6, <1>7, <1>8, <1>9, FileStep, TopicNames

LEMMA CloseFileStep ==
  ASSUME StreamsInv, CloseFile
  PROVE  StreamsInv'
<1>0. StreamsTypes /\ OffsetsAreInOrder /\ BatchIsInFile /\ FilesEndInTheLog
  BY DEF StreamsInv
<1> DEFINE n == Len(files)
           f == [from |-> files[n].from, to |-> files[n].to, whole |-> TRUE]
<1>1. /\ stream["events"].step = "written"
      /\ stream' = [stream EXCEPT !["events"].step = "sunk"]
      /\ files' = [files EXCEPT ![n].whole = TRUE]
      /\ UNCHANGED <<log, marketBronze, marketQuarantine, silver, manifest, build>>
  BY DEF CloseFile
<1>2. /\ stream' \in [Topics -> StreamStates] /\ stream'["events"].step = "sunk"
      /\ \A u \in Topics : /\ stream'[u].first = stream[u].first
                           /\ stream'[u].committed = stream[u].committed
                           /\ stream'[u].planned = stream[u].planned
      /\ \A u \in Topics \ {"events"} : stream'[u] = stream[u]
  BY <1>0, <1>1, StepOnly, TopicNames
<1>3. /\ files \in Seq(Files) /\ files # <<>>
      /\ files[n].from = stream["events"].committed + 1
      /\ files[n].to = stream["events"].planned
  BY <1>0, <1>1 DEF StreamsTypes, BatchIsInFile
<1>4. n \in Nat /\ DOMAIN files = 1 .. n /\ n \in 1 .. n /\ files[n] \in Files
  BY <1>3, LenProperties, EmptySeq, ElementOfSeq
<1>5. f \in Files /\ f.from = files[n].from /\ f.to = files[n].to /\ f.whole
  BY <1>4 DEF Files
<1>6. files' = [files EXCEPT ![n] = f]
  <2>1. files' = [files EXCEPT ![n] = [files[n] EXCEPT !.whole = TRUE]]
    BY <1>1, Zenon
  <2>2. [files[n] EXCEPT !.whole = TRUE] = f
    <3> DEFINE file == files[n]
    <3>1. file \in Files /\ f.from = file.from /\ f.to = file.to /\ f.whole = TRUE
      BY <1>4
    <3> HIDE DEF file, f
    <3>2. [file EXCEPT !.whole = TRUE] = f
      BY <1>5, <3>1 DEF Files
    <3> QED
      BY <3>2 DEF file
  <2> QED
    BY <2>1, <2>2
<1> HIDE DEF f, n
<1>7. /\ files' \in Seq(Files) /\ Len(files') = n
      /\ \A i \in 1 .. n : files'[i] = IF i = n THEN f ELSE files[i]
  BY <1>3, <1>4, <1>5, <1>6, ExceptSeq DEF n
<1>8. DOMAIN files' = 1 .. n /\ files'[n] = f /\ files' # <<>>
  BY <1>4, <1>7, LenProperties, EmptySeq
<1>9. StreamsTypes'
  BY <1>0, <1>1, <1>2, <1>7 DEF StreamsTypes
<1>10. BatchIsInFile'
  BY <1>2, <1>3, <1>5, <1>7, <1>8, TopicNames DEF BatchIsInFile
<1>11. \A i \in DOMAIN files : /\ files'[i].from = files[i].from /\ files'[i].to = files[i].to
                               /\ files[i].whole => files'[i].whole
  BY <1>4, <1>5, <1>7
<1>12. FilesEndInTheLog'
  BY <1>0, <1>1, <1>4, <1>8, <1>11 DEF FilesEndInTheLog
<1> QED
  BY <1>1, <1>2, <1>4, <1>8, <1>9, <1>10, <1>11, <1>12, FileStep, TopicNames

\* write_market_data_batch appends the valid records, then the others.
LEMMA AppendStep ==
  ASSUME StreamsInv, AppendValid \/ AppendInvalid
  PROVE  StreamsInv'
<1>0. StreamsTypes /\ BatchIsAppended
  BY DEF StreamsInv
<1>1. PICK step \in {"written", "sunk"} :
        /\ stream' = [stream EXCEPT !["market"].step = step]
        /\ step = "written" => /\ stream["market"].step = "planned"
                               /\ marketBronze' = marketBronze \cup Valid(Batch("market"))
                               /\ marketQuarantine' = marketQuarantine
        /\ step = "sunk" => /\ stream["market"].step = "written"
                            /\ marketQuarantine' = marketQuarantine \cup
                                 (Batch("market") \ Valid(Batch("market")))
                            /\ marketBronze' = marketBronze
  BY DEF AppendValid, AppendInvalid
<1>2. UNCHANGED <<log, files, silver, manifest, build>>
  BY DEF AppendValid, AppendInvalid
<1>3. /\ stream' \in [Topics -> StreamStates] /\ stream'["market"].step = step
      /\ \A u \in Topics : /\ stream'[u].first = stream[u].first
                           /\ stream'[u].committed = stream[u].committed
                           /\ stream'[u].planned = stream[u].planned
      /\ \A u \in Topics \ {"market"} : stream'[u] = stream[u]
  BY <1>0, <1>1, StepOnly, TopicNames
<1>4. /\ Batch("market")' = Batch("market") /\ Valid(Batch("market"))' = Valid(Batch("market"))
      /\ Consumed("market")' = Consumed("market") /\ Consumed("events")' = Consumed("events")
  BY <1>2, <1>3, TopicNames DEF Batch, Valid, Consumed
<1>5. marketBronze \subseteq marketBronze' /\ marketQuarantine \subseteq marketQuarantine'
  BY <1>1
<1>6. StreamsTypes' /\ OffsetsAreInOrder' /\ BatchIsInFile'
  BY <1>2, <1>3, TopicNames DEF StreamsInv, StreamsTypes, OffsetsAreInOrder, BatchIsInFile
<1>7. BatchIsAppended'
  BY <1>0, <1>1, <1>3, <1>4 DEF BatchIsAppended
<1>8. FilesEndInTheLog' /\ ListedAreFiles' /\ SavedIsMerged'
  BY <1>2 DEF StreamsInv, FilesEndInTheLog, ListedAreFiles, SavedIsMerged, Copies
<1>9. CommittedIsKept'
  <2>1. \A s \in Swaps : \A o \in Copies(s, manifest)' : silver'[s] >= o
    BY <1>2 DEF StreamsInv, CommittedIsKept, Copies
  <2> QED
    BY <1>2, <1>4, <1>5, <2>1 DEF StreamsInv, CommittedIsKept
<1> QED
  BY <1>6, <1>7, <1>8, <1>9 DEF StreamsInv

\* The Silver job selects, raises or dies without having saved.
LEMMA BuildStep ==
  ASSUME StreamsInv, SelectFiles \/ FailMerge \/ KillBuild
  PROVE  StreamsInv'
<1>1. UNCHANGED <<log, stream, files, marketBronze, marketQuarantine, silver, manifest>>
  BY DEF SelectFiles, FailMerge, KillBuild
<1>2. build'.step # "save" /\ build'.selected \subseteq DOMAIN files
  BY DEF SelectFiles, FailMerge, KillBuild, Idle, Unprocessed
<1>3. SavedIsMerged' /\ ListedAreFiles'
  BY <1>1, <1>2 DEF StreamsInv, SavedIsMerged, ListedAreFiles
<1>4. CommittedIsKept'
  BY <1>1 DEF StreamsInv, CommittedIsKept, Consumed, Copies
<1>5. StreamsTypes' /\ OffsetsAreInOrder' /\ BatchIsInFile' /\ FilesEndInTheLog'
  BY <1>1 DEF StreamsInv, StreamsTypes, OffsetsAreInOrder, BatchIsInFile, FilesEndInTheLog
<1>6. BatchIsAppended'
  BY <1>1 DEF StreamsInv, BatchIsAppended, Batch, Valid
<1> QED
  BY <1>3, <1>4, <1>5, <1>6 DEF StreamsInv

\* The newest of the row there is and the copies read.
LEMMA NewestOfCopies ==
  ASSUME StreamsTypes, NEW s \in Swaps, NEW selected
  PROVE  LET kept == Newest({silver[s]} \cup Copies(s, selected))
         IN  /\ kept \in 0 .. MaxTopic /\ kept >= silver[s]
             /\ \A o \in Copies(s, selected) : kept >= o
<1> DEFINE S == {silver[s]} \cup Copies(s, selected)
<1>1. S \subseteq 0 .. MaxTopic /\ S # {}
  BY StreamBoundsAssumption DEF StreamsTypes, Copies, Offsets
<1>2. \E m \in S : \A k \in S : k <= m
  <2> HIDE DEF S
  <2> QED
    BY <1>1, StreamBoundsAssumption, GreatestElement
<1>3. Newest(S) \in S /\ \A k \in S : k <= Newest(S)
  BY <1>2 DEF Newest
<1>4. Newest(S) \in 0 .. MaxTopic
  BY <1>1, <1>3
<1>5. silver[s] \in S /\ \A o \in Copies(s, selected) : o \in S
  OBVIOUS
<1>6. \A k \in S : k \in Int /\ Newest(S) \in Int
  BY <1>1, <1>4, StreamBoundsAssumption
<1> HIDE DEF S
<1>7. Newest(S) >= silver[s] /\ \A o \in Copies(s, selected) : Newest(S) >= o
  BY <1>3, <1>5, <1>6
<1> QED
  BY <1>4, <1>7 DEF S

LEMMA MergeStep ==
  ASSUME StreamsInv, MergeFiles
  PROVE  StreamsInv'
<1>0. StreamsTypes /\ CommittedIsKept
  BY DEF StreamsInv
<1>1. /\ silver' = [s \in Swaps |-> Newest({silver[s]} \cup Copies(s, build.selected))]
      /\ build' = [build EXCEPT !.step = "save"]
      /\ UNCHANGED <<log, stream, files, marketBronze, marketQuarantine, manifest>>
  BY DEF MergeFiles
<1>2. \A s \in Swaps : /\ silver'[s] \in 0 .. MaxTopic /\ silver'[s] >= silver[s]
                       /\ \A o \in Copies(s, build.selected) : silver'[s] >= o
  BY <1>0, <1>1, NewestOfCopies
<1>3. build'.selected = build.selected
  BY <1>1
<1>4. StreamsTypes'
  BY <1>0, <1>1, <1>2 DEF StreamsTypes
<1>5. SavedIsMerged' /\ ListedAreFiles'
  BY <1>1, <1>2, <1>3 DEF StreamsInv, SavedIsMerged, ListedAreFiles, Copies
<1>6. CommittedIsKept'
  <2>1. ASSUME NEW s \in Swaps, NEW o \in Copies(s, manifest)
        PROVE  silver'[s] >= o
    <3>1. silver[s] >= o
      BY <1>0 DEF CommittedIsKept
    <3>2. o \in Int /\ silver[s] \in Int /\ silver'[s] \in Int
      BY <1>0, <1>2, StreamFacts, StreamBoundsAssumption DEF Copies, Offsets
    <3> QED
      BY <1>2, <3>1, <3>2
  <2>2. \A s \in Swaps : \A o \in Copies(s, manifest)' : silver'[s] >= o
    BY <1>1, <2>1 DEF Copies
  <2> QED
    BY <1>0, <1>1, <2>2 DEF CommittedIsKept, Consumed
<1>7. OffsetsAreInOrder' /\ BatchIsInFile' /\ FilesEndInTheLog'
  BY <1>1 DEF StreamsInv, OffsetsAreInOrder, BatchIsInFile, FilesEndInTheLog
<1>8. BatchIsAppended'
  BY <1>1 DEF StreamsInv, BatchIsAppended, Batch, Valid
<1> QED
  BY <1>4, <1>5, <1>6, <1>7, <1>8 DEF StreamsInv

\* The manifest takes over the files the job read, whose copies Silver has by then.
LEMMA SaveStep ==
  ASSUME StreamsInv, SaveManifest
  PROVE  StreamsInv'
<1>0. SavedIsMerged /\ CommittedIsKept /\ ListedAreFiles
  BY DEF StreamsInv
<1>1. /\ build.step = "save" /\ manifest' = manifest \cup build.selected /\ build' = Idle
      /\ UNCHANGED <<log, stream, files, marketBronze, marketQuarantine, silver>>
  BY DEF SaveManifest
<1>2. SavedIsMerged' /\ ListedAreFiles'
  BY <1>0, <1>1 DEF SavedIsMerged, ListedAreFiles, Idle
<1>3. CommittedIsKept'
  <2>1. \A s : \A o \in Copies(s, manifest \cup build.selected) :
          o \in Copies(s, manifest) \/ o \in Copies(s, build.selected)
    BY DEF Copies
  <2>2. \A s \in Swaps : \A o \in Copies(s, manifest \cup build.selected) : silver[s] >= o
    BY <1>0, <1>1, <2>1 DEF SavedIsMerged, CommittedIsKept
  <2>3. \A s \in Swaps : \A o \in Copies(s, manifest)' : silver'[s] >= o
    BY <1>1, <2>2 DEF Copies
  <2> QED
    BY <1>0, <1>1, <2>3 DEF CommittedIsKept, Consumed
<1>4. StreamsTypes' /\ OffsetsAreInOrder' /\ BatchIsInFile' /\ FilesEndInTheLog'
  BY <1>1 DEF StreamsInv, StreamsTypes, OffsetsAreInOrder, BatchIsInFile, FilesEndInTheLog
<1>5. BatchIsAppended'
  BY <1>1 DEF StreamsInv, BatchIsAppended, Batch, Valid
<1> QED
  BY <1>2, <1>3, <1>4, <1>5 DEF StreamsInv

LEMMA StreamsInvStep ==
  ASSUME StreamsInv, [StreamsNext]_streamVars
  PROVE  StreamsInv'
<1>1. ASSUME NEW event \in Swaps \cup OtherEvents, PublishEvent(event)
      PROVE  StreamsInv'
  <2>1. event \in Records
    BY DEF Records
  <2> QED
    BY <1>1, <2>1, PublishStep, TopicNames DEF PublishEvent
<1>2. CASE PublishMalformed
  <2>1. "malformed" \in Records
    BY DEF Records
  <2> QED
    BY <1>2, <2>1, PublishStep, TopicNames DEF PublishMalformed
<1>3. CASE NewHead \/ StartPoller \/ StopPoller \/ UNCHANGED streamVars
  <2>1. UNCHANGED <<log, stream, files, marketBronze, marketQuarantine, silver, manifest, build>>
    BY <1>3 DEF NewHead, StartPoller, StopPoller, streamVars
  <2> QED
    BY <2>1, SameStep
<1> QED
  BY <1>1, <1>2, <1>3, PollStep, StreamSteps, OpenFileStep, CloseFileStep, AppendStep, BuildStep,
     MergeStep, SaveStep, TopicNames DEF StreamsNext, EventsNext, MarketNext

\* For any topics, rounds and numbers of files and deaths: what a stream has committed past is
\* in Bronze or quarantine, and what the manifest names is in Silver, whatever the order in
\* which the streams, the poller and the Silver job work and are run again
\* (write_market_data_batch, build_silver_swaps).
THEOREM CommittedRecordsAreKept == StreamsSpec => []CommittedIsKept
<1>1. StreamsInit => StreamsInv
  <2> SUFFICES ASSUME StreamsInit PROVE StreamsInv
    OBVIOUS
  <2>1. /\ log = [t \in Topics |-> <<>>]
        /\ stream = [t \in Topics |->
                       [step |-> "new", first |-> 0, committed |-> 0, planned |-> 0]]
        /\ files = <<>> /\ silver = [s \in Swaps |-> 0] /\ manifest = {} /\ build = Idle
    BY DEF StreamsInit
  <2>2. [step |-> "new", first |-> 0, committed |-> 0, planned |-> 0] \in StreamStates
    BY StreamBoundsAssumption DEF StreamStates
  <2>3. <<>> \in Seq(Records) /\ <<>> \in Seq(Files) /\ Len(<<>>) = 0
    BY EmptySeq
  <2>4. StreamsTypes
    BY <2>1, <2>2, <2>3, StreamBoundsAssumption DEF StreamsTypes
  <2>5. OffsetsAreInOrder /\ BatchIsInFile /\ BatchIsAppended
    BY <2>1, <2>3, TopicNames DEF OffsetsAreInOrder, BatchIsInFile, BatchIsAppended
  <2>6. FilesEndInTheLog /\ ListedAreFiles /\ SavedIsMerged
    BY <2>1 DEF FilesEndInTheLog, ListedAreFiles, SavedIsMerged, Idle
  <2>7. CommittedIsKept
    BY <2>1, TopicNames DEF CommittedIsKept, Consumed, Copies
  <2> QED
    BY <2>4, <2>5, <2>6, <2>7 DEF StreamsInv
<1>2. StreamsInv /\ [StreamsNext]_streamVars => StreamsInv'
  BY StreamsInvStep
<1>3. StreamsInv => CommittedIsKept
  BY DEF StreamsInv
<1> QED
  BY <1>1, <1>2, <1>3, PTL DEF StreamsSpec

--------------------------------------------------------------------------------
\* ---- PriceEnrichment ----

\* A nonempty finite set of naturals has a greatest element: in the least that had none, the greatest of the others or the
\* element left out would be greatest.
LEMMA FiniteGreatest ==
  ASSUME NEW S, S \subseteq Nat, S # {}, IsFiniteSet(S)
  PROVE  \E m \in S : \A k \in S : k <= m
<1> DEFINE HasGreatest(T) == \E m \in T : \A k \in T : k <= m
           Without == {T \in SUBSET Nat : T # {} /\ IsFiniteSet(T) /\ ~HasGreatest(T)}
           Sizes == {Cardinality(T) : T \in Without}
<1>1. SUFFICES ASSUME ~HasGreatest(S) PROVE FALSE
  OBVIOUS
<1>2. Sizes \subseteq Nat /\ Sizes # {}
  <2>1. \A T \in Without : Cardinality(T) \in Nat
    BY FS_CardinalityType
  <2>2. S \in Without
    BY <1>1
  <2> HIDE DEF Without
  <2> QED
    BY <2>1, <2>2
<1>3. PICK size \in Sizes : \A n \in Sizes : size <= n
  <2> HIDE DEF Sizes
  <2> QED
    BY <1>2, LeastElement
<1>4. PICK T \in Without : size = Cardinality(T)
  <2> HIDE DEF Without
  <2> QED
    OBVIOUS
<1>5. T \subseteq Nat /\ T # {} /\ IsFiniteSet(T) /\ ~HasGreatest(T)
  OBVIOUS
<1>6. PICK x \in T : TRUE
  BY <1>5
<1>7. IsFiniteSet(T \ {x}) /\ Cardinality(T \ {x}) = Cardinality(T) - 1
  BY <1>5, <1>6, FS_RemoveElement
<1>8. T \ {x} # {}
  BY <1>5, <1>6
<1>9. HasGreatest(T \ {x})
  <2>1. SUFFICES ASSUME T \ {x} \in Without PROVE FALSE
    BY <1>5, <1>7, <1>8
  <2>2. Cardinality(T \ {x}) \in Sizes
    <3> HIDE DEF Without
    <3> QED
      BY <2>1
  <2>3. size <= Cardinality(T) - 1
    BY <1>3, <1>7, <2>2
  <2>4. size \in Nat
    BY <1>2
  <2> QED
    BY <1>4, <2>3, <2>4
<1>10. PICK m \in T \ {x} : \A k \in T \ {x} : k <= m
  BY <1>9
<1>11. m \in Nat /\ x \in Nat
  BY <1>5, <1>6, <1>10
<1>12. CASE x <= m
  BY <1>5, <1>10, <1>12
<1>13. CASE m <= x
  <2>1. \A k \in T : k <= x
    BY <1>5, <1>10, <1>11, <1>13
  <2> QED
    BY <1>5, <1>6, <2>1
<1> QED
  BY <1>11, <1>12, <1>13


\* The window's ordering, latest first and then the greatest round, finds one price of the
\* candidates of an amount, and none only where there is none.
LEMMA OneBest ==
  ASSUME NEW event, NEW leg, NEW observations, observations \subseteq PricePool,
         Candidates(event, leg, observations) # {}
  PROVE  \E p \in Candidates(event, leg, observations) :
            /\ Best(Candidates(event, leg, observations)) = {p}
            /\ \A q \in Candidates(event, leg, observations) : q.at <= p.at
<1> DEFINE C == Candidates(event, leg, observations)
           Times == {p.at : p \in C}
           Rounds(at) == {p.round : p \in {q \in C : q.at = at}}
<1>1. /\ C \subseteq PricePool /\ IsFiniteSet(C)
      /\ \A p \in C : p.at \in Nat /\ p.round \in Nat
  <2>1. C \subseteq PricePool
    BY DEF Candidates
  <2> QED
    BY <2>1, PricePoolAssumption, FS_Subset
<1>2. \A p, q \in C : p.asset = q.asset
  <2>1. SUFFICES ASSUME NEW p \in C, NEW q \in C PROVE p.asset = q.asset
    OBVIOUS
  <2>2. PICK r1 \in RowsOf(leg.address) : p.asset = r1.asset
    BY DEF Candidates
  <2>3. PICK r2 \in RowsOf(leg.address) : q.asset = r2.asset
    BY DEF Candidates
  <2>4. r1 = r2
    BY MappingAssumption DEF RowsOf, MappingIsValid
  <2> QED
    BY <2>2, <2>3, <2>4
<1>3. PICK at \in Times : \A t \in Times : t <= at
  <2>1. Times \subseteq Nat /\ Times # {}
    BY <1>1
  <2>2. IsFiniteSet(Times)
    <3>1. [p \in C |-> p.at] \in Surjection(C, Times)
      BY DEF Surjection
    <3> HIDE DEF C, Times
    <3> QED
      BY <1>1, <3>1, FS_Surjection
  <2> HIDE DEF Times
  <2> QED
    BY <2>1, <2>2, FiniteGreatest
<1>4. PICK round \in Rounds(at) : \A n \in Rounds(at) : n <= round
  <2>1. Rounds(at) \subseteq Nat /\ Rounds(at) # {}
    BY <1>1, <1>3
  <2>2. IsFiniteSet(Rounds(at))
    <3> DEFINE L == {q \in C : q.at = at}
    <3>1. [p \in L |-> p.round] \in Surjection(L, Rounds(at))
      BY DEF Surjection
    <3>2. IsFiniteSet(L)
      <4> HIDE DEF C
      <4> QED
        BY <1>1, FS_Subset
    <3> HIDE DEF L, Rounds
    <3> QED
      BY <3>1, <3>2, FS_Surjection
  <2> HIDE DEF Rounds
  <2> QED
    BY <2>1, <2>2, FiniteGreatest
<1>5. PICK p \in C : p.at = at /\ p.round = round
  BY <1>4
<1>6. \A q \in C : q.at <= p.at /\ (q.at = p.at => q.round <= p.round)
  BY <1>3, <1>4, <1>5
<1> HIDE DEF C, Times, Rounds
<1>7. p \in Best(C)
  BY <1>1, <1>5, <1>6 DEF Best, Ranks
<1>8. \A q \in Best(C) : q = p
  <2>1. SUFFICES ASSUME NEW q \in Best(C) PROVE q = p
    OBVIOUS
  <2>2. q \in C /\ p \in C /\ Ranks(q, p) /\ Ranks(p, q)
    BY <1>7, <2>1 DEF Best
  <2>3. p.at = q.at /\ p.round = q.round /\ p.asset = q.asset
    BY <1>1, <1>2, <2>2 DEF Ranks
  <2> QED
    BY <1>1, <2>2, <2>3, PricePoolAssumption
<1>9. Best(C) = {p}
  BY <1>7, <1>8
<1> QED
  BY <1>5, <1>6, <1>9 DEF C

\* An amount is priced when its status is "enriched", and then it can be.
LEMMA EnrichedMeans ==
  ASSUME NEW d, NEW event, NEW leg, NEW observations
  PROVE  Status(d, event, leg, observations) = "enriched" <=>
            /\ event.at # Unknown
            /\ ValidAmount(d, leg)
            /\ Best(Candidates(event, leg, observations)) # {}
            /\ \A p \in Best(Candidates(event, leg, observations)) : ~(Age(event, p) > MaxAge)
<1>1. ValidAmount(d, leg) => RowsOf(leg.address) # {}
  BY DEF ValidAmount
<1> QED
  BY <1>1 DEF Status

\* What an amount is given.
Price(d, event, leg, observations) == EnrichedLeg(d, event, leg, observations).price

Priced(d, event, leg, observations, price) ==
  LET window == InWindow(event, leg, observations)
  IN  IF event.at = Unknown \/ ~ValidAmount(d, leg) \/ window = {}
      THEN price = {}
      ELSE \E p \in window : price = {p} /\ \A q \in window : q.at <= p.at

LEMMA LegIsPriced ==
  ASSUME NEW d, NEW event, event.at \in Nat \cup {Unknown}, NEW leg,
         NEW observations, observations \subseteq PricePool
  PROVE  /\ Priced(d, event, leg, observations, Price(d, event, leg, observations))
         /\ \A p \in Price(d, event, leg, observations) :
               p.at <= event.at /\ Age(event, p) <= MaxAge
         /\ (EnrichedLeg(d, event, leg, observations).status = "enriched")
               <=> (Price(d, event, leg, observations) # {})
<1> DEFINE C == Candidates(event, leg, observations)
           W == InWindow(event, leg, observations)
           S == Status(d, event, leg, observations)
<1>1. /\ EnrichedLeg(d, event, leg, observations).status = S
      /\ Price(d, event, leg, observations) = (IF S = "enriched" THEN Best(C) ELSE {})
  BY DEF Price, EnrichedLeg
<1>2. S = "enriched" <=> /\ event.at # Unknown /\ ValidAmount(d, leg) /\ Best(C) # {}
                         /\ \A p \in Best(C) : ~(Age(event, p) > MaxAge)
  BY EnrichedMeans
<1>3. \A p \in PricePool : p.at \in Nat
  BY PricePoolAssumption
<1>4. \A p \in C : p \in observations /\ p.at \in Nat /\ p.at <= event.at
  BY <1>3 DEF Candidates
<1>5. event.at # Unknown =>
        \A p \in PricePool : p \in W <=> p \in C /\ ~(Age(event, p) > MaxAge)
  BY <1>3, MaxAgeAssumption DEF Candidates, InWindow, Age, Unknown
<1>6. W \subseteq PricePool /\ C \subseteq PricePool
  BY DEF InWindow, Candidates
<1>7. \A p \in Best(C) : p \in C
  BY DEF Best
<1>8. \A p \in C : Age(event, p) \in Int
  BY <1>4 DEF Age, Unknown
<1>9. C # {} => \E p \in C : Best(C) = {p} /\ \A q \in C : q.at <= p.at
  BY OneBest
<1> HIDE DEF C, W, S
<1>10. CASE event.at = Unknown \/ ~ValidAmount(d, leg)
  BY <1>1, <1>2, <1>10 DEF Priced
<1>11. CASE event.at # Unknown /\ ValidAmount(d, leg) /\ C = {}
  <2>1. W = {} /\ Best(C) = {}
    BY <1>5, <1>6, <1>7, <1>11
  <2> QED
    BY <1>1, <1>2, <2>1 DEF Priced, W
<1>12. CASE event.at # Unknown /\ ValidAmount(d, leg) /\ C # {}
  <2>1. PICK p \in C : Best(C) = {p} /\ \A q \in C : q.at <= p.at
    BY <1>9, <1>12
  <2>2. CASE Age(event, p) > MaxAge
    <3>1. W = {}
      <4>1. SUFFICES ASSUME NEW q \in W PROVE FALSE
        OBVIOUS
      <4>2. q \in C /\ ~(Age(event, q) > MaxAge)
        BY <1>5, <1>6, <1>12
      <4>3. event.at - q.at >= event.at - p.at
        BY <1>4, <2>1, <4>2, <1>12
      <4> QED
        BY <1>8, <2>1, <2>2, <4>2, <4>3, MaxAgeAssumption DEF Age
    <3> QED
      BY <1>1, <1>2, <2>1, <2>2, <3>1 DEF Priced, W
  <2>3. CASE ~(Age(event, p) > MaxAge)
    <3>1. S = "enriched" /\ Price(d, event, leg, observations) = {p}
      BY <1>1, <1>2, <1>12, <2>1, <2>3
    <3>2. p \in W /\ \A q \in W : q.at <= p.at
      BY <1>5, <1>6, <1>12, <2>1, <2>3
    <3>3. Priced(d, event, leg, observations, Price(d, event, leg, observations))
      BY <1>12, <3>1, <3>2 DEF Priced, W
    <3>4. p.at <= event.at /\ Age(event, p) <= MaxAge
      BY <1>4, <1>8, <2>1, <2>3, MaxAgeAssumption
    <3> QED
      BY <1>1, <3>1, <3>3, <3>4
  <2> QED
    BY <2>2, <2>3
<1> QED
  BY <1>10, <1>11, <1>12

\* The checks after the fact find fault with the identity only.
LEMMA OnlyIdentityIsInvalid ==
  ASSUME NEW d \in DatasetSet, NEW event \in EventPool[d],
         NEW observations, observations \subseteq PricePool
  PROVE  Invalid(EnrichedRow(d, event, observations)) <=> event.id = Unknown
<1> DEFINE row == EnrichedRow(d, event, observations)
<1>1. /\ row.event = event
      /\ DOMAIN row.legs = 1 .. LegsOf[d]
      /\ \A i \in DOMAIN row.legs :
            row.legs[i] = EnrichedLeg(d, event, event.legs[i], observations)
  BY DEF EnrichedRow
<1>2. event.at \in Nat \cup {Unknown}
  BY EventPoolAssumption
<1>3. \A i \in DOMAIN row.legs :
        /\ \A p \in row.legs[i].price : p.at <= event.at /\ Age(event, p) <= MaxAge
        /\ (row.legs[i].status = "enriched") <=> (row.legs[i].price # {})
  <2>1. \A leg :
           /\ \A p \in Price(d, event, leg, observations) :
                 p.at <= event.at /\ Age(event, p) <= MaxAge
           /\ (EnrichedLeg(d, event, leg, observations).status = "enriched")
                 <=> (Price(d, event, leg, observations) # {})
    BY <1>2, LegIsPriced
  <2> QED
    BY <1>1, <2>1, Zenon DEF Price
<1>4. \A i \in DOMAIN row.legs : \A p \in row.legs[i].price : p.at \in Nat
  <2>1. \A leg : \A p \in Price(d, event, leg, observations) : p \in PricePool
    BY DEF Price, EnrichedLeg, Best, Candidates
  <2> QED
    BY <1>1, <2>1, PricePoolAssumption DEF Price
<1> HIDE DEF row
<1>5. \A i \in DOMAIN row.legs : \A p \in row.legs[i].price :
        ~(p.at > event.at) /\ ~(Age(event, p) > MaxAge)
  BY <1>2, <1>3, <1>4, MaxAgeAssumption DEF Age, Unknown
<1> QED
  BY <1>1, <1>3, <1>5 DEF Invalid, row

AllEvents == UNION {EventPool[d] : d \in DatasetSet}

\* A build holds part of the prices and, where it has read a dataset, part of its events.
JobHolds ==
  \/ job = NoJob
  \/ /\ job \in [step : {"read", "write", "output", "reject", "quarantine"},
                   left : Seq(DatasetSet), prices : SUBSET PricePool, events : SUBSET AllEvents]
     /\ job.step # "read" => /\ job.left # <<>>
                             /\ job.events \subseteq EventPool[Head(job.left)]
                             /\ job.events \subseteq sources[Head(job.left)]

\* Rows come from the source: of a dataset without one there are none.
RowsAreOfSources ==
  \A d \in DatasetSet : /\ builtFrom[d].events \subseteq sources[d]
                        /\ \A row \in rejects[d] : row.event \in sources[d]

\* Once the output is written, it is the whole of the build.
HeadIsWhole ==
  job.step \in {"reject", "quarantine"} =>
    OutputIsWhole(Head(job.left)) /\ builtFrom[Head(job.left)] = Basis

IsLeft(d, left) == \E i \in 1 .. Len(left) : left[i] = d

\* What the build has gone through is accounted for.
BuildsInOrder ==
  job # NoJob => \A d \in DatasetSet : IsLeft(d, job.left) \/ Accounted(d)

EnrichmentInv ==
  /\ sources \in [DatasetSet -> SUBSET AllEvents]
  /\ \A d \in DatasetSet : sources[d] \subseteq EventPool[d]
  /\ prices \subseteq PricePool
  /\ output = [d \in DatasetSet |-> output[d]]
  /\ rejects = [d \in DatasetSet |-> rejects[d]]
  /\ builtFrom = [d \in DatasetSet |-> builtFrom[d]]
  /\ JobHolds
  /\ PricedPointInTime
  /\ RowsAreOfSources
  /\ HeadIsWhole
  /\ BuildsInOrder

\* What one build writes of a dataset, and what the properties ask of it.
Written(d, basis) == {row \in Rows(d, basis.events, basis.prices) : ~Invalid(row)}

Quarantined(d, basis) == {row \in Rows(d, basis.events, basis.prices) : Invalid(row)}

PricedIn(d, rows, basis) ==
  /\ {row.event : row \in rows} \subseteq {e \in basis.events : e.id # Unknown}
  /\ \A row \in rows : \A i \in DOMAIN row.legs :
        Priced(d, row.event, row.event.legs[i], basis.prices, row.legs[i].price)

LEMMA BuildIsPriced ==
  ASSUME NEW d \in DatasetSet, NEW basis, basis.events \subseteq EventPool[d],
         basis.prices \subseteq PricePool
  PROVE  /\ PricedIn(d, Written(d, basis), basis)
         /\ {row.event : row \in Written(d, basis)} = {e \in basis.events : e.id # Unknown}
         /\ {row.event : row \in Quarantined(d, basis)} = {e \in basis.events : e.id = Unknown}
<1> DEFINE rows == Written(d, basis)
           others == Quarantined(d, basis)
           events == basis.events
           observations == basis.prices
<1>1. \A event \in events :
        Invalid(EnrichedRow(d, event, observations)) <=> event.id = Unknown
  BY OnlyIdentityIsInvalid
<1>2. \A event : EnrichedRow(d, event, observations).event = event
  BY DEF EnrichedRow
<1>3. \A row : row \in rows <=>
        \E event \in events : row = EnrichedRow(d, event, observations) /\ event.id # Unknown
  BY <1>1, Zenon DEF Rows, Written
<1>4. \A row : row \in others <=>
        \E event \in events : row = EnrichedRow(d, event, observations) /\ event.id = Unknown
  BY <1>1, Zenon DEF Rows, Quarantined
<1> HIDE DEF rows, others
<1>5. {row.event : row \in rows} = {e \in events : e.id # Unknown}
  <2>1. ASSUME NEW row \in rows PROVE row.event \in {e \in events : e.id # Unknown}
    BY <1>2, <1>3
  <2>2. ASSUME NEW e \in events, e.id # Unknown PROVE \E row \in rows : row.event = e
    BY <1>2, <1>3, <2>2, Zenon
  <2> QED
    BY <2>1, <2>2
<1>6. {row.event : row \in others} = {e \in events : e.id = Unknown}
  <2>1. ASSUME NEW row \in others PROVE row.event \in {e \in events : e.id = Unknown}
    BY <1>2, <1>4
  <2>2. ASSUME NEW e \in events, e.id = Unknown PROVE \E row \in others : row.event = e
    BY <1>2, <1>4, <2>2, Zenon
  <2> QED
    BY <2>1, <2>2
<1>7. ASSUME NEW row \in rows, NEW i \in DOMAIN row.legs
      PROVE  Priced(d, row.event, row.event.legs[i], observations, row.legs[i].price)
  <2>1. PICK event \in events : row = EnrichedRow(d, event, observations)
    BY <1>3
  <2>2. row.event = event /\ row.legs[i] = EnrichedLeg(d, event, event.legs[i], observations)
    BY <2>1 DEF EnrichedRow
  <2>3. event.at \in Nat \cup {Unknown}
    BY EventPoolAssumption
  <2>4. Priced(d, event, event.legs[i], observations,
               Price(d, event, event.legs[i], observations))
    BY <2>3, LegIsPriced
  <2> QED
    BY <2>2, <2>4 DEF Price
<1>8. PricedIn(d, rows, basis)
  BY <1>5, <1>7 DEF PricedIn
<1> QED
  BY <1>5, <1>6, <1>8 DEF rows, others

LEMMA PartIsPriced ==
  ASSUME NEW d, NEW rows, NEW basis, PricedIn(d, rows, basis), NEW part \in SUBSET rows
  PROVE  PricedIn(d, part, basis)
BY DEF PricedIn

LEMMA PricedByDataset ==
  PricedPointInTime <=> \A d \in DatasetSet : PricedIn(d, output[d], builtFrom[d])
BY Zenon DEF PricedPointInTime, PricedIn, Priced

\* Another output of one dataset, priced by its basis.
LEMMA OneOutputMoves ==
  ASSUME PricedPointInTime, output = [c \in DatasetSet |-> output[c]],
         builtFrom = [c \in DatasetSet |-> builtFrom[c]],
         NEW d \in DatasetSet, NEW rows, NEW basis, PricedIn(d, rows, basis),
         output' = [output EXCEPT ![d] = rows], builtFrom' = [builtFrom EXCEPT ![d] = basis]
  PROVE  /\ PricedPointInTime'
         /\ output'[d] = rows /\ builtFrom'[d] = basis
         /\ \A c \in DatasetSet \ {d} : output'[c] = output[c] /\ builtFrom'[c] = builtFrom[c]
         /\ output' = [c \in DatasetSet |-> output'[c]]
         /\ builtFrom' = [c \in DatasetSet |-> builtFrom'[c]]
<1>1. /\ output'[d] = rows /\ builtFrom'[d] = basis
      /\ \A c \in DatasetSet \ {d} : output'[c] = output[c] /\ builtFrom'[c] = builtFrom[c]
      /\ output' = [c \in DatasetSet |-> output'[c]]
      /\ builtFrom' = [c \in DatasetSet |-> builtFrom'[c]]
  OBVIOUS
<1>2. \A c \in DatasetSet : PricedIn(c, output[c], builtFrom[c])
  BY PricedByDataset
<1>3. \A c \in DatasetSet : PricedIn(c, output'[c], builtFrom'[c])
  BY <1>1, <1>2
<1>4. PricedPointInTime'
  BY <1>3, ZenonT(40) DEF PricedPointInTime, PricedIn, Priced, InWindow
<1> QED
  BY <1>1, <1>4

\* Without its head, what is left is what was.
LEMMA HeadOrTail ==
  ASSUME NEW left \in Seq(DatasetSet), left # <<>>
  PROVE  /\ Head(left) \in DatasetSet /\ Tail(left) \in Seq(DatasetSet)
         /\ IsLeft(Head(left), left)
         /\ \A d : IsLeft(d, left) => d = Head(left) \/ IsLeft(d, Tail(left))
<1>1. /\ Head(left) \in DatasetSet /\ Tail(left) \in Seq(DatasetSet) /\ Head(left) = left[1]
      /\ 1 \in 1 .. Len(left)
  OBVIOUS
<1>2. \A i \in 1 .. Len(left) :
        i = 1 \/ (i - 1 \in 1 .. Len(Tail(left)) /\ Tail(left)[i - 1] = left[i])
  OBVIOUS
<1>3. ASSUME NEW d, IsLeft(d, left) PROVE d = Head(left) \/ IsLeft(d, Tail(left))
  <2>1. PICK i \in 1 .. Len(left) : left[i] = d
    BY <1>3 DEF IsLeft
  <2> QED
    BY <1>1, <1>2, <2>1 DEF IsLeft
<1> QED
  BY <1>1, <1>3 DEF IsLeft

\* A step that writes nothing, of the environment or of the build.
LEMMA WritesNothing ==
  ASSUME EnrichmentInv, UNCHANGED <<output, rejects, builtFrom>>,
         sources' \in [DatasetSet -> SUBSET AllEvents],
         \A d \in DatasetSet : sources[d] \subseteq sources'[d] /\ sources'[d] \subseteq EventPool[d],
         prices' \subseteq PricePool,
         JobHolds', HeadIsWhole', BuildsInOrder'
  PROVE  EnrichmentInv'
<1>1. PricedPointInTime'
  <2>1. PricedPointInTime /\ output' = output /\ builtFrom' = builtFrom
    BY DEF EnrichmentInv
  <2> QED
    BY <2>1, ZenonT(40) DEF PricedPointInTime
<1>2. RowsAreOfSources'
  BY DEF EnrichmentInv, RowsAreOfSources
<1> QED
  BY <1>1, <1>2 DEF EnrichmentInv

LEMMA EnrichmentInvStep ==
  ASSUME EnrichmentInv, [EnrichmentNext]_enrichmentVars
  PROVE  EnrichmentInv'
<1>n. NoJob = [step |-> "idle", left |-> <<>>, prices |-> {}, events |-> {}]
  BY DEF NoJob
<1>s. /\ sources \in [DatasetSet -> SUBSET AllEvents]
      /\ \A d \in DatasetSet : sources[d] \subseteq EventPool[d]
      /\ prices \subseteq PricePool
  BY DEF EnrichmentInv
<1>k. ASSUME UNCHANGED <<output, rejects, builtFrom>>
      PROVE  \A d \in DatasetSet : OutputIsWhole(d)' = OutputIsWhole(d) /\ Accounted(d)' = Accounted(d)
  BY <1>k DEF OutputIsWhole, Accounted
<1>r. ASSUME job # NoJob, job.left # <<>>
      PROVE  /\ Head(job.left) \in DatasetSet /\ Tail(job.left) \in Seq(DatasetSet)
             /\ \A d : IsLeft(d, job.left) => d = Head(job.left) \/ IsLeft(d, Tail(job.left))
             /\ IsLeft(Head(job.left), job.left)
  <2>1. job.left \in Seq(DatasetSet)
    BY <1>r DEF EnrichmentInv, JobHolds
  <2> QED
    BY <1>r, <2>1, HeadOrTail
<1>u. ASSUME UNCHANGED <<job, output, rejects, builtFrom>>
      PROVE  HeadIsWhole' /\ BuildsInOrder'
  BY <1>u DEF EnrichmentInv, HeadIsWhole, BuildsInOrder, OutputIsWhole, Accounted, Basis
<1>1. CASE NewPrice
  <2>1. JobHolds' /\ prices' \subseteq PricePool
    BY <1>1 DEF EnrichmentInv, NewPrice, JobHolds
  <2> QED
    BY <1>1, <1>s, <1>u, <2>1, WritesNothing DEF NewPrice
<1>2. ASSUME NEW d \in DatasetSet, NewEvent(d)
      PROVE  EnrichmentInv'
  <2>1. PICK event \in EventPool[d] : sources' = [sources EXCEPT ![d] = @ \cup {event}]
    BY <1>2 DEF NewEvent
  <2>2. event \in AllEvents
    BY DEF AllEvents
  <2>3. /\ sources' \in [DatasetSet -> SUBSET AllEvents]
        /\ \A c \in DatasetSet : sources[c] \subseteq sources'[c] /\ sources'[c] \subseteq EventPool[c]
    BY <1>s, <2>1, <2>2
  <2>4. job # NoJob /\ job.step # "read" => Head(job.left) \in DatasetSet
    BY <1>n, <1>r DEF EnrichmentInv, JobHolds
  <2>5. JobHolds'
    BY <1>2, <2>3, <2>4 DEF EnrichmentInv, NewEvent, JobHolds
  <2> QED
    BY <1>2, <1>s, <1>u, <2>3, <2>5, WritesNothing DEF NewEvent
<1>3. CASE StartJob
  <2>1. job' = [step |-> "read", left |-> Datasets, prices |-> prices, events |-> {}]
    BY <1>3, <1>n DEF StartJob
  <2>2. JobHolds' /\ HeadIsWhole'
    BY <1>s, <2>1, DatasetsAssumption DEF JobHolds, HeadIsWhole
  <2>3. \A d \in DatasetSet : IsLeft(d, Datasets)
    BY DatasetsAssumption DEF DatasetSet, IsLeft
  <2>4. BuildsInOrder'
    BY <2>1, <2>3 DEF BuildsInOrder
  <2> QED
    BY <1>3, <1>s, <2>2, <2>4, WritesNothing DEF StartJob
<1>4. CASE FinishJob \/ FailDataset \/ KillJob
  <2>1. JobHolds' /\ HeadIsWhole' /\ BuildsInOrder'
    BY <1>4, <1>n DEF FinishJob, FailDataset, KillJob, JobHolds, HeadIsWhole, BuildsInOrder
  <2> QED
    BY <1>4, <1>s, <2>1, WritesNothing DEF FinishJob, FailDataset, KillJob
<1>5. CASE SkipDataset
  <2>1. job # NoJob /\ job.step = "read" /\ job.left # <<>>
    BY <1>5, <1>n DEF SkipDataset
  <2>2. job' = [job EXCEPT !.left = Tail(job.left)]
    BY <1>5 DEF SkipDataset
  <2>3. /\ job'.step = "read" /\ job'.left = Tail(job.left)
        /\ job' \in [step : {"read", "write", "output", "reject", "quarantine"},
                     left : Seq(DatasetSet), prices : SUBSET PricePool,
                     events : SUBSET AllEvents]
    BY <1>r, <2>1, <2>2 DEF EnrichmentInv, JobHolds
  <2>4. Accounted(Head(job.left))
    <3>1. sources[Head(job.left)] = {} /\ Head(job.left) \in DatasetSet
      BY <1>5, <1>r, <2>1 DEF SkipDataset
    <3>2. /\ builtFrom[Head(job.left)].events = {}
          /\ rejects[Head(job.left)] = {}
      BY <3>1 DEF EnrichmentInv, RowsAreOfSources
    <3>3. \A row \in output[Head(job.left)] : row.event \in builtFrom[Head(job.left)].events
      BY <3>1 DEF EnrichmentInv, PricedPointInTime
    <3> QED
      BY <3>2, <3>3 DEF Accounted, OutputIsWhole
  <2>5. BuildsInOrder'
    <3>1. \A d \in DatasetSet : IsLeft(d, Tail(job.left)) \/ Accounted(d)
      BY <1>r, <2>1, <2>4 DEF EnrichmentInv, BuildsInOrder
    <3>2. \A d \in DatasetSet : Accounted(d)' = Accounted(d)
      BY <1>5, <1>k DEF SkipDataset
    <3> QED
      BY <2>3, <3>1, <3>2 DEF BuildsInOrder
  <2>6. JobHolds' /\ HeadIsWhole'
    BY <2>3 DEF JobHolds, HeadIsWhole
  <2> QED
    BY <1>5, <1>s, <2>5, <2>6, WritesNothing DEF SkipDataset
<1>6. CASE ReadEvents
  <2>1. job # NoJob /\ job.step = "read" /\ job.left # <<>>
    BY <1>6, <1>n DEF ReadEvents
  <2>2. job' = [job EXCEPT !.step = "write", !.events = sources[Head(job.left)]]
    BY <1>6 DEF ReadEvents
  <2>3. /\ job'.step = "write" /\ job'.left = job.left /\ job'.events = sources[Head(job.left)]
        /\ job' \in [step : {"read", "write", "output", "reject", "quarantine"},
                     left : Seq(DatasetSet), prices : SUBSET PricePool,
                     events : SUBSET AllEvents]
    BY <1>r, <1>s, <2>1, <2>2 DEF EnrichmentInv, JobHolds
  <2>4. JobHolds' /\ HeadIsWhole'
    BY <1>6, <1>r, <1>s, <2>1, <2>3 DEF ReadEvents, JobHolds, HeadIsWhole
  <2>5. BuildsInOrder'
    <3>1. \A d \in DatasetSet : Accounted(d)' = Accounted(d)
      BY <1>6, <1>k DEF ReadEvents
    <3> QED
      BY <2>1, <2>3, <3>1 DEF EnrichmentInv, BuildsInOrder
  <2> QED
    BY <1>6, <1>s, <2>4, <2>5, WritesNothing DEF ReadEvents
<1>w. ASSUME job # NoJob, job.step # "read", job.step # "idle"
      PROVE  /\ Head(job.left) \in DatasetSet /\ job.left # <<>>
             /\ job \in [step : {"read", "write", "output", "reject", "quarantine"},
                         left : Seq(DatasetSet), prices : SUBSET PricePool,
                         events : SUBSET AllEvents]
             /\ Basis.events = job.events /\ Basis.prices = job.prices
             /\ Basis.events \subseteq EventPool[Head(job.left)]
             /\ Basis.prices \subseteq PricePool
             /\ Basis.events \subseteq sources[Head(job.left)]
             /\ Accepted(Head(job.left)) = Written(Head(job.left), Basis)
             /\ Refused(Head(job.left)) = Quarantined(Head(job.left), Basis)
  BY <1>w, <1>r DEF EnrichmentInv, JobHolds, Basis, Accepted, Refused, Written, Quarantined
<1>7. ASSUME NEW rows, NEW basis, NEW step \in {"output", "reject"},
             job # NoJob, job.step \in {"write", "output"},
             PricedIn(Head(job.left), rows, basis),
             basis.events \subseteq sources[Head(job.left)],
             step = "reject" =>
                /\ basis = Basis
                /\ {row.event : row \in rows} = {e \in basis.events : e.id # Unknown},
             output' = [output EXCEPT ![Head(job.left)] = rows],
             builtFrom' = [builtFrom EXCEPT ![Head(job.left)] = basis],
             job' = [job EXCEPT !.step = step],
             UNCHANGED <<sources, prices, rejects>>
      PROVE  EnrichmentInv'
  <2> DEFINE d == Head(job.left)
  <2>1. /\ d \in DatasetSet /\ job.left # <<>> /\ IsLeft(d, job.left)
        /\ job \in [step : {"read", "write", "output", "reject", "quarantine"},
                    left : Seq(DatasetSet), prices : SUBSET PricePool, events : SUBSET AllEvents]
    BY <1>7, <1>w, <1>r
  <2>2. /\ job'.step = step /\ job'.left = job.left /\ job'.events = job.events
        /\ job'.prices = job.prices
        /\ job' \in [step : {"read", "write", "output", "reject", "quarantine"},
                     left : Seq(DatasetSet), prices : SUBSET PricePool, events : SUBSET AllEvents]
    BY <1>7, <2>1
  <2>3. job'.left = job.left /\ Head(job'.left) = d /\ Basis' = Basis
    BY <2>2 DEF Basis
  <2>4. /\ PricedPointInTime'
        /\ output'[d] = rows /\ builtFrom'[d] = basis
        /\ \A c \in DatasetSet \ {d} : output'[c] = output[c] /\ builtFrom'[c] = builtFrom[c]
        /\ output' = [c \in DatasetSet |-> output'[c]]
        /\ builtFrom' = [c \in DatasetSet |-> builtFrom'[c]]
    BY <1>7, <2>1, OneOutputMoves DEF EnrichmentInv
  <2> HIDE DEF d
  <2>5. JobHolds'
    BY <1>7, <2>1, <2>2, <2>3, <1>n DEF EnrichmentInv, JobHolds, d
  <2>6. RowsAreOfSources'
    BY <1>7, <2>1, <2>4 DEF EnrichmentInv, RowsAreOfSources, d
  <2>7. HeadIsWhole'
    BY <1>7, <2>2, <2>3, <2>4 DEF HeadIsWhole, OutputIsWhole
  <2>8. BuildsInOrder'
    <3>1. \A c \in DatasetSet \ {d} : Accounted(c) => Accounted(c)'
      BY <1>7, <2>4 DEF Accounted, OutputIsWhole
    <3> QED
      BY <1>7, <2>1, <2>2, <3>1 DEF EnrichmentInv, BuildsInOrder
  <2> QED
    BY <1>7, <1>s, <2>4, <2>5, <2>6, <2>7, <2>8 DEF EnrichmentInv
<1>8. CASE OverwriteOutput
  <2> DEFINE d == Head(job.left)
  <2>1. job # NoJob /\ job.step = "write"
    BY <1>8, <1>n DEF OverwriteOutput
  <2>2. /\ d \in DatasetSet /\ Accepted(d) = Written(d, Basis)
        /\ Basis.events \subseteq EventPool[d] /\ Basis.prices \subseteq PricePool
        /\ Basis.events \subseteq sources[d]
    BY <1>w, <2>1
  <2> HIDE DEF d
  <2>3. /\ PricedIn(d, output[d], builtFrom[d])
        /\ PricedIn(d, Accepted(d), Basis)
    BY <2>2, PricedByDataset, BuildIsPriced DEF EnrichmentInv
  <2>4. job' = [job EXCEPT !.step = "output"] /\ UNCHANGED <<sources, prices, rejects>>
    BY <1>8 DEF OverwriteOutput
  <2>5. CASE \E left \in SUBSET output[d] :
               output' = [output EXCEPT ![d] = left] /\ builtFrom' = builtFrom
    <3>1. PICK left \in SUBSET output[d] : output' = [output EXCEPT ![d] = left]
      BY <2>5
    <3>2. PricedIn(d, left, builtFrom[d])
      BY <2>3, <3>1, PartIsPriced
    <3>3. builtFrom' = [builtFrom EXCEPT ![d] = builtFrom[d]]
      BY <2>2, <2>5 DEF EnrichmentInv
    <3>4. builtFrom[d].events \subseteq sources[d]
      BY <2>2 DEF EnrichmentInv, RowsAreOfSources
    <3> QED
      BY <1>7, <2>1, <2>4, <3>1, <3>2, <3>3, <3>4 DEF d
  <2>6. CASE \E put \in SUBSET Accepted(d) :
               output' = [output EXCEPT ![d] = put] /\ builtFrom' = [builtFrom EXCEPT ![d] = Basis]
    <3>1. PICK put \in SUBSET Accepted(d) : output' = [output EXCEPT ![d] = put]
      BY <2>6
    <3>2. PricedIn(d, put, Basis)
      BY <2>3, <3>1, PartIsPriced
    <3> QED
      BY <1>7, <2>1, <2>2, <2>4, <2>6, <3>1, <3>2 DEF d
  <2> QED
    BY <1>8, <2>5, <2>6 DEF OverwriteOutput, d
<1>9. CASE WriteOutput
  <2> DEFINE d == Head(job.left)
  <2>1. job # NoJob /\ job.step = "output"
    BY <1>9, <1>n DEF WriteOutput
  <2>2. /\ d \in DatasetSet /\ Accepted(d) = Written(d, Basis)
        /\ Basis.events \subseteq EventPool[d] /\ Basis.prices \subseteq PricePool
        /\ Basis.events \subseteq sources[d]
    BY <1>w, <2>1
  <2>3. /\ PricedIn(d, Accepted(d), Basis)
        /\ {row.event : row \in Accepted(d)} = {e \in Basis.events : e.id # Unknown}
    BY <2>2, BuildIsPriced
  <2> QED
    BY <1>7, <1>9, <2>1, <2>2, <2>3 DEF WriteOutput
<1>10. CASE OverwriteRejected
  <2> DEFINE d == Head(job.left)
  <2>1. job # NoJob /\ job.step = "reject"
    BY <1>10, <1>n DEF OverwriteRejected
  <2>2. /\ d \in DatasetSet /\ job.left # <<>> /\ IsLeft(d, job.left)
        /\ Refused(d) = Quarantined(d, Basis)
        /\ Basis.events \subseteq EventPool[d] /\ Basis.prices \subseteq PricePool
        /\ Basis.events \subseteq sources[d]
        /\ job \in [step : {"read", "write", "output", "reject", "quarantine"},
                    left : Seq(DatasetSet), prices : SUBSET PricePool, events : SUBSET AllEvents]
    BY <1>r, <1>w, <2>1
  <2>3. PICK some \in (SUBSET rejects[d]) \cup (SUBSET Refused(d)) :
          rejects' = [rejects EXCEPT ![d] = some]
    BY <1>10 DEF OverwriteRejected
  <2>4. \A row \in Refused(d) : row.event \in sources[d]
    BY <2>2, BuildIsPriced
  <2>5. /\ job' = [job EXCEPT !.step = "quarantine"]
        /\ UNCHANGED <<sources, prices, output, builtFrom>>
    BY <1>10 DEF OverwriteRejected
  <2>6. /\ job'.step = "quarantine" /\ job'.left = job.left /\ job'.events = job.events
        /\ job'.prices = job.prices /\ Basis' = Basis
        /\ job' \in [step : {"read", "write", "output", "reject", "quarantine"},
                     left : Seq(DatasetSet), prices : SUBSET PricePool, events : SUBSET AllEvents]
    BY <2>2, <2>5 DEF Basis
  <2>7. /\ \A c \in DatasetSet \ {d} : rejects'[c] = rejects[c]
        /\ rejects'[d] = some /\ rejects' = [c \in DatasetSet |-> rejects'[c]]
    BY <2>2, <2>3 DEF EnrichmentInv
  <2> HIDE DEF d
  <2>8. RowsAreOfSources'
    <3>1. ASSUME NEW c \in DatasetSet, NEW row \in rejects'[c] PROVE row.event \in sources[c]
      <4>1. CASE c # d
        BY <2>7, <3>1, <4>1 DEF EnrichmentInv, RowsAreOfSources
      <4>2. CASE c = d
        <5>1. row \in rejects[d] \/ row \in Refused(d)
          BY <2>3, <2>7, <3>1, <4>2
        <5> QED
          BY <2>2, <2>4, <4>2, <5>1 DEF EnrichmentInv, RowsAreOfSources
      <4> QED
        BY <4>1, <4>2
    <3> QED
      BY <2>5, <3>1 DEF EnrichmentInv, RowsAreOfSources
  <2>9. PricedPointInTime'
    <3>1. PricedPointInTime /\ output' = output /\ builtFrom' = builtFrom
      BY <2>5 DEF EnrichmentInv
    <3> QED
      BY <3>1, ZenonT(40) DEF PricedPointInTime
  <2>10. JobHolds'
    BY <2>1, <2>2, <2>5, <2>6 DEF EnrichmentInv, JobHolds
  <2>11. HeadIsWhole'
    BY <2>1, <2>5, <2>6 DEF EnrichmentInv, HeadIsWhole, OutputIsWhole
  <2>12. BuildsInOrder'
    <3>1. \A c \in DatasetSet \ {d} : Accounted(c) => Accounted(c)'
      BY <2>5, <2>7 DEF Accounted, OutputIsWhole
    <3> QED
      BY <2>1, <2>2, <2>6, <3>1 DEF EnrichmentInv, BuildsInOrder
  <2> QED
    BY <1>s, <2>5, <2>7, <2>8, <2>9, <2>10, <2>11, <2>12 DEF EnrichmentInv
<1>11. CASE WriteRejected
  <2>1. job # NoJob /\ job.step = "quarantine"
    BY <1>11, <1>n DEF WriteRejected
  <2>d. PICK d \in DatasetSet : d = Head(job.left)
    BY <1>w, <2>1
  <2>2. /\ job.left # <<>>
        /\ Refused(d) = Quarantined(d, Basis)
        /\ Basis.events \subseteq EventPool[d] /\ Basis.prices \subseteq PricePool
        /\ Basis.events \subseteq sources[d] /\ Basis.events = job.events
        /\ job \in [step : {"read", "write", "output", "reject", "quarantine"},
                    left : Seq(DatasetSet), prices : SUBSET PricePool, events : SUBSET AllEvents]
        /\ Tail(job.left) \in Seq(DatasetSet)
        /\ \A c : IsLeft(c, job.left) => c = d \/ IsLeft(c, Tail(job.left))
    BY <1>r, <1>w, <2>d, <2>1
  <2>3. /\ rejects' = [rejects EXCEPT ![d] = Refused(d)]
        /\ UNCHANGED <<sources, prices, output, builtFrom>>
        /\ job' = [job EXCEPT !.step = "read", !.left = Tail(job.left), !.events = {}]
    BY <1>11, <2>d DEF WriteRejected
  <2>4. {row.event : row \in Refused(d)} = {e \in Basis.events : e.id = Unknown}
    BY <2>2, BuildIsPriced
  <2>5. /\ job'.step = "read" /\ job'.left = Tail(job.left)
        /\ job' \in [step : {"read", "write", "output", "reject", "quarantine"},
                     left : Seq(DatasetSet), prices : SUBSET PricePool, events : SUBSET AllEvents]
    BY <2>2, <2>3
  <2>6. /\ \A c \in DatasetSet \ {d} : rejects'[c] = rejects[c]
        /\ rejects'[d] = Refused(d) /\ rejects' = [c \in DatasetSet |-> rejects'[c]]
    BY <2>2, <2>3 DEF EnrichmentInv
  <2>7. OutputIsWhole(d) /\ builtFrom[d] = Basis
    BY <2>d, <2>1 DEF EnrichmentInv, HeadIsWhole
  <2>8. RowsAreOfSources'
    <3>1. \A row \in Refused(d) : row.event \in sources[d]
      BY <2>2, <2>4
    <3> QED
      BY <2>3, <2>6, <3>1 DEF EnrichmentInv, RowsAreOfSources
  <2>9. PricedPointInTime'
    <3>1. PricedPointInTime /\ output' = output /\ builtFrom' = builtFrom
      BY <2>3 DEF EnrichmentInv
    <3> QED
      BY <3>1, ZenonT(40) DEF PricedPointInTime
  <2>10. JobHolds' /\ HeadIsWhole'
    BY <2>5 DEF JobHolds, HeadIsWhole
  <2>11. BuildsInOrder'
    <3>1. Accounted(d)'
      <4>1. output' = output /\ builtFrom' = builtFrom /\ rejects'[d] = Refused(d)
        BY <2>3, <2>6
      <4>2. {row.event : row \in output[d]} = {e \in Basis.events : e.id # Unknown}
        BY <2>7 DEF OutputIsWhole
      <4> QED
        BY <2>4, <2>7, <4>1, <4>2, Zenon DEF Accounted, OutputIsWhole
    <3>2. \A c \in DatasetSet \ {d} : Accounted(c) => Accounted(c)'
      BY <2>3, <2>6 DEF Accounted, OutputIsWhole
    <3>3. \A c \in DatasetSet : c = d \/ IsLeft(c, Tail(job.left)) \/ Accounted(c)
      BY <2>1, <2>2 DEF EnrichmentInv, BuildsInOrder
    <3> QED
      BY <2>5, <3>1, <3>2, <3>3, Zenon DEF BuildsInOrder
  <2> QED
    BY <1>s, <2>3, <2>6, <2>8, <2>9, <2>10, <2>11 DEF EnrichmentInv
<1>12. CASE UNCHANGED enrichmentVars
  <2>1. JobHolds'
    BY <1>12 DEF EnrichmentInv, enrichmentVars, JobHolds
  <2> QED
    BY <1>12, <1>s, <1>u, <2>1, WritesNothing DEF enrichmentVars
<1> QED
  BY <1>1, <1>2, <1>3, <1>4, <1>5, <1>6, <1>8, <1>9, <1>10, <1>11, <1>12 DEF EnrichmentNext

LEMMA EnrichmentSafety == EnrichmentSpec => []EnrichmentInv
<1>1. EnrichmentInit => EnrichmentInv
  <2> SUFFICES ASSUME EnrichmentInit PROVE EnrichmentInv
    OBVIOUS
  <2>1. PricedPointInTime
    BY DEF EnrichmentInit, PricedPointInTime
  <2>2. JobHolds /\ BuildsInOrder
    BY DEF EnrichmentInit, JobHolds, BuildsInOrder
  <2>3. RowsAreOfSources /\ HeadIsWhole
    BY DEF EnrichmentInit, RowsAreOfSources, HeadIsWhole, NoJob
  <2> QED
    BY <2>1, <2>2, <2>3 DEF EnrichmentInit, EnrichmentInv
<1>2. EnrichmentInv /\ [EnrichmentNext]_enrichmentVars => EnrichmentInv'
  BY EnrichmentInvStep
<1> QED
  BY <1>1, <1>2, PTL DEF EnrichmentSpec

\* For any datasets, mapping, prices and events, however they arrive while builds run, fail
\* and die: every row of an output, torn or not, is of one build, and every amount has the
\* newest price of its window exactly when it can be priced (enrich_event_leg, _build_model).
THEOREM PricesArePointInTime == EnrichmentSpec => []PricedPointInTime
<1>1. EnrichmentInv => PricedPointInTime
  BY DEF EnrichmentInv
<1> QED
  BY <1>1, EnrichmentSafety, PTL

\* For the same, a build that reaches its end accounts for every event of every dataset: a
\* dataset that a kill has left torn has a source and is built again
\* (build_price_enriched_silver).
THEOREM FinishedBuildsRepair == EnrichmentSpec => []FinishedBuildsAreWhole
<1>1. EnrichmentInv => FinishedBuildsAreWhole
  <2> SUFFICES ASSUME EnrichmentInv, job.step = "read", job.left = <<>>, NEW d \in DatasetSet
               PROVE  Accounted(d)
    BY DEF FinishedBuildsAreWhole
  <2>1. job # NoJob
    BY DEF NoJob
  <2>2. ~IsLeft(d, job.left)
    BY DEF IsLeft
  <2> QED
    BY <2>1, <2>2 DEF EnrichmentInv, BuildsInOrder
<1> QED
  BY <1>1, EnrichmentSafety, PTL

--------------------------------------------------------------------------------
\* ---- RawLoad ----

InTransaction == {"merged", "marked", "committing"}

Alone ==
  PoolKeepsApart => \A a, b \in Attempts : Live(a) /\ Live(b) => a = b

Holding ==
  \A a \in Attempts : load[a].step \in InTransaction => lock = a

Represented(rows, values) ==
  \A row \in rows : row.key \in Keys => values[row.key] >= row.at

Covers ==
  \A a \in Attempts :
    load[a].step = "merged" => Represented((landing \ marked) \ between, load[a].raw)

Marks ==
  \A a \in Attempts :
    load[a].step \in {"marked", "committing"} => Represented(load[a].marks \ between, load[a].raw)

Grows ==
  \A a \in Attempts :
    load[a].step \in InTransaction => \A k \in Keys : load[a].raw[k] >= raw[k]

LoadInv ==
  /\ LoadTypeOK
  /\ Alone
  /\ Holding
  /\ Covers
  /\ Marks
  /\ Grows
  /\ MarkedIsMerged

--------------------------------------------------------------------------------

\* ROW_NUMBER() = 1 picks, of a key that has unmerged rows, the row loaded last.
LEMMA NewestIsNewest ==
  ASSUME LoadTypeOK, NEW k \in Keys, UnmergedAt(k) # {}
  PROVE  /\ NewestUnmerged(k) \in UnmergedAt(k)
         /\ NewestUnmerged(k) \in 1 .. MaxLoads
         /\ \A at \in UnmergedAt(k) : at <= NewestUnmerged(k)
<1>1. \A r \in landing : r.at \in 1 .. MaxLoads
  BY DEF LoadTypeOK, Landed
<1>2. UnmergedAt(k) \subseteq 0 .. MaxLoads /\ UnmergedAt(k) \subseteq 1 .. MaxLoads
  BY <1>1, MaxLoadsAssumption DEF UnmergedAt
<1>3. \E m \in UnmergedAt(k) : \A at \in UnmergedAt(k) : at <= m
  BY <1>2, MaxLoadsAssumption, GreatestElement
<1> QED
  BY <1>2, <1>3 DEF NewestUnmerged

\* MERGE leaves of each key the newest of its RAW row and its unmerged rows.
LEMMA MergedIsNewest ==
  ASSUME LoadTypeOK, NEW k \in Keys
  PROVE  /\ MergedRaw(k) \in 0 .. MaxLoads
         /\ MergedRaw(k) >= raw[k]
         /\ \A row \in landing \ marked : row.key = k => MergedRaw(k) >= row.at
<1>1. raw[k] \in 0 .. MaxLoads
  BY DEF LoadTypeOK
<1>2. \A row \in landing \ marked : row.key = k => row.at \in UnmergedAt(k)
  BY DEF UnmergedAt
<1>3. \A row \in landing \ marked : row.at \in 1 .. MaxLoads
  BY DEF LoadTypeOK, Landed
<1>4. CASE UnmergedAt(k) = {}
  BY <1>1, <1>2, <1>4, MaxLoadsAssumption DEF MergedRaw
<1>5. CASE UnmergedAt(k) # {}
  <2>1. /\ NewestUnmerged(k) \in 1 .. MaxLoads
        /\ \A at \in UnmergedAt(k) : at <= NewestUnmerged(k)
    BY <1>5, NewestIsNewest
  <2>2. CASE NewestUnmerged(k) >= raw[k]
    BY <1>1, <1>2, <1>3, <1>5, <2>1, <2>2, MaxLoadsAssumption DEF MergedRaw
  <2>3. CASE ~(NewestUnmerged(k) >= raw[k])
    BY <1>1, <1>2, <1>3, <1>5, <2>1, <2>3, MaxLoadsAssumption DEF MergedRaw
  <2> QED
    BY <2>2, <2>3
<1> QED
  BY <1>4, <1>5

\* An attempt that has not begun, or whose session has ended, is a load state.
LEMMA NoLoadIsState == NoLoad \in LoadStates
<1>1. 0 \in 0 .. MaxLoads /\ {} \in SUBSET Landed
  BY MaxLoadsAssumption
<1>2. [k \in Keys |-> 0] \in [Keys -> 0 .. MaxLoads]
  BY <1>1
<1> QED
  BY <1>1, <1>2 DEF NoLoad, LoadStates

\* Every statement of every attempt, and every death, keeps the types.
LEMMA TypingStep ==
  ASSUME LoadTypeOK, [LoadNext]_loadVars
  PROVE  LoadTypeOK'
<1> USE NoLoadIsState, MaxLoadsAssumption
<1>1. CASE WriteStage
  BY <1>1 DEF LoadTypeOK, WriteStage
<1>2. CASE RepairStage
  BY <1>2 DEF LoadTypeOK, RepairStage
<1>3. ASSUME NEW a \in Attempts, StartLoad(a)
      PROVE  LoadTypeOK'
  <2>1. started' \in 0 .. MaxLoads
    BY <1>3 DEF LoadTypeOK, StartLoad
  <2>2. [NoLoad EXCEPT !.step = "validated", !.at = started'] \in LoadStates
    BY <2>1 DEF LoadStates
  <2> QED
    BY <1>3, <2>1, <2>2 DEF LoadTypeOK, StartLoad
<1>4. ASSUME NEW a \in Attempts, CopyAborts(a)
      PROVE  LoadTypeOK'
  BY <1>4 DEF LoadTypeOK, CopyAborts
<1>c. ASSUME NEW a \in Attempts
      PROVE  Taken(a) \subseteq Landed
  BY DEF Taken, RowsOfFiles
<1>5. ASSUME NEW a \in Attempts, Copy(a)
      PROVE  LoadTypeOK'
  <2>2. [load[a] EXCEPT !.step = "copied"] \in LoadStates
    BY DEF LoadTypeOK, LoadStates
  <2>3. load' \in [Attempts -> LoadStates]
    BY <1>5, <2>2 DEF LoadTypeOK, Copy
  <2> QED
    BY <1>5, <1>c, <2>3 DEF LoadTypeOK, Copy, LandFiles, NewFiles
<1>6. ASSUME NEW a \in Attempts, BeginLoad(a)
      PROVE  LoadTypeOK'
  <2>1. [load[a] EXCEPT !.step = "begun"] \in LoadStates
    BY DEF LoadTypeOK, LoadStates
  <2> QED
    BY <1>6, <2>1 DEF LoadTypeOK, BeginLoad
<1>7. ASSUME NEW a \in Attempts, Merge(a)
      PROVE  LoadTypeOK'
  <2>1. [k \in Keys |-> MergedRaw(k)] \in [Keys -> 0 .. MaxLoads]
    BY MergedIsNewest
  <2>2. [load[a] EXCEPT !.step = "merged", !.raw = [k \in Keys |-> MergedRaw(k)]]
          \in LoadStates
    BY <2>1 DEF LoadTypeOK, LoadStates
  <2>3. load' = [load EXCEPT ![a] = [load[a] EXCEPT !.step = "merged",
                                                 !.raw = [k \in Keys |-> MergedRaw(k)]]]
    BY <1>7 DEF LoadTypeOK, Merge
  <2>4. load' \in [Attempts -> LoadStates]
    BY <2>2, <2>3 DEF LoadTypeOK
  <2> QED
    BY <1>7, <2>4 DEF LoadTypeOK, Merge
<1>8. ASSUME NEW a \in Attempts, Mark(a)
      PROVE  LoadTypeOK'
  <2>1. [load[a] EXCEPT !.step = "marked", !.marks = landing \ marked] \in LoadStates
    BY DEF LoadTypeOK, LoadStates
  <2>2. load' \in [Attempts -> LoadStates]
    BY <1>8, <2>1 DEF LoadTypeOK, Mark
  <2> QED
    BY <1>8, <2>2 DEF LoadTypeOK, Mark
<1>9. ASSUME NEW a \in Attempts, Applied(a)
      PROVE  LoadTypeOK'
  <2>1. load[a].raw \in [Keys -> 0 .. MaxLoads] /\ load[a].marks \subseteq Landed
    BY DEF LoadTypeOK, LoadStates
  <2> QED
    BY <1>9, <2>1 DEF LoadTypeOK, Applied
<1>10. ASSUME NEW a \in Attempts, FailLoad(a) \/ EndSession(a)
       PROVE  LoadTypeOK'
  BY <1>10 DEF LoadTypeOK, FailLoad, EndSession
<1>l. ASSUME NEW a \in Attempts, LateCopy(a)
      PROVE  LoadTypeOK'
  BY <1>l, <1>c DEF LoadTypeOK, LateCopy, LandFiles, NewFiles
<1>11. ASSUME NEW a \in Attempts, KillLoad(a)
       PROVE  LoadTypeOK'
  <2>1. /\ [load[a] EXCEPT !.step = "lingering"] \in LoadStates
        /\ [load[a] EXCEPT !.step = "copying"] \in LoadStates
        /\ [load[a] EXCEPT !.step = "committing"] \in LoadStates
    BY DEF LoadTypeOK, LoadStates
  <2>2. load' \in [Attempts -> LoadStates]
    BY <1>11, <2>1 DEF LoadTypeOK, KillLoad
  <2> QED
    BY <1>11, <2>2 DEF LoadTypeOK, KillLoad
<1>12. CASE UNCHANGED loadVars
  BY <1>12 DEF LoadTypeOK, loadVars
<1> QED
  BY <1>1, <1>2, <1>3, <1>4, <1>5, <1>6, <1>7, <1>8, <1>9, <1>10, <1>l, <1>11, <1>12
     DEF LoadNext, CommitLoad, LateCommit

\* The dataset's load keeps its types, whatever the pool does: what an attempt has written
\* is dated by the COPY it came from, and only rows COPY has landed are marked.
THEOREM LoadTyping == LoadSpec => []LoadTypeOK
<1>1. LoadInit => LoadTypeOK
  BY NoLoadIsState, MaxLoadsAssumption DEF LoadInit, LoadTypeOK
<1>2. LoadTypeOK /\ [LoadNext]_loadVars => LoadTypeOK'
  BY TypingStep
<1> QED
  BY <1>1, <1>2, PTL DEF LoadSpec

--------------------------------------------------------------------------------

\* Steps that touch neither RAW's transaction nor the landing rows: the attempt that takes
\* the step is in no transaction afterwards, and no other moves.
LEMMA QuietStep ==
  ASSUME LoadInv, LoadTypeOK',
         NEW a \in Attempts,
         \A b \in Attempts \ {a} : load'[b] = load[b],
         load'[a].step \notin InTransaction,
         UNCHANGED <<landing, marked, raw, between>>,
         lock' = lock \/ (lock = a /\ lock' = "none")
  PROVE  Holding' /\ Covers' /\ Marks' /\ Grows' /\ MarkedIsMerged'
<1> USE DEF LoadInv, InTransaction
<1>1. Holding'
  BY AttemptsAssumption DEF Holding
<1>2. Covers'
  BY DEF Covers, Represented
<1>3. Marks'
  BY DEF Marks, Represented
<1>4. Grows'
  BY DEF Grows
<1>5. MarkedIsMerged'
  BY DEF MarkedIsMerged
<1> QED
  BY <1>1, <1>2, <1>3, <1>4, <1>5

\* COMMIT, in time or late: the lock makes it the only transaction, what it marks it has
\* merged, and RAW does not lose what earlier commits put there.
LEMMA CommitStep ==
  ASSUME LoadInv, LoadTypeOK', NEW a \in Attempts, Applied(a),
         load[a].step \in {"marked", "committing"}
  PROVE  LoadInv'
<1> USE DEF LoadInv
<1>1. load' = [load EXCEPT ![a] = NoLoad] /\ load \in [Attempts -> LoadStates]
  BY DEF Applied, LoadTypeOK
<1>2. load'[a].step = "idle" /\ \A b \in Attempts \ {a} : load'[b] = load[b]
  BY <1>1 DEF NoLoad
<1>3. \A b \in Attempts \ {a} : load[b].step \notin InTransaction
  BY DEF Holding, InTransaction
<1>4. \A b \in Attempts : load'[b].step \notin InTransaction
  BY <1>2, <1>3 DEF InTransaction
<1>5. Alone'
  BY <1>2 DEF Alone, Live
<1>6. Holding' /\ Covers' /\ Marks' /\ Grows'
  BY <1>4 DEF Holding, Covers, Marks, Grows, InTransaction
<1>7. MarkedIsMerged'
  <2>1. raw' = load[a].raw /\ marked' = marked \cup load[a].marks
    BY DEF Applied
  <2>2. Represented(load[a].marks \ between, load[a].raw) /\ between' = between
    BY DEF Marks, Applied
  <2>3. \A k \in Keys : load[a].raw[k] >= raw[k] /\ load[a].raw[k] \in Nat /\ raw[k] \in Nat
    <3>1. load[a].raw \in [Keys -> 0 .. MaxLoads] /\ raw \in [Keys -> 0 .. MaxLoads]
      BY <1>1 DEF LoadTypeOK, LoadStates
    <3> QED
      BY <3>1, MaxLoadsAssumption DEF Grows, InTransaction
  <2>4. \A row \in marked : row.at \in Nat
    BY MaxLoadsAssumption DEF LoadTypeOK, Landed
  <2> SUFFICES ASSUME NEW row \in marked' \ between', row.key \in Keys
               PROVE  raw'[row.key] >= row.at
    BY DEF MarkedIsMerged
  <2>5. CASE row \in marked
    BY <2>1, <2>2, <2>3, <2>4, <2>5 DEF MarkedIsMerged
  <2>6. CASE row \in load[a].marks
    BY <2>1, <2>2, <2>6 DEF Represented
  <2> QED
    BY <2>1, <2>2, <2>5, <2>6
<1> QED
  BY <1>5, <1>6, <1>7

\* The invariant is inductive when the pool keeps the loads of the dataset apart.
LEMMA LoadInvStep ==
  ASSUME PoolKeepsApart, LoadInv, [LoadNext]_loadVars
  PROVE  LoadInv'
<1>0. LoadTypeOK /\ LoadTypeOK'
  BY TypingStep DEF LoadInv
<1>t. load \in [Attempts -> LoadStates]
  BY <1>0 DEF LoadTypeOK
<1>1. CASE WriteStage \/ RepairStage \/ UNCHANGED loadVars
  <2>1. UNCHANGED <<landing, marked, raw, load, lock, between>>
    BY <1>1 DEF WriteStage, RepairStage, loadVars
  <2> QED
    BY <1>0, <2>1 DEF LoadInv, Alone, Live, Holding, Covers, Represented, Marks, Grows,
                      MarkedIsMerged
<1>2. ASSUME NEW a \in Attempts, StartLoad(a)
      PROVE  LoadInv'
  <2>1. load'[a].step = "validated" /\ \A b \in Attempts \ {a} : load'[b] = load[b]
    BY <1>2, <1>t DEF StartLoad, NoLoad
  <2>2. \A b \in Attempts : ~Live(b)
    BY <1>2 DEF StartLoad, Live, NoLoad
  <2>3. Alone'
    BY <2>1, <2>2 DEF Alone, Live
  <2>4. Holding' /\ Covers' /\ Marks' /\ Grows' /\ MarkedIsMerged'
    <3>1. UNCHANGED <<landing, marked, raw, lock, between>>
      BY <1>2 DEF StartLoad
    <3> QED
      BY <1>0, <2>1, <3>1, QuietStep DEF InTransaction
  <2> QED
    BY <1>0, <2>3, <2>4 DEF LoadInv
<1>3. ASSUME NEW a \in Attempts,
             CopyAborts(a) \/ FailLoad(a) \/ EndSession(a)
      PROVE  LoadInv'
  <2>1. load'[a].step = "idle" /\ \A b \in Attempts \ {a} : load'[b] = load[b]
    BY <1>3, <1>t DEF CopyAborts, FailLoad, EndSession, NoLoad
  <2>2. Alone'
    BY <2>1 DEF LoadInv, Alone, Live
  <2>3. /\ UNCHANGED <<landing, marked, raw, between>>
        /\ lock' = lock \/ (lock = a /\ lock' = "none")
    BY <1>3 DEF CopyAborts, FailLoad, EndSession
  <2>4. Holding' /\ Covers' /\ Marks' /\ Grows' /\ MarkedIsMerged'
    BY <1>0, <2>1, <2>3, QuietStep DEF InTransaction
  <2> QED
    BY <1>0, <2>2, <2>4 DEF LoadInv
<1>4. ASSUME NEW a \in Attempts, BeginLoad(a)
      PROVE  LoadInv'
  <2>1. /\ load[a].step = "copied" /\ load'[a].step = "begun"
        /\ \A b \in Attempts \ {a} : load'[b] = load[b]
    BY <1>4, <1>t DEF BeginLoad, LoadStates
  <2>2. Alone'
    BY <2>1 DEF LoadInv, Alone, Live
  <2>3. UNCHANGED <<landing, marked, raw, lock, between>>
    BY <1>4 DEF BeginLoad
  <2>4. Holding' /\ Covers' /\ Marks' /\ Grows' /\ MarkedIsMerged'
    BY <1>0, <2>1, <2>3, QuietStep DEF InTransaction
  <2> QED
    BY <1>0, <2>2, <2>4 DEF LoadInv
<1>5. ASSUME NEW a \in Attempts, Copy(a)
      PROVE  LoadInv'
  <2>1. /\ load[a].step = "validated" /\ load'[a].step = "copied"
        /\ \A b \in Attempts \ {a} : load'[b] = load[b]
    BY <1>5, <1>t DEF Copy, LoadStates
  <2>2. Alone'
    BY <2>1 DEF LoadInv, Alone, Live
  <2>3. \A b \in Attempts : load'[b].step # "merged"
    <3>1. \A b \in Attempts \ {a} : ~Live(b)
      BY <2>1 DEF LoadInv, Alone, Live
    <3> QED
      BY <2>1, <3>1 DEF Live
  <2>4. UNCHANGED <<marked, raw, lock, between>>
    BY <1>5 DEF Copy
  <2>5. Holding' /\ Marks' /\ Grows' /\ MarkedIsMerged'
    BY <2>1, <2>4 DEF LoadInv, Holding, Marks, Represented, Grows, MarkedIsMerged,
                      InTransaction
  <2>6. Covers'
    BY <2>3 DEF Covers
  <2> QED
    BY <1>0, <2>2, <2>5, <2>6 DEF LoadInv
<1>6. ASSUME NEW a \in Attempts, Merge(a)
      PROVE  LoadInv'
  <2>1. /\ load[a].step = "begun" /\ load'[a].step = "merged"
        /\ load'[a].raw = [k \in Keys |-> MergedRaw(k)]
        /\ \A b \in Attempts \ {a} : load'[b] = load[b]
    BY <1>6, <1>t DEF Merge, LoadStates
  <2>2. Alone'
    BY <2>1 DEF LoadInv, Alone, Live
  <2>3. lock = "none" /\ lock' = a /\ UNCHANGED <<landing, marked, raw, between>>
    BY <1>6 DEF Merge
  <2>4. \A b \in Attempts : load[b].step \notin InTransaction
    BY <2>3, AttemptsAssumption DEF LoadInv, Holding
  <2>5. \A b \in Attempts \ {a} : load'[b].step \notin InTransaction
    BY <2>1, <2>4
  <2>6. Holding'
    BY <2>3, <2>5 DEF Holding
  <2>7. Covers'
    <3>1. Represented(landing \ marked, [k \in Keys |-> MergedRaw(k)])
      BY <1>0, MergedIsNewest DEF Represented
    <3> QED
      BY <2>1, <2>3, <2>5, <3>1 DEF Covers, InTransaction, Represented
  <2>8. Marks'
    BY <2>1, <2>5 DEF Marks, InTransaction
  <2>9. Grows'
    <3>1. \A k \in Keys : MergedRaw(k) >= raw[k]
      BY <1>0, MergedIsNewest
    <3> QED
      BY <2>1, <2>3, <2>5, <3>1 DEF Grows
  <2>10. MarkedIsMerged'
    BY <2>3 DEF LoadInv, MarkedIsMerged
  <2> QED
    BY <1>0, <2>2, <2>6, <2>7, <2>8, <2>9, <2>10 DEF LoadInv
<1>7. ASSUME NEW a \in Attempts, Mark(a)
      PROVE  LoadInv'
  <2>1. /\ load[a].step = "merged" /\ load'[a].step = "marked"
        /\ load'[a].raw = load[a].raw /\ load'[a].marks = landing \ marked
        /\ \A b \in Attempts \ {a} : load'[b] = load[b]
    BY <1>7, <1>t DEF Mark, LoadStates
  <2>2. UNCHANGED <<landing, marked, raw, lock, between>>
    BY <1>7 DEF Mark
  <2>3. Alone' /\ Holding' /\ Grows'
    BY <2>1, <2>2 DEF LoadInv, Alone, Live, Holding, Grows, InTransaction
  <2>4. Covers' /\ MarkedIsMerged'
    BY <2>1, <2>2 DEF LoadInv, Covers, Represented, MarkedIsMerged
  <2>5. Marks'
    <3>1. Represented(load'[a].marks \ between, load'[a].raw)
      BY <2>1 DEF LoadInv, Covers
    <3> QED
      BY <2>1, <2>2, <3>1 DEF LoadInv, Marks, Represented
  <2> QED
    BY <1>0, <2>3, <2>4, <2>5 DEF LoadInv
<1>8. ASSUME NEW a \in Attempts, CommitLoad(a) \/ LateCommit(a)
      PROVE  LoadInv'
  BY <1>0, <1>8, CommitStep DEF CommitLoad, LateCommit
<1>9. ASSUME NEW a \in Attempts, KillLoad(a)
      PROVE  LoadInv'
  <2>d. UNCHANGED <<landing, marked, raw, lock, between>>
    BY <1>9 DEF KillLoad
  <2>1. CASE \/ load' = [load EXCEPT ![a].step = "lingering"]
             \/ load' = [load EXCEPT ![a].step = "copying"]
    <3>1. /\ load'[a].step \in {"lingering", "copying"}
          /\ \A b \in Attempts \ {a} : load'[b] = load[b]
      BY <1>t, <2>1 DEF LoadStates
    <3>2. Alone'
      BY <3>1 DEF LoadInv, Alone, Live
    <3>3. Holding' /\ Covers' /\ Marks' /\ Grows' /\ MarkedIsMerged'
      BY <1>0, <2>d, <3>1, QuietStep DEF InTransaction
    <3> QED
      BY <1>0, <3>2, <3>3 DEF LoadInv
  <2>2. CASE load[a].step = "marked" /\ load' = [load EXCEPT ![a].step = "committing"]
    <3>1. /\ load'[a].step = "committing"
          /\ load'[a].raw = load[a].raw /\ load'[a].marks = load[a].marks
          /\ \A b \in Attempts \ {a} : load'[b] = load[b]
      BY <1>t, <2>2 DEF LoadStates
    <3>2. Alone' /\ Holding'
      BY <2>d, <2>2, <3>1 DEF LoadInv, Alone, Live, Holding, InTransaction
    <3>3. Covers' /\ Marks' /\ Grows' /\ MarkedIsMerged'
      BY <2>d, <2>2, <3>1 DEF LoadInv, Covers, Marks, Grows, MarkedIsMerged, Represented,
                              InTransaction
    <3> QED
      BY <1>0, <3>2, <3>3 DEF LoadInv
  <2> QED
    BY <1>9, <2>1, <2>2 DEF KillLoad
<1>10. ASSUME NEW a \in Attempts, LateCopy(a)
       PROVE  LoadInv'
  <2>1. /\ load[a].step = "copying" /\ load'[a].step = "idle"
        /\ \A b \in Attempts \ {a} : load'[b] = load[b]
    BY <1>10, <1>t DEF LateCopy, NoLoad
  <2>2. /\ UNCHANGED <<marked, raw, lock>>
        /\ landing' = landing \cup Taken(a) /\ between \subseteq between'
        /\ (\E b \in Attempts : load[b].step = "merged")
             => between' = between \cup Taken(a)
    BY <1>10 DEF LateCopy, LandFiles
  <2>3. Alone' /\ Holding' /\ Grows'
    BY <2>1, <2>2 DEF LoadInv, Alone, Live, Holding, Grows, InTransaction
  <2>4. MarkedIsMerged'
    BY <2>2 DEF LoadInv, MarkedIsMerged
  <2>5. Marks'
    BY <2>1, <2>2 DEF LoadInv, Marks, Represented
  <2>6. Covers'
    <3> SUFFICES ASSUME NEW b \in Attempts, load'[b].step = "merged"
                 PROVE  Represented((landing' \ marked') \ between', load'[b].raw)
      BY DEF Covers, Represented
    <3>1. b # a /\ load'[b] = load[b] /\ load[b].step = "merged"
      BY <2>1
    <3>2. (landing' \ marked') \ between' \subseteq (landing \ marked) \ between
      BY <2>2, <3>1
    <3> QED
      BY <3>1, <3>2 DEF LoadInv, Covers, Represented
  <2> QED
    BY <1>0, <2>3, <2>4, <2>5, <2>6 DEF LoadInv
<1> QED
  BY <1>1, <1>2, <1>3, <1>4, <1>5, <1>6, <1>7, <1>8, <1>9, <1>10 DEF LoadNext

\* With the pool keeping the loads of the dataset apart, every landing row marked merged, and
\* so never looked at again, is represented in RAW by itself or by a later copy of its key,
\* for any number of loads, keys and files and any deaths between the statements.  The rows
\* that a dead client's COPY lands between a MERGE and its UPDATE are the only exception.
THEOREM MarkedRowsAreMerged ==
  ASSUME PoolKeepsApart
  PROVE  LoadSpec => []MarkedIsMerged
<1>1. LoadInit => LoadInv
  <2> SUFFICES ASSUME LoadInit PROVE LoadInv
    OBVIOUS
  <2>1. LoadTypeOK
    BY NoLoadIsState, MaxLoadsAssumption DEF LoadInit, LoadTypeOK
  <2>2. \A a \in Attempts : load[a].step = "idle"
    BY DEF LoadInit, NoLoad
  <2>3. Alone /\ Holding /\ Covers /\ Marks /\ Grows
    BY <2>2 DEF Alone, Live, Holding, Covers, Marks, Grows, InTransaction
  <2>4. MarkedIsMerged
    BY DEF LoadInit, MarkedIsMerged
  <2> QED
    BY <2>1, <2>3, <2>4 DEF LoadInv
<1>2. LoadInv /\ [LoadNext]_loadVars => LoadInv'
  BY LoadInvStep
<1>3. LoadInv => MarkedIsMerged
  BY DEF LoadInv
<1> QED
  BY <1>1, <1>2, <1>3, PTL DEF LoadSpec

================================================================================
