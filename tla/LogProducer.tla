------------------------------ MODULE LogProducer ------------------------------
(***************************************************************************)
(* The live producer: one thread reads a WebSocket on which the node sends   *)
(* subscribed logs, confirmations and the answers to block requests, looks   *)
(* up the timestamp of each log's block on the same socket, normalizes the    *)
(* log with the plugin that recognizes it and hands it to the Kafka client,   *)
(* which delivers in the background.  An answer is awaited by reading past    *)
(* what else arrives: those messages are queued and read first afterwards.    *)
(***************************************************************************)
EXTENDS Integers, Sequences, Functions

CONSTANTS
  MaxLog,          \* bound: the logs the node emits, 1 .. MaxLog, in order
  BlockOf,         \* log -> its block, 0 where the log names none
  Unusable,        \* the logs no enabled plugin recognizes or can decode
  CacheSize,       \* the timestamps kept (256)
  BufferSize,      \* the messages the Kafka client takes undelivered
  MaxConnections   \* bound: starts of the process

ASSUME MaxLogAssumption == MaxLog \in Nat \ {0}
ASSUME BlockOfAssumption == BlockOf \in [1 .. MaxLog -> Nat]
ASSUME UnusableAssumption == Unusable \subseteq 1 .. MaxLog
ASSUME CacheSizeAssumption == CacheSize \in Nat \ {0}
ASSUME BufferSizeAssumption == BufferSize \in Nat \ {0}
ASSUME MaxConnectionsAssumption == MaxConnections \in Nat

Logs == 1 .. MaxLog

Message(kind, item) == [kind |-> kind, item |-> item]

Messages ==
    {Message("log", n) : n \in Logs} \cup
    {Message("block", BlockOf[n]) : n \in Logs} \cup
    {Message(kind, 0) : kind \in {"confirmation", "refusal", "error"}}

VARIABLES
  emitted,        \* the logs the node has emitted
  socket,         \* sent by the node, not read yet
  pending,        \* _pending_messages
  requests,       \* what the node owes: answers to subscriptions or a block, then the logs
  producer,       \* the process: its step and the log at hand
  cached,         \* _block_timestamps, least recently used first
  buffer,         \* taken by the Kafka client, not delivered
  topic,          \* the Kafka topic
  delivered,      \* history: the logs sent over this connection
  published,      \* history: the logs handed to the Kafka client over it
  connections

producerVars == <<emitted, socket, pending, requests, producer, cached, buffer, topic,
                  delivered, published, connections>>

Down == [step |-> "down", log |-> 0]
Receiving == [step |-> "receive", log |-> 0]

Up == producer.step # "down"

\* one subscription per enabled protocol
Subscriptions == {"uniswap", "aave"}

ProducerTypeOK ==
    /\ emitted \in 0 .. MaxLog
    /\ socket \in Seq(Messages) /\ pending \in Seq(Messages)
    /\ requests \subseteq Subscriptions \cup {"block", "logs"}
    /\ producer \in {Down, Receiving} \cup [step : {"lookup"}, log : Logs]
    /\ cached \in Seq(1 .. MaxLog) /\ Len(cached) <= CacheSize
    /\ buffer \in Seq(Logs) /\ Len(buffer) <= BufferSize
    /\ topic \in Seq(Logs) /\ delivered \in Seq(Logs) /\ published \in Seq(Logs)

\* ---- The node -------------------------------------------------------------

\* a log goes to a subscriber; with none connected it passes the stream by
Emit ==
    /\ emitted < MaxLog
    /\ emitted' = emitted + 1
    /\ IF "logs" \in requests
       THEN /\ socket' = Append(socket, Message("log", emitted'))
            /\ delivered' = Append(delivered, emitted')
       ELSE UNCHANGED <<socket, delivered>>
    /\ UNCHANGED <<pending, requests, producer, cached, buffer, topic, published, connections>>

\* a request is answered well, or with an error or an empty result
Answer(request) ==
    /\ request \in requests \ {"logs"}
    /\ \E message \in
          IF request = "block"
          THEN {Message("block", BlockOf[producer.log]), Message("refusal", 0)}
          ELSE {Message("confirmation", 0), Message("error", 0)} :
          /\ socket' = Append(socket, message)
          /\ requests' = (requests \ {request}) \cup
                          (IF message.kind = "confirmation" THEN {"logs"} ELSE {})
    /\ UNCHANGED <<emitted, pending, producer, cached, buffer, topic, delivered, published,
                   connections>>

\* ---- Publishing -----------------------------------------------------------

\* a full buffer raises, and the process leaves
Overflows(log) == log \notin Unusable /\ Len(buffer) = BufferSize

\* an unrecognized or malformed log is ignored
Publish(log) ==
    IF log \in Unusable
    THEN UNCHANGED <<buffer, published>>
    ELSE buffer' = Append(buffer, log) /\ published' = Append(published, log)

\* leaving the with blocks flushes the client and closes the socket
Leave ==
    /\ producer' = Down
    /\ topic' = topic \o buffer
    /\ buffer' = <<>>
    /\ socket' = <<>> /\ pending' = <<>> /\ requests' = {} /\ cached' = <<>>
    /\ delivered' = <<>> /\ published' = <<>>
    /\ UNCHANGED <<emitted, connections>>

\* the timestamp becomes the most recently used; beyond the size the oldest is dropped
Used(block) ==
    LET others == SelectSeq(cached, LAMBDA b : b # block)
    IN  Append(IF Len(others) = CacheSize THEN Tail(others) ELSE others, block)

\* ---- The process ----------------------------------------------------------

Connect ==
    /\ ~Up /\ connections < MaxConnections
    /\ connections' = connections + 1
    /\ producer' = Receiving
    /\ requests' = Subscriptions
    /\ UNCHANGED <<emitted, socket, pending, cached, buffer, topic, delivered, published>>

\* Mutant: the socket is read before the queue.
NextMessageFromSocket ==
    IF socket # <<>>
    THEN <<[message |-> Head(socket), pending |-> pending, socket |-> Tail(socket)]>>
    ELSE IF pending # <<>>
    THEN <<[message |-> Head(pending), pending |-> Tail(pending), socket |-> socket]>>
    ELSE <<>>

\* the message receive() returns, and what it leaves; none while there is nothing to read
NextMessage ==
    IF pending # <<>>
    THEN <<[message |-> Head(pending), pending |-> Tail(pending), socket |-> socket]>>
    ELSE IF socket # <<>>
    THEN <<[message |-> Head(socket), pending |-> pending, socket |-> Tail(socket)]>>
    ELSE <<>>

Receive ==
    /\ producer = Receiving /\ NextMessage # <<>>
    /\ LET read == NextMessage[1] IN
       LET log == read.message.item IN
       LET block == IF read.message.kind = "log" THEN BlockOf[log] ELSE 0 IN
          \/ /\ read.message.kind = "error"
             /\ Leave
          \/ /\ read.message.kind = "confirmation"
             /\ pending' = read.pending /\ socket' = read.socket
             /\ UNCHANGED <<producer, requests, cached, buffer, published>>
             /\ UNCHANGED <<emitted, topic, delivered, connections>>
          \/ /\ read.message.kind = "log" /\ block = 0
             /\ pending' = read.pending /\ socket' = read.socket
             /\ UNCHANGED <<producer, requests, cached, buffer, published>>
             /\ UNCHANGED <<emitted, topic, delivered, connections>>
          \/ /\ read.message.kind = "log" /\ block # 0
             /\ \E i \in DOMAIN cached : cached[i] = block
             /\ IF Overflows(log)
                THEN Leave
                ELSE /\ pending' = read.pending /\ socket' = read.socket
                     /\ cached' = Used(block)
                     /\ Publish(log)
                     /\ UNCHANGED <<producer, requests>>
                     /\ UNCHANGED <<emitted, topic, delivered, connections>>
          \/ /\ read.message.kind = "log" /\ block # 0
             /\ \A i \in DOMAIN cached : cached[i] # block
             /\ pending' = read.pending /\ socket' = read.socket
             /\ producer' = [step |-> "lookup", log |-> log]
             /\ requests' = requests \cup {"block"}
             /\ UNCHANGED <<cached, buffer, published>>
             /\ UNCHANGED <<emitted, topic, delivered, connections>>

\* awaiting the block's answer, what else arrives is queued
Await ==
    /\ producer.step = "lookup" /\ socket # <<>>
    /\ LET message == Head(socket) IN
          \/ /\ message.kind = "block"
             /\ IF Overflows(producer.log)
                THEN Leave
                ELSE /\ socket' = Tail(socket)
                     /\ cached' = Used(message.item)
                     /\ Publish(producer.log)
                     /\ producer' = Receiving
                     /\ UNCHANGED <<emitted, pending, requests, topic, delivered, connections>>
          \/ /\ message.kind = "refusal"
             /\ Leave
          \/ /\ message.kind \notin {"block", "refusal"}
             /\ socket' = Tail(socket)
             /\ pending' = Append(pending, message)
             /\ UNCHANGED <<emitted, requests, producer, cached, buffer, topic, delivered,
                            published, connections>>

\* SIGTERM, a read that times out, a connection that breaks: the process leaves
Interrupt == Up /\ Leave

\* the process is killed: what the client had not delivered is gone
KillProducer ==
    /\ Up
    /\ producer' = Down
    /\ buffer' = <<>>
    /\ socket' = <<>> /\ pending' = <<>> /\ requests' = {} /\ cached' = <<>>
    /\ delivered' = <<>> /\ published' = <<>>
    /\ UNCHANGED <<emitted, topic, connections>>

\* the client's thread delivers; a retried delivery may have landed before, a timed-out
\* one is dropped, and nobody asks for the report
Deliver ==
    /\ Up /\ buffer # <<>>
    /\ buffer' = Tail(buffer)
    /\ \E copies \in 0 .. 2 : topic' = topic \o [i \in 1 .. copies |-> Head(buffer)]
    /\ UNCHANGED <<emitted, socket, pending, requests, producer, cached, delivered, published,
                   connections>>

\* ---- Specification --------------------------------------------------------

ProducerInit ==
    /\ emitted = 0
    /\ socket = <<>> /\ pending = <<>> /\ requests = {}
    /\ producer = Down
    /\ cached = <<>> /\ buffer = <<>> /\ topic = <<>>
    /\ delivered = <<>> /\ published = <<>> /\ connections = 0

ProducerNext ==
    \/ Emit
    \/ \E request \in requests : Answer(request)
    \/ Connect
    \/ Receive
    \/ Await
    \/ Interrupt
    \/ KillProducer
    \/ Deliver

ProducerSpec == ProducerInit /\ [][ProducerNext]_producerVars

\* ---- Properties -----------------------------------------------------------

Usable(n) == n \notin Unusable /\ BlockOf[n] # 0

\* What lies on the way from the node to the Kafka client, nearest the client first: the log
\* whose block is looked up, then what the lookups queued, then what is on the socket.
OnTheWay ==
    (IF producer.step = "lookup" THEN <<Message("log", producer.log)>> ELSE <<>>)
        \o pending \o socket

LogsIn(messages) == {messages[i].item : i \in {j \in DOMAIN messages : messages[j].kind = "log"}}

InLogOrder(messages) ==
    \A i, j \in DOMAIN messages :
        i < j /\ messages[i].kind = "log" /\ messages[j].kind = "log"
          => messages[i].item < messages[j].item

\* While a connection lasts, every usable log sent over it is published once and in the order
\* the node sent it, or is still on its way behind all that is published
\* (AlchemyClient.get_block_timestamp, receive).
PublishedInOrder ==
    Up => /\ {n \in Range(delivered) : Usable(n)}
               = Range(published) \cup {n \in LogsIn(OnTheWay) : Usable(n)}
          /\ InLogOrder(OnTheWay)
          /\ \A i, j \in DOMAIN published : i < j => published[i] < published[j]
          /\ \A n \in Range(published), m \in LogsIn(OnTheWay) : n < m
===============================================================================
