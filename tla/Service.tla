------------------------------ MODULE Service ------------------------------
(***************************************************************************)
(* The life of a service process: how it starts and stops, the consumer of  *)
(* one of its queues, and its streams.  This is the quiz engine; the other  *)
(* two services start and stop alike, matchmaking without a consumer and    *)
(* scoring without streams.  The queue itself belongs to RabbitMQ.          *)
(***************************************************************************)
EXTENDS Streams, SequencesExt

CONSTANTS
  Msg,           \* the messages, numbered in the order of publishing
  Poison,        \* those no handler can handle
  Prefetch,      \* how many deliveries may be unacknowledged (10)
  DialAttempts,  \* how often RabbitMQ is dialled (10)
  MaxStarts,     \* bound: how often the process is started
  MaxFaults      \* bound: how many faults happen

ASSUME ServiceAssumption ==
  /\ IsFiniteSet(Msg) /\ Msg = 1..Cardinality(Msg)
  /\ Poison \subseteq Msg
  /\ Event = Msg
  /\ {Prefetch, DialAttempts} \subseteq Nat \ {0}
  /\ {MaxStarts, MaxFaults} \subseteq Nat

VARIABLES
  \* RabbitMQ, where they survive the process
  bound,      \* is the queue declared and bound to the exchange?
  ready,      \* the messages to be delivered
  unacked,    \* those delivered and not acknowledged
  dead,       \* those in the dead-letter queue
  lost,       \* those published while no queue was bound
  published,  \* how many messages were published
  \* the process
  phase,      \* how far main has come
  attempts,   \* how often RabbitMQ was dialled in vain
  connected,  \* is the connection to RabbitMQ open?
  consumer,   \* the goroutine of the consumer
  inHand,     \* the message it handles
  \* history and bounds
  handled,    \* the messages a handler has run for
  repeated,   \* those it has run for again
  cutOff,     \* those in hand when the process or the connection was lost
  starts,     \* how often the process was started
  faults      \* how many faults have happened

brokerVars  == <<bound, ready, unacked, dead, lost, published>>
processVars == <<phase, attempts, connected, consumer, inHand, starts>>
historyVars == <<handled, repeated, cutOff>>
serviceVars == <<brokerVars, processVars, historyVars, faults, streamVars>>

NoMsg == 0

Starting == {"redis", "mongo", "rabbit", "declare", "consume", "listen"}

(* Every variable has its type, no more messages than the prefetch count    *)
(* are unacknowledged, and what is in the hand of a connected consumer is   *)
(* the first of them.                                                       *)
ServiceTypeOK ==
  /\ StreamsTypeOK
  /\ bound \in BOOLEAN
  /\ ready \in Seq(Msg) /\ unacked \in Seq(Msg)
  /\ Len(unacked) <= Prefetch
  /\ {dead, lost, handled, repeated, cutOff} \subseteq SUBSET Msg
  /\ published \in 0..Cardinality(Msg)
  /\ phase \in Starting \cup {"down", "up", "stopping", "cancelled"}
  /\ attempts \in 0..DialAttempts
  /\ connected \in BOOLEAN
  /\ consumer \in {"off", "idle", "busy", "handled", "failed", "stopped"}
  /\ inHand \in Msg \cup {NoMsg}
  /\ connected /\ inHand # NoMsg => unacked # <<>> /\ inHand = Head(unacked)
  /\ starts \in 0..MaxStarts
  /\ faults \in 0..MaxFaults

ServiceInit ==
  /\ StreamsInit
  /\ bound = FALSE
  /\ ready = <<>> /\ unacked = <<>>
  /\ dead = {} /\ lost = {}
  /\ published = 0
  /\ phase = "down"
  /\ attempts = 0
  /\ connected = FALSE
  /\ consumer = "off"
  /\ inHand = NoMsg
  /\ handled = {} /\ repeated = {} /\ cutOff = {}
  /\ starts = 0
  /\ faults = 0

Fault == faults < MaxFaults /\ faults' = faults + 1

-----------------------------------------------------------------------------
(* The connection is closed: RabbitMQ puts the unacknowledged messages back *)
(* where they were.                                                         *)
Requeue ==
  /\ connected' = FALSE
  /\ ready' = unacked \o ready
  /\ unacked' = <<>>
  /\ cutOff' = IF inHand = NoMsg THEN cutOff ELSE cutOff \cup {inHand}
  /\ UNCHANGED <<bound, dead, lost, published, handled, repeated>>

(* The process ends, and all that lives in it. *)
Die ==
  /\ Requeue
  /\ DropStreams
  /\ phase' = "down"
  /\ attempts' = 0
  /\ consumer' = "off"
  /\ inHand' = NoMsg
  /\ UNCHANGED starts

Fatal == Die /\ Fault

-----------------------------------------------------------------------------
(* main starts; each of its steps goes on to the next, or ends the process. *)
Launch ==
  /\ phase = "down"
  /\ starts < MaxStarts
  /\ starts' = starts + 1
  /\ phase' = "redis"
  /\ UNCHANGED <<brokerVars, attempts, connected, consumer, inHand, historyVars, faults,
                 streamVars>>

GoOn(from, to) ==
  /\ phase = from
  /\ phase' = to
  /\ UNCHANGED <<attempts, inHand, starts, historyVars, faults, streamVars>>

(* Redis, then MongoDB, is pinged once. *)
ConnectRedis == GoOn("redis", "mongo") /\ UNCHANGED <<brokerVars, connected, consumer>>
ConnectMongo == GoOn("mongo", "rabbit") /\ UNCHANGED <<brokerVars, connected, consumer>>

(* RabbitMQ is dialled, and the exchange declared. *)
Dial ==
  /\ GoOn("rabbit", "declare")
  /\ attempts < DialAttempts
  /\ connected' = TRUE
  /\ UNCHANGED <<brokerVars, consumer>>

DialFails ==
  /\ phase = "rabbit"
  /\ attempts < DialAttempts
  /\ Fault
  /\ attempts' = attempts + 1
  /\ UNCHANGED <<brokerVars, phase, connected, consumer, inHand, starts, historyVars, streamVars>>

DialGivesUp ==
  /\ phase = "rabbit"
  /\ attempts = DialAttempts
  /\ Die
  /\ UNCHANGED faults

(* NewConsumer declares the queue and its dead-letter queue, binds the      *)
(* queue, and sets the prefetch count.                                      *)
NewConsumer ==
  /\ GoOn("declare", "consume")
  /\ bound' = TRUE
  /\ UNCHANGED <<ready, unacked, dead, lost, published, connected, consumer>>

(* Start consumes, and the goroutine of the consumer runs. *)
StartConsumer ==
  /\ GoOn("consume", "listen")
  /\ consumer' = "idle"
  /\ UNCHANGED <<brokerVars, connected>>

Serve == GoOn("listen", "up") /\ UNCHANGED <<brokerVars, connected, consumer>>

StartFails == phase \in Starting /\ Fatal

-----------------------------------------------------------------------------
(* Another service publishes the next message.  The exchange drops what no  *)
(* queue is bound for: the mandatory flag is not set.                       *)
Publish ==
  /\ published < Cardinality(Msg)
  /\ published' = published + 1
  /\ IF bound THEN ready' = Append(ready, published + 1) /\ UNCHANGED lost
              ELSE lost' = lost \cup {published + 1} /\ UNCHANGED ready
  /\ UNCHANGED <<bound, unacked, dead, processVars, historyVars, faults, streamVars>>

(* RabbitMQ delivers the next message. *)
DeliverMsg ==
  /\ connected
  /\ consumer # "off"
  /\ ready # <<>>
  /\ Len(unacked) < Prefetch
  /\ unacked' = Append(unacked, Head(ready))
  /\ ready' = Tail(ready)
  /\ UNCHANGED <<bound, dead, lost, published, processVars, historyVars, faults, streamVars>>

(* Mutant: the queue is consumed with autoAck. *)
TakeAcknowledged ==
  /\ connected
  /\ consumer = "idle"
  /\ unacked # <<>>
  /\ consumer' = "busy"
  /\ inHand' = Head(unacked)
  /\ unacked' = Tail(unacked)
  /\ UNCHANGED <<bound, ready, dead, lost, published, phase, attempts, connected, starts,
                 historyVars, faults, streamVars>>

(* The goroutine takes the next delivery, perhaps even after the context    *)
(* was cancelled: select prefers neither.                                   *)
Take ==
  /\ connected
  /\ consumer = "idle"
  /\ unacked # <<>>
  /\ consumer' = "busy"
  /\ inHand' = Head(unacked)
  /\ UNCHANGED <<brokerVars, phase, attempts, connected, starts, historyVars, faults, streamVars>>

(* The handler does its work and broadcasts; with a cancelled context it    *)
(* cannot.                                                                  *)
Handle ==
  /\ consumer = "busy"
  /\ inHand \notin Poison
  /\ phase # "cancelled"
  /\ consumer' = "handled"
  /\ handled' = handled \cup {inHand}
  /\ repeated' = IF inHand \in handled THEN repeated \cup {inHand} ELSE repeated
  /\ BroadcastToRoom(<<inHand>>)
  /\ UNCHANGED <<brokerVars, phase, attempts, connected, inHand, starts, cutOff, faults>>

(* The handler returns an error: it cannot read the message, a store does   *)
(* not reply, or the context was cancelled before its last call.            *)
HandlerFails ==
  /\ consumer \in {"busy", "handled"}
  /\ \/ consumer = "busy" /\ inHand \in Poison /\ UNCHANGED faults
     \/ phase = "cancelled" /\ UNCHANGED faults
     \/ Fault
  /\ consumer' = "failed"
  /\ UNCHANGED <<brokerVars, phase, attempts, connected, inHand, starts, historyVars, streamVars>>

(* Mutant: a success is not acknowledged. *)
AckNothing ==
  /\ consumer = "handled"
  /\ consumer' = "idle"
  /\ inHand' = NoMsg
  /\ UNCHANGED <<brokerVars, phase, attempts, connected, starts, historyVars, faults, streamVars>>

(* On success the message is acknowledged, ... *)
Ack ==
  /\ consumer = "handled"
  /\ consumer' = "idle"
  /\ inHand' = NoMsg
  /\ unacked' = IF connected THEN Tail(unacked) ELSE unacked
  /\ UNCHANGED <<bound, ready, dead, lost, published, phase, attempts, connected, starts,
                 historyVars, faults, streamVars>>

(* Mutant: the loop ends with the first error. *)
NackAndReturn ==
  /\ consumer = "failed"
  /\ consumer' = "stopped"
  /\ inHand' = NoMsg
  /\ unacked' = IF connected THEN Tail(unacked) ELSE unacked
  /\ dead' = IF connected THEN dead \cup {inHand} ELSE dead
  /\ UNCHANGED <<bound, ready, lost, published, phase, attempts, connected, starts,
                 historyVars, faults, streamVars>>

(* ... and on failure dead-lettered; neither reaches RabbitMQ when the      *)
(* connection is gone.                                                      *)
Nack ==
  /\ consumer = "failed"
  /\ consumer' = "idle"
  /\ inHand' = NoMsg
  /\ unacked' = IF connected THEN Tail(unacked) ELSE unacked
  /\ dead' = IF connected THEN dead \cup {inHand} ELSE dead
  /\ UNCHANGED <<bound, ready, lost, published, phase, attempts, connected, starts,
                 historyVars, faults, streamVars>>

(* The goroutine returns: the context is done, or the channel of deliveries *)
(* closed with the connection.  The process goes on without it.             *)
ConsumerReturns ==
  /\ consumer = "idle"
  /\ phase = "cancelled" \/ ~connected
  /\ consumer' = "stopped"
  /\ UNCHANGED <<brokerVars, phase, attempts, connected, inHand, starts, historyVars, faults,
                 streamVars>>

(* The connection breaks; nothing opens it again. *)
LoseConnection ==
  /\ connected
  /\ phase \in {"up", "stopping"}
  /\ Requeue
  /\ Fault
  /\ UNCHANGED <<phase, attempts, consumer, inHand, starts, streamVars>>

-----------------------------------------------------------------------------
(* The streams of the clients. *)
OpenStream(c) ==
  /\ phase = "up"
  /\ Register(c)
  /\ UNCHANGED <<brokerVars, processVars, historyVars, faults>>

StreamStep(c) ==
  /\ Return(c) \/ \E e \in Event : Receive(c, e)
  /\ UNCHANGED <<brokerVars, processVars, historyVars, faults>>

ClientGone(c) ==
  /\ HangUp(c)
  /\ UNCHANGED <<brokerVars, processVars, historyVars, faults>>

-----------------------------------------------------------------------------
(* A signal: GracefulStop takes no new stream and waits for the open ones,  *)
(* while the consumer goes on; then the context is cancelled; then main     *)
(* closes the connection and returns.                                       *)
Terminate ==
  /\ phase = "up"
  /\ phase' = "stopping"
  /\ UNCHANGED <<brokerVars, attempts, connected, consumer, inHand, starts, historyVars, faults,
                 streamVars>>

Cancel ==
  /\ phase = "stopping"
  /\ serving = {}
  /\ phase' = "cancelled"
  /\ UNCHANGED <<brokerVars, attempts, connected, consumer, inHand, starts, historyVars, faults,
                 streamVars>>

MainReturns ==
  /\ phase = "cancelled"
  /\ Die
  /\ UNCHANGED faults

Crash == phase \in {"up", "stopping"} /\ Fatal

-----------------------------------------------------------------------------
StartStep ==
  \/ ConnectRedis \/ ConnectMongo \/ Dial \/ DialGivesUp
  \/ NewConsumer \/ StartConsumer \/ Serve

ConsumerStep == Take \/ Handle \/ Ack \/ Nack \/ ConsumerReturns

ServiceNext ==
  \/ Launch \/ StartStep \/ DialFails \/ StartFails
  \/ Publish \/ DeliverMsg \/ ConsumerStep \/ HandlerFails \/ LoseConnection
  \/ \E c \in Conn : OpenStream(c) \/ StreamStep(c) \/ ClientGone(c)
  \/ Terminate \/ Cancel \/ MainReturns \/ Crash

(* RabbitMQ delivers, and the goroutines of the process run; nobody need    *)
(* start it, publish, or hang up.                                           *)
ServiceSpec ==
  /\ ServiceInit
  /\ [][ServiceNext]_serviceVars
  /\ WF_serviceVars(StartStep)
  /\ WF_serviceVars(DeliverMsg)
  /\ WF_serviceVars(ConsumerStep \/ (HandlerFails /\ UNCHANGED faults))
  /\ WF_serviceVars(Cancel) /\ WF_serviceVars(MainReturns)
  /\ \A c \in Conn : WF_serviceVars(StreamStep(c))

-----------------------------------------------------------------------------
(* A stream that ends although its client is there was closed by the return *)
(* of another stream of the same user, unless the process died              *)
(* (server.go:153-172, streamer.go:33-46).                                  *)
OnlyAReturnCloses ==
  faults = 0 =>
    \A c \in served \ hungUp : \E d \in served \ {c} : Owner[d] = Owner[c]

(* A message is handled again only if it was in hand when the process or    *)
(* the connection was lost: prefetched messages that go back to the queue   *)
(* do not repeat (consumer.go:61-78).                                       *)
RepeatedWereCutOff == repeated \subseteq cutOff

Pending == unacked \o ready

Queue == INSTANCE WorkQueue WITH pending <- Pending

(* Through crashes, lost connections and shutdowns the queue with its       *)
(* consumer keeps order, loses no message it was bound for, and lets none   *)
(* go before a handler has run (consumer.go:25-83, publisher.go:19-38).     *)
ImplementsWorkQueue == Queue!WorkQueueSpec

(* While the service is up and connected, no message waits for ever, even   *)
(* behind one that no handler can handle (consumer.go:63-79).               *)
MessagesAreSettled ==
  \A m \in Msg :
    phase = "up" /\ connected /\ m \in ToSet(Pending) ~>
      m \notin ToSet(Pending) \/ phase # "up" \/ ~connected

(* A signal ends the process once the clients of all open streams are gone: *)
(* nothing but clients delays it (cmd/quizengine/main.go:81-87).            *)
ShutdownWaitsForClientsOnly ==
  phase = "stopping" /\ serving \subseteq hungUp ~> phase = "down"
=============================================================================
