--------------------------- MODULE ServiceProofs ---------------------------
(***************************************************************************)
(* Proofs about a service process, for every number of users, connections,  *)
(* messages, starts and faults: types, the registered channels, and that    *)
(* the queue with its consumer implements WorkQueue.                        *)
(***************************************************************************)
EXTENDS Service, SequenceTheorems, FiniteSetTheorems, TLAPS

-----------------------------------------------------------------------------
(* The inductive invariants. *)

(* A registered channel is open, served, and that of its user; no channel   *)
(* is closed before it is made.                                             *)
StreamsInv ==
  /\ closed \subseteq serving \cup served
  /\ \A u \in User : registered[u] # NoConn =>
       /\ registered[u] \in serving \ closed
       /\ Owner[registered[u]] = u

(* What the consumer handles is the first of the pending messages, and was  *)
(* cut off when the connection is gone.                                     *)
InHandInv ==
  /\ inHand # NoMsg <=> consumer \in {"busy", "handled", "failed"}
  /\ inHand # NoMsg => Pending # <<>> /\ inHand = Head(Pending)
  /\ inHand # NoMsg /\ ~connected => inHand \in cutOff
  /\ consumer = "handled" => inHand \in handled
  /\ phase \in {"down", "redis", "mongo", "rabbit", "declare", "consume"} => consumer = "off"
  /\ phase \in {"down", "redis", "mongo", "rabbit"} => ~connected
  /\ ~connected => unacked = <<>>

Sorted(q) == \A i, j \in DOMAIN q : i < j => q[i] < q[j]

(* Messages are pending in the order of publishing. *)
OrderInv ==
  /\ Sorted(Pending)
  /\ \A i \in DOMAIN Pending : Pending[i] <= published
  /\ handled \cup lost \cup dead \subseteq 1..published

(* A pending message whose handler has run was cut off, or is in hand. *)
HandledInv ==
  \A i \in DOMAIN Pending :
    Pending[i] \in handled =>
      Pending[i] \in cutOff \/ (Pending[i] = inHand /\ consumer \in {"handled", "failed"})

QueueInv == InHandInv /\ OrderInv /\ HandledInv

ServiceInv ==
  /\ ServiceTypeOK
  /\ StreamsInv
  /\ QueueInv
  /\ RepeatedWereCutOff

-----------------------------------------------------------------------------
(* The streams. *)

LEMMA ConnFacts == NoConn \notin Conn /\ \A c \in Conn : Owner[c] \in User
  BY StreamsAssumption DEF NoConn

(* The steps of the service change the streams in these ways only. *)
StreamAction ==
  \/ UNCHANGED streamVars
  \/ DropStreams
  \/ \E m \in Event : BroadcastToRoom(<<m>>)
  \/ \E c \in Conn : Register(c) \/ HangUp(c) \/ Return(c) \/ \E e \in Event : Receive(c, e)

(* A full channel keeps what it has. *)
LEMMA FilledFits ==
  ASSUME NEW ch \in Seq(Event), Len(ch) <= Capacity, NEW m \in Event
  PROVE  Filled(ch, <<m>>) \in Seq(Event) /\ Len(Filled(ch, <<m>>)) <= Capacity
  <1>1. Capacity \in Nat /\ Len(ch) \in Nat
    BY StreamsAssumption
  <1>2. <<m>> \in Seq(Event) /\ Len(<<m>>) = 1
    OBVIOUS
  <1>3. CASE Len(ch) < Capacity
    <2>1. Filled(ch, <<m>>) = ch \o <<m>>
      <3>1. Len(<<m>>) <= Capacity - Len(ch)
        BY <1>1, <1>2, <1>3
      <3> QED
        BY ONLY <3>1 DEF Filled
    <2>2. ch \o <<m>> \in Seq(Event) /\ Len(ch \o <<m>>) = Len(ch) + 1
      BY <1>2
    <2>3. Len(ch) + 1 <= Capacity
      BY ONLY <1>1, <1>3
    <2> QED
      BY ONLY <2>1, <2>2, <2>3
  <1>4. CASE Len(ch) = Capacity
    <2>1. Filled(ch, <<m>>) = ch \o SubSeq(<<m>>, 1, 0)
      BY <1>1, <1>2, <1>4 DEF Filled
    <2>2. SubSeq(<<m>>, 1, 0) = <<>>
      BY <1>2
    <2> QED
      BY <1>1, <1>4, <2>1, <2>2
  <1> QED
    BY <1>1, <1>3, <1>4

LEMMA StreamsTypes ==
  ASSUME StreamsTypeOK, StreamAction
  PROVE  StreamsTypeOK'
  <1> USE ConnFacts DEF StreamsTypeOK
  <1>1. CASE UNCHANGED streamVars
    BY <1>1 DEF streamVars
  <1>2. CASE DropStreams
    BY <1>2 DEF DropStreams
  <1>3. ASSUME NEW m \in Event, BroadcastToRoom(<<m>>)
        PROVE  StreamsTypeOK'
    BY <1>3, FilledFits DEF BroadcastToRoom
  <1>4. ASSUME NEW c \in Conn, Register(c)
        PROVE  StreamsTypeOK'
    BY <1>4 DEF Register
  <1>5. ASSUME NEW c \in Conn, HangUp(c)
        PROVE  StreamsTypeOK'
    BY <1>5 DEF HangUp
  <1>6. ASSUME NEW c \in Conn, Return(c)
        PROVE  StreamsTypeOK'
    BY <1>6 DEF Return, Unregister
  <1>7. ASSUME NEW c \in Conn, NEW e \in Event, Receive(c, e)
        PROVE  StreamsTypeOK'
    <2>1. Tail(channel[c]) \in Seq(Event) /\ Len(Tail(channel[c])) <= Capacity
      BY <1>7, StreamsAssumption DEF Receive
    <2> QED
      BY <1>7, <2>1 DEF Receive
  <1> QED
    BY <1>1, <1>2, <1>3, <1>4, <1>5, <1>6, <1>7 DEF StreamAction

LEMMA StreamsKept ==
  ASSUME StreamsTypeOK, StreamsInv, StreamAction
  PROVE  StreamsInv'
  <1> USE ConnFacts DEF StreamsTypeOK, StreamsInv
  <1>1. CASE UNCHANGED streamVars
    BY <1>1 DEF streamVars
  <1>2. CASE DropStreams
    BY <1>2 DEF DropStreams
  <1>3. ASSUME NEW m \in Event, BroadcastToRoom(<<m>>)
        PROVE  StreamsInv'
    BY <1>3 DEF BroadcastToRoom
  <1>4. ASSUME NEW c \in Conn, Register(c)
        PROVE  StreamsInv'
    BY <1>4 DEF Register
  <1>5. ASSUME NEW c \in Conn, HangUp(c)
        PROVE  StreamsInv'
    BY <1>5 DEF HangUp
  <1>6. ASSUME NEW c \in Conn, Return(c)
        PROVE  StreamsInv'
    BY <1>6 DEF Return, Unregister
  <1>7. ASSUME NEW c \in Conn, NEW e \in Event, Receive(c, e)
        PROVE  StreamsInv'
    BY <1>7 DEF Receive
  <1> QED
    BY <1>1, <1>2, <1>3, <1>4, <1>5, <1>6, <1>7 DEF StreamAction

-----------------------------------------------------------------------------
(* Sequences. *)

LEMMA MsgFacts == /\ Cardinality(Msg) \in Nat
                  /\ \A m : m \in Msg <=> m \in Nat /\ 1 <= m /\ m <= Cardinality(Msg)
                  /\ NoMsg \notin Msg
  <1>1. Cardinality(Msg) \in Nat
    BY FS_CardinalityType, ServiceAssumption
  <1> QED
    BY <1>1, ServiceAssumption DEF NoMsg

(* What is delivered stays pending. *)
LEMMA MovedOver ==
  ASSUME NEW S, NEW u \in Seq(S), NEW r \in Seq(S), r # <<>>
  PROVE  Append(u, Head(r)) \o Tail(r) = u \o r
  <1>1. Head(r) \in S /\ Tail(r) \in Seq(S) /\ Len(Tail(r)) = Len(r) - 1 /\ Len(r) \in Nat \ {0}
    OBVIOUS
  <1>2. Append(u, Head(r)) \in Seq(S) /\ Len(Append(u, Head(r))) = Len(u) + 1
    BY <1>1
  <1> DEFINE a == Append(u, Head(r)) \o Tail(r)
  <1>3. a \in Seq(S) /\ u \o r \in Seq(S) /\ Len(a) = Len(u \o r)
    BY <1>1, <1>2
  <1>4. ASSUME NEW i \in 1..Len(a)
        PROVE  a[i] = (u \o r)[i]
    BY <1>1, <1>2, <1>4
  <1> QED
    BY <1>3, <1>4, SeqEqual

(* The first of the unacknowledged messages is the first pending one. *)
LEMMA FirstFirst ==
  ASSUME NEW S, NEW u \in Seq(S), NEW r \in Seq(S), u # <<>>
  PROVE  /\ u \o r # <<>>
         /\ Head(u \o r) = Head(u)
         /\ Tail(u) \o r = Tail(u \o r)
  <1>1. /\ Tail(u) \in Seq(S) /\ Len(Tail(u)) = Len(u) - 1 /\ Len(u) \in Nat \ {0}
        /\ \A i \in 1..Len(Tail(u)) : Tail(u)[i] = u[i + 1]
    OBVIOUS
  <1>2. u \o r \in Seq(S) /\ Len(u \o r) = Len(u) + Len(r) /\ Len(r) \in Nat
    OBVIOUS
  <1>3. u \o r # <<>> /\ Head(u \o r) = (u \o r)[1] /\ Head(u) = u[1] /\ (u \o r)[1] = u[1]
    BY <1>1, <1>2
  <1>4. /\ Tail(u \o r) \in Seq(S) /\ Len(Tail(u \o r)) = Len(u) + Len(r) - 1
        /\ \A i \in 1..Len(Tail(u \o r)) : Tail(u \o r)[i] = (u \o r)[i + 1]
    BY <1>2, <1>3
  <1>5. Tail(u) \o r \in Seq(S) /\ Len(Tail(u) \o r) = Len(u) + Len(r) - 1
    BY <1>1, <1>2
  <1>6. ASSUME NEW i \in 1..Len(Tail(u) \o r)
        PROVE  (Tail(u) \o r)[i] = Tail(u \o r)[i]
    BY <1>1, <1>2, <1>4, <1>5, <1>6
  <1> QED
    BY <1>3, <1>4, <1>5, <1>6, SeqEqual

LEMMA AppendedLast ==
  ASSUME NEW S, NEW u \in Seq(S), NEW r \in Seq(S), NEW m \in S
  PROVE  u \o Append(r, m) = Append(u \o r, m)
  <1> DEFINE a == u \o Append(r, m)
             b == Append(u \o r, m)
  <1>1. a \in Seq(S) /\ b \in Seq(S) /\ Len(a) = Len(u) + Len(r) + 1 /\ Len(b) = Len(a)
    OBVIOUS
  <1>2. ASSUME NEW i \in 1..Len(a)
        PROVE  a[i] = b[i]
    BY <1>1, <1>2
  <1> QED
    BY <1>1, <1>2, SeqEqual

(* Without its first message a sorted queue is sorted and lacks it. *)
LEMMA SortedTail ==
  ASSUME NEW q \in Seq(Nat), q # <<>>, Sorted(q)
  PROVE  /\ Sorted(Tail(q))
         /\ \A i \in DOMAIN Tail(q) :
              i + 1 \in DOMAIN q /\ Tail(q)[i] = q[i + 1] /\ q[i + 1] # Head(q)
  <1>1. /\ Tail(q) \in Seq(Nat) /\ DOMAIN Tail(q) = 1..(Len(q) - 1)
        /\ \A i \in DOMAIN Tail(q) : Tail(q)[i] = q[i + 1]
        /\ DOMAIN q = 1..Len(q) /\ Len(q) \in Nat \ {0} /\ Head(q) = q[1]
        /\ \A i \in DOMAIN q : q[i] \in Nat
    OBVIOUS
  <1>2. \A i \in DOMAIN Tail(q) : i + 1 \in DOMAIN q /\ 1 < i + 1 /\ i \in Nat
    BY <1>1
  <1>3. ASSUME NEW i \in DOMAIN Tail(q)
        PROVE  q[i + 1] # Head(q)
    <2>1. q[1] < q[i + 1]
      BY SMTT(30), <1>1, <1>2 DEF Sorted
    <2> QED
      BY <1>1, <1>2, <2>1
  <1>4. ASSUME NEW i \in DOMAIN Tail(q), NEW j \in DOMAIN Tail(q), i < j
        PROVE  Tail(q)[i] < Tail(q)[j]
    <2>1. q[i + 1] < q[j + 1]
      BY <1>2, <1>4 DEF Sorted
    <2> QED
      BY <1>1, <2>1
  <1> QED
    BY <1>1, <1>2, <1>3, <1>4 DEF Sorted

LEMMA SortedAppend ==
  ASSUME NEW q \in Seq(Nat), NEW n \in Nat, Sorted(q), \A i \in DOMAIN q : q[i] <= n
  PROVE  /\ Sorted(Append(q, n + 1))
         /\ \A i \in DOMAIN Append(q, n + 1) :
              (i \in DOMAIN q /\ Append(q, n + 1)[i] = q[i]) \/ Append(q, n + 1)[i] = n + 1
  <1> DEFINE a == Append(q, n + 1)
  <1>1. /\ DOMAIN a = 1..(Len(q) + 1) /\ DOMAIN q = 1..Len(q) /\ Len(q) \in Nat
        /\ \A i \in DOMAIN q : a[i] = q[i] /\ q[i] \in Nat
        /\ a[Len(q) + 1] = n + 1
    OBVIOUS
  <1>2. ASSUME NEW i \in DOMAIN a, NEW j \in DOMAIN a, i < j
        PROVE  a[i] < a[j]
    <2>1. i \in DOMAIN q
      BY <1>1, <1>2
    <2>2. CASE j \in DOMAIN q
      BY <1>1, <1>2, <2>1, <2>2 DEF Sorted
    <2>3. CASE j = Len(q) + 1
      <3>1. q[i] <= n /\ a[i] = q[i] /\ a[j] = n + 1 /\ q[i] \in Nat
        BY <1>1, <2>1, <2>3
      <3> QED
        BY <3>1
    <2> QED
      BY <1>1, <2>2, <2>3
  <1> QED
    BY <1>1, <1>2 DEF Sorted

-----------------------------------------------------------------------------
(* The steps of the service. *)

(* Every step changes the streams in one of their ways. *)
LEMMA StreamSteps ==
  ASSUME ServiceTypeOK, InHandInv, [ServiceNext]_serviceVars
  PROVE  StreamAction
  <1>1. CASE UNCHANGED serviceVars
    BY <1>1 DEF serviceVars, StreamAction
  <1>2. CASE Launch \/ DialFails \/ Publish \/ DeliverMsg \/ HandlerFails \/ LoseConnection
               \/ Terminate \/ Cancel
    BY <1>2 DEF Launch, DialFails, Publish, DeliverMsg, HandlerFails, LoseConnection,
                Terminate, Cancel, StreamAction
  <1>3. CASE StartStep
    BY <1>3 DEF StartStep, ConnectRedis, ConnectMongo, Dial, DialGivesUp, NewConsumer,
                StartConsumer, Serve, GoOn, Die, StreamAction
  <1>4. CASE StartFails \/ MainReturns \/ Crash
    BY <1>4 DEF StartFails, MainReturns, Crash, Fatal, Die, StreamAction
  <1>5. CASE Handle
    <2>1. inHand \in Event
      BY <1>5, ServiceAssumption DEF Handle, ServiceTypeOK, InHandInv
    <2> QED
      BY <1>5, <2>1 DEF Handle, StreamAction
  <1>6. CASE Take \/ Ack \/ Nack \/ ConsumerReturns
    BY <1>6 DEF Take, Ack, Nack, ConsumerReturns, StreamAction
  <1>7. ASSUME NEW c \in Conn, OpenStream(c) \/ StreamStep(c) \/ ClientGone(c)
        PROVE  StreamAction
    BY <1>7 DEF OpenStream, StreamStep, ClientGone, StreamAction
  <1> QED
    BY <1>1, <1>2, <1>3, <1>4, <1>5, <1>6, <1>7 DEF ServiceNext, ConsumerStep

(* The types of what is not about streams. *)
BrokerTypeOK ==
  /\ bound \in BOOLEAN
  /\ ready \in Seq(Msg) /\ unacked \in Seq(Msg)
  /\ Len(unacked) <= Prefetch
  /\ {dead, lost, handled, repeated, cutOff} \subseteq SUBSET Msg
  /\ published \in 0..Cardinality(Msg)

ProcessTypeOK ==
  /\ phase \in Starting \cup {"down", "up", "stopping", "cancelled"}
  /\ attempts \in 0..DialAttempts
  /\ connected \in BOOLEAN
  /\ consumer \in {"off", "idle", "busy", "handled", "failed", "stopped"}
  /\ inHand \in Msg \cup {NoMsg}
  /\ connected /\ inHand # NoMsg => unacked # <<>> /\ inHand = Head(unacked)
  /\ starts \in 0..MaxStarts
  /\ faults \in 0..MaxFaults

LEMMA BoundFacts == MaxStarts \in Nat /\ MaxFaults \in Nat /\ DialAttempts \in Nat
  BY ServiceAssumption

LEMMA TypeParts == ServiceTypeOK <=> StreamsTypeOK /\ BrokerTypeOK /\ ProcessTypeOK
  BY DEF ServiceTypeOK, BrokerTypeOK, ProcessTypeOK

LEMMA LastAppended ==
  ASSUME NEW S, NEW u \in Seq(S), NEW m \in S
  PROVE  /\ Append(u, m) \in Seq(S)
         /\ Len(Append(u, m)) = Len(u) + 1 /\ Len(u) \in Nat
         /\ Append(u, m) # <<>>
         /\ u # <<>> => Head(Append(u, m)) = Head(u)
  <1>1. Append(u, m) \in Seq(S) /\ Len(Append(u, m)) = Len(u) + 1 /\ Len(u) \in Nat
    OBVIOUS
  <1>2. Append(u, m) # <<>>
    BY <1>1
  <1>3. ASSUME u # <<>>
        PROVE  Head(Append(u, m)) = Head(u)
    <2>1. Len(u) >= 1 /\ Head(u) = u[1]
      BY <1>3
    <2>2. Append(u, m)[1] = u[1]
      BY <1>1, <2>1
    <2>3. Head(Append(u, m)) = Append(u, m)[1]
      BY <1>1, <1>2
    <2> QED
      BY <2>1, <2>2, <2>3
  <1> QED
    BY <1>1, <1>2, <1>3

LEMMA SequenceFacts ==
  ASSUME BrokerTypeOK
  PROVE  /\ Pending \in Seq(Msg) /\ <<>> \in Seq(Msg)
         /\ <<>> \o Pending = Pending
         /\ unacked # <<>> => Head(unacked) \in Msg /\ Tail(unacked) \in Seq(Msg)
                              /\ Len(Tail(unacked)) <= Prefetch
         /\ ready # <<>> => Head(ready) \in Msg /\ Tail(ready) \in Seq(Msg)
         /\ ready # <<>> /\ Len(unacked) < Prefetch =>
              /\ Append(unacked, Head(ready)) \in Seq(Msg)
              /\ Len(Append(unacked, Head(ready))) <= Prefetch
              /\ Append(unacked, Head(ready)) # <<>>
              /\ unacked # <<>> => Head(Append(unacked, Head(ready))) = Head(unacked)
         /\ \A m \in Msg : Append(ready, m) \in Seq(Msg)
  <1>1. unacked \in Seq(Msg) /\ ready \in Seq(Msg) /\ Len(unacked) <= Prefetch /\ Prefetch \in Nat
    BY ServiceAssumption DEF BrokerTypeOK
  <1>2. Pending \in Seq(Msg) /\ <<>> \in Seq(Msg)
    BY <1>1 DEF Pending
  <1>3. <<>> \o Pending = Pending
    BY <1>2
  <1>4. /\ unacked # <<>> => Head(unacked) \in Msg /\ Tail(unacked) \in Seq(Msg)
                             /\ Len(Tail(unacked)) <= Prefetch
        /\ ready # <<>> => Head(ready) \in Msg /\ Tail(ready) \in Seq(Msg)
    BY <1>1
  <1>5. ASSUME ready # <<>>, Len(unacked) < Prefetch
        PROVE  /\ Append(unacked, Head(ready)) \in Seq(Msg)
               /\ Len(Append(unacked, Head(ready))) <= Prefetch
               /\ Append(unacked, Head(ready)) # <<>>
               /\ unacked # <<>> => Head(Append(unacked, Head(ready))) = Head(unacked)
    <2>1. Head(ready) \in Msg
      BY <1>4, <1>5
    <2> QED
      BY <1>1, <1>5, <2>1, LastAppended
  <1>6. \A m \in Msg : Append(ready, m) \in Seq(Msg)
    BY <1>1
  <1> QED
    BY <1>2, <1>3, <1>4, <1>5, <1>6

LEMMA RequeueTypes ==
  ASSUME BrokerTypeOK, ProcessTypeOK, Requeue
  PROVE  BrokerTypeOK' /\ Pending' = Pending
  <1>1. ready' \in Seq(Msg) /\ unacked' \in Seq(Msg) /\ Len(unacked') <= Prefetch
    BY SequenceFacts, ServiceAssumption DEF Requeue, Pending
  <1>2. cutOff' \subseteq Msg
    BY DEF Requeue, BrokerTypeOK, ProcessTypeOK
  <1>3. Pending' = <<>> \o Pending
    BY DEF Requeue, Pending
  <1> QED
    BY <1>1, <1>2, <1>3, SequenceFacts DEF Requeue, BrokerTypeOK

LEMMA DieTypes ==
  ASSUME BrokerTypeOK, ProcessTypeOK, Die, UNCHANGED faults \/ Fault
  PROVE  BrokerTypeOK' /\ ProcessTypeOK'
  <1>1. BrokerTypeOK'
    BY RequeueTypes DEF Die
  <1>2. faults' \in 0..MaxFaults
    BY BoundFacts DEF Fault, ProcessTypeOK
  <1>3. connected' = FALSE
    BY DEF Die, Requeue
  <1>4. attempts' \in 0..DialAttempts /\ starts' \in 0..MaxStarts
    BY BoundFacts DEF Die, ProcessTypeOK
  <1>5. phase' \in Starting \cup {"down", "up", "stopping", "cancelled"}
        /\ inHand' \in Msg \cup {NoMsg}
        /\ consumer' \in {"off", "idle", "busy", "handled", "failed", "stopped"}
    BY DEF Die
  <1>6. connected' \in BOOLEAN
    BY <1>3
  <1>7. ProcessTypeOK'
    BY <1>2, <1>3, <1>4, <1>5, <1>6 DEF ProcessTypeOK
  <1> QED
    BY <1>1, <1>7

LEMMA BrokerTypesKept ==
  ASSUME ServiceTypeOK, InHandInv, [ServiceNext]_serviceVars
  PROVE  BrokerTypeOK'
  <1> BrokerTypeOK /\ ProcessTypeOK
    BY TypeParts
  <1> USE DEF BrokerTypeOK
  <1>1. CASE UNCHANGED serviceVars
    BY <1>1 DEF serviceVars, brokerVars, historyVars
  <1>2. CASE Launch \/ DialFails \/ HandlerFails \/ Terminate \/ Cancel
    BY <1>2 DEF Launch, DialFails, HandlerFails, Terminate, Cancel, brokerVars, historyVars
  <1>3. CASE ConnectRedis \/ ConnectMongo \/ Dial \/ NewConsumer \/ StartConsumer \/ Serve
    BY <1>3 DEF ConnectRedis, ConnectMongo, Dial, NewConsumer, StartConsumer, Serve, GoOn,
                brokerVars, historyVars
  <1>4. CASE DialGivesUp \/ StartFails \/ MainReturns \/ Crash
    BY <1>4, DieTypes DEF DialGivesUp, StartFails, MainReturns, Crash, Fatal
  <1>5. CASE Publish
    <2>1. published + 1 \in Msg /\ published' \in 0..Cardinality(Msg)
      BY SMTT(30), <1>5, MsgFacts DEF Publish
    <2> QED
      BY <1>5, <2>1, SequenceFacts DEF Publish, historyVars
  <1>6. CASE DeliverMsg
    BY <1>6, SequenceFacts DEF DeliverMsg, historyVars
  <1>7. CASE Take \/ ConsumerReturns
    BY <1>7 DEF Take, ConsumerReturns, brokerVars, historyVars
  <1>8. CASE Handle
    BY <1>8 DEF Handle, InHandInv, ProcessTypeOK, brokerVars
  <1>9. CASE Ack
    BY <1>9, SequenceFacts DEF Ack, InHandInv, ProcessTypeOK, historyVars
  <1>10. CASE Nack
    BY <1>10, SequenceFacts DEF Nack, InHandInv, ProcessTypeOK, historyVars
  <1>11. CASE LoseConnection
    BY <1>11, RequeueTypes DEF LoseConnection
  <1>12. ASSUME NEW c \in Conn, OpenStream(c) \/ StreamStep(c) \/ ClientGone(c)
         PROVE  BrokerTypeOK'
    BY <1>12 DEF OpenStream, StreamStep, ClientGone, brokerVars, historyVars
  <1> QED
    BY <1>1, <1>2, <1>3, <1>4, <1>5, <1>6, <1>7, <1>8, <1>9, <1>10, <1>11, <1>12
       DEF ServiceNext, StartStep, ConsumerStep

LEMMA ProcessTypesKept ==
  ASSUME ServiceTypeOK, InHandInv, [ServiceNext]_serviceVars
  PROVE  ProcessTypeOK'
  <1> BrokerTypeOK /\ ProcessTypeOK
    BY TypeParts
  <1> USE DEF ProcessTypeOK
  <1>1. CASE UNCHANGED serviceVars
    BY <1>1 DEF serviceVars, brokerVars, processVars
  <1>2. CASE Launch \/ DialFails \/ Terminate \/ Cancel
    BY <1>2, BoundFacts DEF Launch, DialFails, Terminate, Cancel, Fault, Starting, brokerVars
  <1>3. CASE ConnectRedis \/ ConnectMongo \/ NewConsumer \/ StartConsumer \/ Serve
    BY <1>3 DEF ConnectRedis, ConnectMongo, NewConsumer, StartConsumer, Serve, GoOn,
                Starting, brokerVars
  <1>4. CASE Dial
    <2>1. inHand = NoMsg
      BY <1>4 DEF Dial, GoOn, InHandInv
    <2> QED
      BY <1>4, <2>1 DEF Dial, GoOn, Starting, brokerVars
  <1>5. CASE DialGivesUp \/ StartFails \/ MainReturns \/ Crash
    BY <1>5, DieTypes DEF DialGivesUp, StartFails, MainReturns, Crash, Fatal
  <1>6. CASE Publish
    BY <1>6 DEF Publish, processVars
  <1>7. CASE DeliverMsg
    BY <1>7, SequenceFacts DEF DeliverMsg, processVars
  <1>8. CASE Take
    BY <1>8, SequenceFacts DEF Take, brokerVars
  <1>9. CASE Handle \/ ConsumerReturns
    BY <1>9 DEF Handle, ConsumerReturns, brokerVars
  <1>10. CASE Ack \/ Nack
    BY <1>10 DEF Ack, Nack
  <1>11. CASE HandlerFails
    BY <1>11, BoundFacts DEF HandlerFails, Fault, brokerVars
  <1>12. CASE LoseConnection
    <2>1. faults' \in 0..MaxFaults
      BY <1>12, BoundFacts DEF LoseConnection, Fault
    <2>2. ~connected'
      BY <1>12 DEF LoseConnection, Requeue
    <2> QED
      BY <1>12, <2>1, <2>2 DEF LoseConnection, Requeue
  <1>13. ASSUME NEW c \in Conn, OpenStream(c) \/ StreamStep(c) \/ ClientGone(c)
         PROVE  ProcessTypeOK'
    BY <1>13 DEF OpenStream, StreamStep, ClientGone, brokerVars, processVars
  <1> QED
    BY <1>1, <1>2, <1>3, <1>4, <1>5, <1>6, <1>7, <1>8, <1>9, <1>10, <1>11, <1>12, <1>13
       DEF ServiceNext, StartStep, ConsumerStep

-----------------------------------------------------------------------------
(* The queue. *)

(* What the invariants need of the sequences. *)
LEMMA PendingFacts ==
  ASSUME ServiceTypeOK
  PROVE  /\ Pending \in Seq(Nat) /\ Pending \in Seq(Msg)
         /\ \A i \in DOMAIN Pending : Pending[i] \in Msg
         /\ Pending # <<>> => 1 \in DOMAIN Pending /\ Pending[1] = Head(Pending)
         /\ published \in Nat
         /\ unacked # <<>> => Pending # <<>> /\ Head(Pending) = Head(unacked)
                              /\ Tail(unacked) \o ready = Tail(Pending)
         /\ ready # <<>> => Append(unacked, Head(ready)) \o Tail(ready) = Pending
         /\ \A m \in Msg : unacked \o Append(ready, m) = Append(Pending, m)
  <1> BrokerTypeOK
    BY TypeParts
  <1>1. unacked \in Seq(Msg) /\ ready \in Seq(Msg) /\ Pending \in Seq(Msg)
    BY SequenceFacts DEF BrokerTypeOK
  <1>2. Msg \subseteq Nat /\ published \in Nat
    BY MsgFacts DEF BrokerTypeOK
  <1>3. \A i \in DOMAIN Pending : Pending[i] \in Msg
    BY <1>1
  <1>4. Pending # <<>> => 1 \in DOMAIN Pending /\ Pending[1] = Head(Pending)
    BY <1>1
  <1>5. Pending \in Seq(Nat)
    BY <1>1, <1>2, SeqMonotonic
  <1>6. unacked # <<>> => Pending # <<>> /\ Head(Pending) = Head(unacked)
                              /\ Tail(unacked) \o ready = Tail(Pending)
    BY <1>1, FirstFirst DEF Pending
  <1>7. ready # <<>> => Append(unacked, Head(ready)) \o Tail(ready) = Pending
    BY <1>1, MovedOver DEF Pending
  <1>8. \A m \in Msg : unacked \o Append(ready, m) = Append(Pending, m)
    BY <1>1, AppendedLast DEF Pending
  <1> QED
    BY <1>1, <1>2, <1>3, <1>4, <1>5, <1>6, <1>7, <1>8

QueueStep == QueueInv' /\ RepeatedWereCutOff' /\ [Queue!WorkQueueNext]_Queue!wqVars

(* A step that leaves what is pending and handled alone. *)
SameQueue ==
  /\ Pending' = Pending
  /\ UNCHANGED <<bound, dead, lost, published, handled, repeated>>
  /\ cutOff \subseteq cutOff'

LEMMA SameQueueSteps ==
  ASSUME ServiceInv, SameQueue, InHandInv',
         consumer \in {"handled", "failed"} =>
           \/ inHand \in cutOff'
           \/ inHand' = inHand /\ consumer' \in {"handled", "failed"}
  PROVE  QueueStep
  <1>1. OrderInv'
    BY DEF ServiceInv, QueueInv, OrderInv, SameQueue
  <1>2. HandledInv'
    <2> SUFFICES ASSUME NEW i \in DOMAIN Pending, Pending[i] \in handled
                 PROVE  \/ Pending[i] \in cutOff'
                        \/ Pending[i] = inHand' /\ consumer' \in {"handled", "failed"}
      BY DEF HandledInv, SameQueue
    <2> QED
      BY DEF ServiceInv, QueueInv, HandledInv, SameQueue
  <1>3. RepeatedWereCutOff'
    BY DEF ServiceInv, RepeatedWereCutOff, SameQueue
  <1>4. UNCHANGED Queue!wqVars
    BY DEF SameQueue, Queue!wqVars
  <1> QED
    BY <1>1, <1>2, <1>3, <1>4 DEF QueueStep, QueueInv

(* The first message leaves the queue. *)
LEMMA FirstLeaves ==
  ASSUME ServiceInv, Pending # <<>>, Pending' = Tail(Pending), inHand = Head(Pending),
         UNCHANGED <<published, lost, handled, repeated, cutOff>>,
         dead' \subseteq dead \cup {inHand}
  PROVE  OrderInv' /\ HandledInv' /\ RepeatedWereCutOff'
  <1>1. ServiceTypeOK /\ OrderInv /\ HandledInv /\ RepeatedWereCutOff
    BY DEF ServiceInv, QueueInv
  <1>2. /\ Sorted(Pending')
        /\ \A i \in DOMAIN Pending' : /\ i + 1 \in DOMAIN Pending
                                      /\ Pending'[i] = Pending[i + 1]
                                      /\ Pending[i + 1] # inHand
    BY <1>1, PendingFacts, SortedTail DEF OrderInv
  <1>3. inHand \in 1..published
    BY <1>1, PendingFacts, MsgFacts DEF OrderInv
  <1>4. OrderInv'
    BY <1>1, <1>2, <1>3 DEF OrderInv, Sorted
  <1>5. HandledInv'
    BY <1>1, <1>2 DEF HandledInv
  <1>6. RepeatedWereCutOff'
    BY <1>1 DEF RepeatedWereCutOff
  <1> QED
    BY <1>4, <1>5, <1>6

-----------------------------------------------------------------------------
(* Every step keeps the invariants of the queue and is one of WorkQueue's.  *)
LEMMA QueueSteps ==
  ASSUME ServiceInv, [ServiceNext]_serviceVars
  PROVE  QueueStep
  <1>a. /\ ServiceTypeOK /\ InHandInv /\ OrderInv /\ HandledInv /\ RepeatedWereCutOff
        /\ BrokerTypeOK /\ ProcessTypeOK
    BY TypeParts DEF ServiceInv, QueueInv
  <1>1. CASE UNCHANGED serviceVars
    <2>1. SameQueue /\ InHandInv' /\ inHand' = inHand /\ consumer' = consumer
      BY <1>1, <1>a DEF serviceVars, brokerVars, processVars, historyVars, SameQueue,
                        InHandInv, Pending
    <2> QED
      BY <2>1, SameQueueSteps
  <1>2. CASE Launch \/ DialFails \/ Terminate \/ Cancel
    <2>1. SameQueue /\ inHand' = inHand /\ consumer' = consumer
      BY <1>2 DEF Launch, DialFails, Terminate, Cancel, brokerVars, historyVars, SameQueue,
                  Pending
    <2>2. InHandInv'
      BY <1>2, <1>a, <2>1 DEF Launch, DialFails, Terminate, Cancel, brokerVars, historyVars,
                              InHandInv, SameQueue
    <2> QED
      BY <2>1, <2>2, SameQueueSteps
  <1>3. CASE ConnectRedis \/ ConnectMongo \/ Dial \/ StartConsumer \/ Serve
    <2>1. SameQueue /\ inHand' = inHand
      BY <1>3 DEF ConnectRedis, ConnectMongo, Dial, StartConsumer, Serve, GoOn, brokerVars,
                  historyVars, SameQueue, Pending
    <2>2. InHandInv' /\ (consumer' = consumer \/ consumer = "off")
      BY <1>3, <1>a, <2>1 DEF ConnectRedis, ConnectMongo, Dial, StartConsumer, Serve, GoOn,
                              brokerVars, historyVars, InHandInv, SameQueue
    <2> QED
      BY <2>1, <2>2, SameQueueSteps
  <1>4. CASE DialGivesUp \/ StartFails \/ MainReturns \/ Crash
    <2>1. Die
      BY <1>4 DEF DialGivesUp, StartFails, MainReturns, Crash, Fatal
    <2>2. SameQueue
      BY <1>a, <2>1, RequeueTypes DEF Die, Requeue, SameQueue
    <2>3. unacked' = <<>> /\ ~connected' /\ consumer' = "off" /\ inHand' = NoMsg
      BY <2>1 DEF Die, Requeue
    <2>4. InHandInv'
      BY <2>3 DEF InHandInv
    <2>5. consumer \in {"handled", "failed"} => inHand \in cutOff'
      BY <1>a, <2>1 DEF Die, Requeue, InHandInv
    <2> QED
      BY <2>2, <2>4, <2>5, SameQueueSteps
  <1>5. CASE LoseConnection
    <2>1. SameQueue
      BY <1>5, <1>a, RequeueTypes DEF LoseConnection, Requeue, SameQueue
    <2>2. unacked' = <<>> /\ ~connected' /\ UNCHANGED <<phase, consumer, inHand, handled>>
      BY <1>5 DEF LoseConnection, Requeue
    <2>3. inHand # NoMsg => inHand \in cutOff'
      BY <1>5 DEF LoseConnection, Requeue
    <2>4. InHandInv'
      BY <1>a, <2>1, <2>2, <2>3 DEF InHandInv, SameQueue
    <2> QED
      BY <2>1, <2>2, <2>4, SameQueueSteps
  <1>6. CASE NewConsumer
    <2>1. Pending' = Pending /\ UNCHANGED <<dead, lost, published, handled, repeated, cutOff>>
          /\ UNCHANGED <<inHand, consumer, connected, unacked>> /\ bound' = TRUE
          /\ phase' = "consume" /\ phase = "declare"
      BY <1>6 DEF NewConsumer, GoOn, historyVars, Pending
    <2>2. InHandInv' /\ OrderInv' /\ HandledInv' /\ RepeatedWereCutOff'
      BY <1>a, <2>1 DEF InHandInv, OrderInv, HandledInv, RepeatedWereCutOff
    <2>3. Queue!Bind
      BY <2>1 DEF Queue!Bind
    <2> QED
      BY <2>2, <2>3 DEF QueueStep, QueueInv, Queue!WorkQueueNext
  <1>7. CASE DeliverMsg
    <2>1. Pending' = Pending
      BY <1>7, <1>a, PendingFacts DEF DeliverMsg, Pending
    <2>2. SameQueue /\ UNCHANGED <<phase, connected, consumer, inHand, handled>> /\ connected
      BY <1>7, <2>1 DEF DeliverMsg, SameQueue, processVars, historyVars
    <2>3. InHandInv'
      BY <1>7, <1>a, <2>1, <2>2 DEF InHandInv, SameQueue, DeliverMsg, historyVars
    <2> QED
      BY <2>2, <2>3, SameQueueSteps
  <1>8. CASE Take
    <2>1. SameQueue /\ consumer' = "busy" /\ inHand' = Head(unacked) /\ unacked # <<>>
      BY <1>8 DEF Take, SameQueue, brokerVars, historyVars, Pending
    <2>2. inHand' \in Msg /\ inHand' # NoMsg
      BY <1>a, <2>1, SequenceFacts, MsgFacts
    <2>3. InHandInv'
      BY <1>8, <1>a, <2>1, <2>2, PendingFacts DEF Take, InHandInv, SameQueue, brokerVars, historyVars
    <2> QED
      BY <1>8, <2>1, <2>3, SameQueueSteps DEF Take
  <1>9. CASE HandlerFails
    <2>1. SameQueue /\ inHand' = inHand /\ consumer' = "failed"
      BY <1>9 DEF HandlerFails, SameQueue, brokerVars, historyVars, Pending
    <2>2. InHandInv'
      BY <1>9, <1>a, <2>1 DEF HandlerFails, InHandInv, SameQueue, brokerVars, historyVars
    <2> QED
      BY <2>1, <2>2, SameQueueSteps
  <1>10. CASE ConsumerReturns
    <2>1. SameQueue /\ inHand' = inHand /\ consumer = "idle"
      BY <1>10 DEF ConsumerReturns, SameQueue, brokerVars, historyVars, Pending
    <2>2. InHandInv'
      BY <1>10, <1>a, <2>1 DEF ConsumerReturns, InHandInv, SameQueue, brokerVars, historyVars
    <2> QED
      BY <2>1, <2>2, SameQueueSteps
  <1>11. ASSUME NEW c \in Conn, OpenStream(c) \/ StreamStep(c) \/ ClientGone(c)
         PROVE  QueueStep
    <2>1. SameQueue /\ UNCHANGED <<brokerVars, processVars, historyVars>>
      BY <1>11 DEF OpenStream, StreamStep, ClientGone, SameQueue, brokerVars, historyVars, Pending
    <2>2. InHandInv' /\ inHand' = inHand /\ consumer' = consumer
      BY <1>a, <2>1 DEF InHandInv, SameQueue, brokerVars, processVars, historyVars
    <2> QED
      BY <2>1, <2>2, SameQueueSteps
  <1>12. CASE Handle
    <2>1. Pending' = Pending /\ UNCHANGED <<bound, dead, lost, published, cutOff>>
          /\ UNCHANGED <<phase, connected, inHand, unacked>>
          /\ consumer = "busy" /\ consumer' = "handled" /\ handled' = handled \cup {inHand}
      BY <1>12 DEF Handle, brokerVars, Pending
    <2>2. inHand # NoMsg /\ Pending # <<>> /\ inHand = Head(Pending)
      BY <1>a, <2>1 DEF InHandInv
    <2>3. 1 \in DOMAIN Pending /\ Pending[1] = inHand /\ inHand \in 1..published
      BY <1>a, <2>2, PendingFacts, MsgFacts DEF OrderInv
    <2>4. InHandInv'
      BY <1>a, <2>1, <2>2 DEF InHandInv
    <2>5. OrderInv'
      BY <1>a, <2>1, <2>3 DEF OrderInv
    <2>6. HandledInv'
      BY <1>a, <2>1 DEF HandledInv
    <2>7. inHand \in handled => inHand \in cutOff
      BY <1>a, <2>1, <2>3 DEF HandledInv
    <2>8. RepeatedWereCutOff'
      BY <1>12, <1>a, <2>1, <2>7 DEF RepeatedWereCutOff, Handle
    <2>9. Queue!Handled
      BY <2>1, <2>2 DEF Queue!Handled
    <2> QED
      BY <2>4, <2>5, <2>6, <2>8, <2>9 DEF QueueStep, QueueInv, Queue!WorkQueueNext
  <1>13. CASE (Ack \/ Nack) /\ connected
    <2>1. inHand # NoMsg /\ Pending # <<>> /\ inHand = Head(Pending) /\ unacked # <<>>
      BY <1>13, <1>a DEF Ack, Nack, InHandInv, ProcessTypeOK
    <2>2. Pending' = Tail(Pending)
      BY <1>13, <1>a, <2>1, PendingFacts DEF Ack, Nack, Pending
    <2>3. UNCHANGED <<bound, published, lost, handled, repeated, cutOff, phase, connected>>
          /\ consumer' = "idle" /\ inHand' = NoMsg /\ dead' \subseteq dead \cup {inHand}
      BY <1>13 DEF Ack, Nack, historyVars
    <2>4. InHandInv'
      <3>1. connected' /\ phase' = phase /\ consumer \in {"handled", "failed"}
        BY <1>13, <2>3 DEF Ack, Nack
      <3> QED
        BY <1>a, <2>3, <3>1 DEF InHandInv
    <2>5. OrderInv' /\ HandledInv' /\ RepeatedWereCutOff'
      BY <2>1, <2>2, <2>3, FirstLeaves
    <2>6. ASSUME Ack
          PROVE  Queue!Acknowledged
      BY <1>13, <1>a, <2>1, <2>2, <2>3, <2>6 DEF Ack, InHandInv, Queue!Acknowledged
    <2>7. ASSUME Nack
          PROVE  Queue!DeadLettered
      BY <1>13, <2>1, <2>2, <2>3, <2>7 DEF Nack, Queue!DeadLettered
    <2> QED
      BY <1>13, <2>4, <2>5, <2>6, <2>7 DEF QueueStep, QueueInv, Queue!WorkQueueNext
  <1>14. CASE (Ack \/ Nack) /\ ~connected
    <2>1. SameQueue /\ consumer' = "idle" /\ inHand' = NoMsg
          /\ UNCHANGED <<phase, connected, unacked>>
      BY <1>14 DEF Ack, Nack, SameQueue, historyVars, Pending
    <2>2. inHand # NoMsg /\ inHand \in cutOff
      BY <1>14, <1>a DEF Ack, Nack, InHandInv
    <2>3. InHandInv'
      BY <1>14, <1>a, <2>1 DEF InHandInv, Ack, Nack
    <2> QED
      BY <2>1, <2>2, <2>3, SameQueueSteps DEF SameQueue
  <1>15. CASE Publish
    <2>1. /\ UNCHANGED <<bound, unacked, dead, handled, repeated, cutOff>>
          /\ UNCHANGED <<phase, connected, consumer, inHand>>
          /\ published < Cardinality(Msg) /\ published' = published + 1
          /\ published \in Nat /\ published + 1 \in Msg
      <3>1. /\ UNCHANGED <<bound, unacked, dead, handled, repeated, cutOff>>
            /\ UNCHANGED <<phase, connected, consumer, inHand>>
            /\ published < Cardinality(Msg) /\ published' = published + 1
        BY <1>15 DEF Publish, processVars, historyVars
      <3>2. published \in Nat
        BY <1>a, PendingFacts
      <3>3. published + 1 \in Msg
        BY <3>1, <3>2, MsgFacts
      <3> QED
        BY <3>1, <3>2, <3>3
    <2>2. \A m \in handled \cup lost \cup dead : m # published + 1 /\ m \in 1..published'
      BY <1>a, <2>1 DEF OrderInv
    <2>3. published + 1 \notin Queue!ToSet(Pending)
      <3> SUFFICES ASSUME NEW i \in DOMAIN Pending, Pending[i] = published + 1
                   PROVE  FALSE
        BY DEF Queue!ToSet
      <3> QED
        BY <1>a, <2>1 DEF OrderInv
    <2>4. RepeatedWereCutOff'
      BY <1>a, <2>1 DEF RepeatedWereCutOff
    <2>5. CASE bound
      <3>1. Pending' = Append(Pending, published + 1) /\ lost' = lost
        BY <1>15, <1>a, <2>1, <2>5, PendingFacts DEF Publish, Pending
      <3>2. /\ Sorted(Pending')
            /\ \A i \in DOMAIN Pending' :
                 (i \in DOMAIN Pending /\ Pending'[i] = Pending[i]) \/ Pending'[i] = published + 1
        BY <1>a, <2>1, <3>1, PendingFacts, SortedAppend DEF OrderInv
      <3>3. OrderInv'
        <4>1. \A i \in DOMAIN Pending' : Pending'[i] <= published'
          BY <1>a, <2>1, <3>2, PendingFacts DEF OrderInv
        <4> QED
          BY <2>1, <2>2, <3>1, <3>2, <4>1 DEF OrderInv, Sorted
      <3>4. HandledInv'
        BY <1>a, <2>1, <2>2, <3>2 DEF HandledInv
      <3>5. Pending # <<>> => Pending' # <<>> /\ Head(Pending') = Head(Pending)
        BY <1>a, <2>1, <3>1, PendingFacts, LastAppended
      <3>6. InHandInv'
        BY <1>a, <2>1, <3>5 DEF InHandInv
      <3>7. Queue!Published(published + 1)
        BY <2>1, <2>2, <2>3, <2>5, <3>1 DEF Queue!Published
      <3> QED
        BY <2>1, <2>4, <3>3, <3>4, <3>6, <3>7 DEF QueueStep, QueueInv, Queue!WorkQueueNext
    <2>6. CASE ~bound
      <3>1. Pending' = Pending /\ lost' = lost \cup {published + 1}
        BY <1>15, <2>1, <2>6 DEF Publish, Pending
      <3>2. OrderInv'
        <4>1. \A i \in DOMAIN Pending : Pending[i] <= published'
          BY <1>a, <2>1, PendingFacts, MsgFacts DEF OrderInv
        <4> QED
          BY <1>a, <2>1, <2>2, <3>1, <4>1 DEF OrderInv
      <3>3. HandledInv' /\ InHandInv'
        BY <1>a, <2>1, <3>1 DEF HandledInv, InHandInv
      <3>4. Queue!Published(published + 1)
        BY <2>1, <2>2, <2>3, <2>6, <3>1 DEF Queue!Published
      <3> QED
        BY <2>1, <2>4, <3>2, <3>3, <3>4 DEF QueueStep, QueueInv, Queue!WorkQueueNext
    <2> QED
      BY <2>5, <2>6
  <1> QED
    BY <1>1, <1>2, <1>3, <1>4, <1>5, <1>6, <1>7, <1>8, <1>9, <1>10, <1>11, <1>12, <1>13,
       <1>14, <1>15 DEF ServiceNext, StartStep, ConsumerStep

-----------------------------------------------------------------------------
(* The theorems. *)

LEMMA ServiceInitially == ServiceInit => ServiceInv /\ Queue!WorkQueueInit
  <1> SUFFICES ASSUME ServiceInit
               PROVE  ServiceInv /\ Queue!WorkQueueInit
    OBVIOUS
  <1>1. Pending = <<>>
    BY DEF ServiceInit, Pending
  <1>2. StreamsTypeOK /\ StreamsInv
    BY ConnFacts, StreamsAssumption DEF ServiceInit, StreamsInit, StreamsTypeOK, StreamsInv
  <1>3. BrokerTypeOK
    <2>1. Prefetch \in Nat /\ 0 \in 0..Cardinality(Msg)
      BY MsgFacts, ServiceAssumption
    <2>2. <<>> \in Seq(Msg) /\ Len(<<>>) = 0
      OBVIOUS
    <2>3. ready \in Seq(Msg) /\ unacked \in Seq(Msg) /\ Len(unacked) <= Prefetch
      BY <2>1, <2>2 DEF ServiceInit
    <2> QED
      BY <2>1, <2>3 DEF ServiceInit, BrokerTypeOK
  <1>4. ProcessTypeOK
    <2>1. attempts \in 0..DialAttempts /\ starts \in 0..MaxStarts /\ faults \in 0..MaxFaults
      BY BoundFacts DEF ServiceInit
    <2>2. inHand = NoMsg /\ connected = FALSE /\ phase = "down" /\ consumer = "off"
      BY DEF ServiceInit
    <2> QED
      BY <2>1, <2>2 DEF ProcessTypeOK
  <1>5. InHandInv
    BY <1>1 DEF ServiceInit, InHandInv
  <1>6. OrderInv /\ HandledInv /\ RepeatedWereCutOff
    BY <1>1 DEF ServiceInit, OrderInv, Sorted, HandledInv, RepeatedWereCutOff
  <1>7. Queue!WorkQueueInit
    BY <1>1 DEF ServiceInit, Queue!WorkQueueInit
  <1> QED
    BY <1>2, <1>3, <1>4, <1>5, <1>6, <1>7, TypeParts DEF ServiceInv, QueueInv

LEMMA ServiceInvKept == ServiceInv /\ [ServiceNext]_serviceVars => ServiceInv'
  <1> SUFFICES ASSUME ServiceInv, [ServiceNext]_serviceVars
               PROVE  ServiceInv'
    OBVIOUS
  <1>1. ServiceTypeOK /\ StreamsInv /\ InHandInv /\ StreamsTypeOK
    BY TypeParts DEF ServiceInv, QueueInv
  <1>2. StreamsTypeOK' /\ StreamsInv'
    BY <1>1, StreamSteps, StreamsTypes, StreamsKept
  <1>3. BrokerTypeOK' /\ ProcessTypeOK'
    BY <1>1, BrokerTypesKept, ProcessTypesKept
  <1>4. ServiceTypeOK'
    BY <1>2, <1>3 DEF StreamsTypeOK, BrokerTypeOK, ProcessTypeOK, ServiceTypeOK
  <1>5. QueueInv' /\ RepeatedWereCutOff'
    BY QueueSteps DEF QueueStep
  <1> QED
    BY <1>2, <1>4, <1>5 DEF ServiceInv

LEMMA ServiceInvariant == ServiceSpec => []ServiceInv
  BY ServiceInitially, ServiceInvKept, PTL DEF ServiceSpec

(* Every variable of a service and of its streams keeps its type; no more   *)
(* messages than the prefetch count are unacknowledged, and no channel      *)
(* holds more than it can (consumer.go:18-59, streamer.go:19-56).           *)
THEOREM ServiceTypeCorrect == ServiceSpec => []ServiceTypeOK
  <1>1. ServiceInv => ServiceTypeOK
    BY DEF ServiceInv
  <1> QED
    BY <1>1, ServiceInvariant, PTL

(* No channel is closed while it is registered, however the streams of a    *)
(* user come and go: nothing is sent on a closed channel and none is closed *)
(* twice (streamer.go:33-56).                                               *)
THEOREM RegisteredStayOpen == ServiceSpec => []RegisteredAreOpen
  <1>1. ServiceInv => RegisteredAreOpen
    BY DEF ServiceInv, StreamsInv, RegisteredAreOpen
  <1> QED
    BY <1>1, ServiceInvariant, PTL

(* No registered channel is without a handler that receives from it         *)
(* (server.go:153-172).                                                     *)
THEOREM RegisteredStayServed == ServiceSpec => []RegisteredAreServed
  <1>1. ServiceInv => RegisteredAreServed
    BY DEF ServiceInv, StreamsInv, RegisteredAreServed
  <1> QED
    BY <1>1, ServiceInvariant, PTL

(* A handler runs twice for a message only if the process or its connection *)
(* was lost while it had the message in hand (consumer.go:61-78).           *)
THEOREM OnlyCutOffRepeat == ServiceSpec => []RepeatedWereCutOff
  <1>1. ServiceInv => RepeatedWereCutOff
    BY DEF ServiceInv
  <1> QED
    BY <1>1, ServiceInvariant, PTL

(* There are streams only between Serve and the end of GracefulStop; and as *)
(* long as there was no fault, whoever closed the channel of a stream has   *)
(* returned.                                                                *)
ReturnInv ==
  /\ phase \notin {"up", "stopping"} => serving = {}
  /\ faults = 0 =>
       /\ \A c \in served \ hungUp : \E d \in served \ {c} : Owner[d] = Owner[c]
       /\ \A c \in closed \cap serving : \E d \in served : Owner[d] = Owner[c]

LEMMA ServingPhases ==
  ASSUME ServiceInv, ReturnInv, ServiceNext
  PROVE  phase' \notin {"up", "stopping"} => serving' = {}
  <1> USE DEF ServiceInv, ReturnInv, serviceVars, streamVars, processVars
  <1>1. CASE Launch \/ DialFails \/ Publish \/ DeliverMsg \/ HandlerFails \/ LoseConnection \/ Terminate \/ Cancel
    BY <1>1 DEF Launch, DialFails, Publish, DeliverMsg, HandlerFails, LoseConnection, Terminate, Cancel
  <1>2. CASE StartStep
    BY <1>2 DEF StartStep, ConnectRedis, ConnectMongo, Dial, DialGivesUp, NewConsumer, StartConsumer, Serve, GoOn,
                Die, DropStreams
  <1>3. CASE StartFails \/ MainReturns \/ Crash
    BY <1>3 DEF StartFails, MainReturns, Crash, Fatal, Die, DropStreams
  <1>4. CASE ConsumerStep
    BY <1>4 DEF ConsumerStep, Take, Handle, Ack, Nack, ConsumerReturns, BroadcastToRoom
  <1>5. ASSUME NEW c \in Conn, OpenStream(c) \/ StreamStep(c) \/ ClientGone(c)
        PROVE  phase' \notin {"up", "stopping"} => serving' = {}
    BY <1>5 DEF OpenStream, StreamStep, ClientGone, Register, Return, Receive, HangUp
  <1> QED
    BY <1>1, <1>2, <1>3, <1>4, <1>5 DEF ServiceNext

(* Without a fault the process ends with no stream open; the return of the  *)
(* last stream may look the same.                                           *)
LEMMA QuietEnds ==
  ASSUME ServiceInv, ReturnInv, ServiceNext, faults' = 0
  PROVE  faults = 0 /\ (DropStreams => serving = {} \/ \E c \in Conn : Return(c))
  <1> USE DEF ServiceInv, ServiceTypeOK, ReturnInv, serviceVars, streamVars, processVars
  <1>1. faults \in Nat /\ ~Fault
    BY BoundFacts DEF Fault
  <1>2. CASE Launch \/ DialFails \/ Publish \/ DeliverMsg \/ HandlerFails \/ LoseConnection \/ Terminate \/ Cancel
    BY <1>1, <1>2 DEF Launch, DialFails, Publish, DeliverMsg, HandlerFails, LoseConnection, Terminate, Cancel, DropStreams
  <1>3. CASE StartStep
    BY <1>1, <1>3 DEF StartStep, ConnectRedis, ConnectMongo, Dial, DialGivesUp, NewConsumer, StartConsumer, Serve, GoOn,
                Die, DropStreams
  <1>4. CASE StartFails \/ MainReturns \/ Crash
    BY <1>1, <1>4 DEF StartFails, MainReturns, Crash, Fatal
  <1>5. CASE ConsumerStep
    BY <1>1, <1>5 DEF ConsumerStep, Take, Handle, Ack, Nack, ConsumerReturns, BroadcastToRoom, DropStreams
  <1>6. ASSUME NEW c \in Conn, OpenStream(c) \/ StreamStep(c) \/ ClientGone(c)
        PROVE  faults = 0 /\ (DropStreams => serving = {} \/ \E b \in Conn : Return(b))
    <2>1. faults' = faults
      BY <1>6 DEF OpenStream, StreamStep, ClientGone
    <2>2. ~Return(c) /\ DropStreams => serving = {}
      BY <1>6 DEF OpenStream, StreamStep, ClientGone, Register, Receive, HangUp, DropStreams
    <2> QED
      BY <2>1, <2>2
  <1> QED
    BY <1>2, <1>3, <1>4, <1>5, <1>6 DEF ServiceNext

LEMMA ReturnKept ==
  ASSUME ServiceInv, ReturnInv, ServiceNext
  PROVE  ReturnInv'
  <1>1. SUFFICES ASSUME faults' = 0
                 PROVE  /\ \A c \in served' \ hungUp' : \E d \in served' \ {c} : Owner[d] = Owner[c]
                        /\ \A c \in closed' \cap serving' : \E d \in served' : Owner[d] = Owner[c]
    BY ServingPhases DEF ReturnInv
  <1>2. faults = 0 /\ (DropStreams => serving = {} \/ \E c \in Conn : Return(c))
    BY <1>1, QuietEnds
  <1>3. StreamAction
    BY StreamSteps DEF ServiceInv, QueueInv
  <1> USE ConnFacts DEF ServiceInv, ServiceTypeOK, StreamsTypeOK, StreamsInv, ReturnInv
  <1>4. CASE UNCHANGED <<serving, served, hungUp, closed>>
    BY <1>2, <1>4
  <1>5. CASE DropStreams /\ serving = {}
    BY <1>2, <1>5 DEF DropStreams
  <1>6. ASSUME NEW c \in Conn, Register(c)
        PROVE  /\ \A b \in served' \ hungUp' : \E d \in served' \ {b} : Owner[d] = Owner[b]
               /\ \A b \in closed' \cap serving' : \E d \in served' : Owner[d] = Owner[b]
    BY <1>2, <1>6 DEF Register
  <1>7. ASSUME NEW c \in Conn, HangUp(c)
        PROVE  /\ \A b \in served' \ hungUp' : \E d \in served' \ {b} : Owner[d] = Owner[b]
               /\ \A b \in closed' \cap serving' : \E d \in served' : Owner[d] = Owner[b]
    BY <1>2, <1>7 DEF HangUp
  <1>8. ASSUME NEW c \in Conn, Return(c)
        PROVE  /\ \A b \in served' \ hungUp' : \E d \in served' \ {b} : Owner[d] = Owner[b]
               /\ \A b \in closed' \cap serving' : \E d \in served' : Owner[d] = Owner[b]
    <2>1. /\ serving' = serving \ {c} /\ served' = served \cup {c} /\ hungUp' = hungUp /\ c \in serving
          /\ c \in hungUp \/ c \in closed
          /\ closed' \subseteq closed \cup {registered[Owner[c]]}
      BY <1>8 DEF Return, Unregister
    <2>2. ASSUME NEW b \in served' \ hungUp' PROVE \E d \in served' \ {b} : Owner[d] = Owner[b]
      <3>1. CASE b = c
        BY <2>1, <2>2, <3>1, <1>2
      <3>2. CASE b # c
        BY <2>1, <2>2, <3>2, <1>2
      <3> QED
        BY <3>1, <3>2
    <2>3. ASSUME NEW b \in closed' \cap serving' PROVE \E d \in served' : Owner[d] = Owner[b]
      <3>1. CASE b \in closed
        BY <2>1, <2>3, <3>1, <1>2
      <3>2. CASE b = registered[Owner[c]]
        <4>1. b # NoConn
          BY <2>1, <2>3
        <4>2. Owner[b] = Owner[c]
          BY <3>2, <4>1
        <4> QED
          BY <2>1, <4>2
      <3> QED
        BY <2>1, <2>3, <3>1, <3>2
    <2> QED
      BY <2>2, <2>3
  <1> QED
    BY <1>2, <1>3, <1>4, <1>5, <1>6, <1>7, <1>8 DEF StreamAction, streamVars, BroadcastToRoom, Receive

(* A stream that ends although its client is there was closed by the return *)
(* of another stream of the same user, as long as there was no fault: for   *)
(* every number of users and streams, the deferred Unregister of a stream   *)
(* that was replaced is the only thing that closes a live one               *)
(* (server.go:153-172, streamer.go:33-46).                                  *)
THEOREM OnlyReturnsClose == ServiceSpec => []OnlyAReturnCloses
  <1>1. ServiceInit => ReturnInv
    BY DEF ServiceInit, StreamsInit, ReturnInv
  <1>2. ServiceInv /\ ReturnInv /\ [ServiceNext]_serviceVars => ReturnInv'
    <2>1. ASSUME ReturnInv, UNCHANGED serviceVars PROVE ReturnInv'
      BY <2>1 DEF ReturnInv, serviceVars, streamVars, processVars
    <2> QED
      BY <2>1, ReturnKept
  <1>3. ReturnInv => OnlyAReturnCloses
    BY DEF ReturnInv, OnlyAReturnCloses
  <1> QED
    BY <1>1, <1>2, <1>3, ServiceInvariant, PTL DEF ServiceSpec

(* The queue and its consumer, with crashes, lost connections and shutdowns *)
(* anywhere, implement the work queue that the engine and scoring rely on   *)
(* (consumer.go:25-83, publisher.go:19-38).                                 *)
THEOREM ServiceIsAWorkQueue == ServiceSpec => ImplementsWorkQueue
  <1>1. ServiceInit => Queue!WorkQueueInit
    BY ServiceInitially
  <1>2. ServiceInv /\ [ServiceNext]_serviceVars => [Queue!WorkQueueNext]_Queue!wqVars
    BY QueueSteps DEF QueueStep
  <1> QED
    BY <1>1, <1>2, ServiceInvariant, PTL DEF ServiceSpec, ImplementsWorkQueue, Queue!WorkQueueSpec

=============================================================================
