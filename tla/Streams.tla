------------------------------ MODULE Streams ------------------------------
(***************************************************************************)
(* The streamer of a service: every stream RPC registers a channel of       *)
(* limited capacity under the name of its user, forwards what it receives   *)
(* to its client, and unregisters that name when it returns.  Senders never *)
(* wait.  GameStreamer (per room) and MatchStreamer work alike.             *)
(***************************************************************************)
EXTENDS Naturals, Sequences, FiniteSets

CONSTANTS
  User,      \* the users that may have a stream
  Conn,      \* the stream RPCs, as numbers; each stands for its channel, too
  Owner,     \* the user of every connection
  Capacity,  \* how many events a channel holds (20, or 10 for matches)
  Event      \* what is sent

ASSUME StreamsAssumption ==
  /\ Conn \subseteq Nat \ {0}
  /\ Owner \in [Conn -> User]
  /\ Capacity \in Nat

VARIABLES
  registered,  \* the connection registered for every user
  serving,     \* the connections whose handler runs
  served,      \* those whose handler has returned
  hungUp,      \* those whose client is gone
  closed,      \* those whose channel is closed
  channel      \* the events in the channel of every connection

streamVars == <<registered, serving, served, hungUp, closed, channel>>

NoConn == 0

(* Every variable has its type, and no channel holds more than it can.      *)
StreamsTypeOK ==
  /\ registered \in [User -> Conn \cup {NoConn}]
  /\ serving \subseteq Conn
  /\ served \subseteq Conn \ serving
  /\ hungUp \subseteq Conn
  /\ closed \subseteq Conn
  /\ channel \in [Conn -> Seq(Event)]
  /\ \A c \in Conn : Len(channel[c]) <= Capacity

StreamsInit ==
  /\ registered = [u \in User |-> NoConn]
  /\ serving = {}
  /\ served = {}
  /\ hungUp = {}
  /\ closed = {}
  /\ channel = [c \in Conn |-> <<>>]

-----------------------------------------------------------------------------
(* Mutant: the channel in the way is closed. *)
RegisterClosing(c) ==
  /\ c \notin serving \cup served
  /\ serving' = serving \cup {c}
  /\ registered' = [registered EXCEPT ![Owner[c]] = c]
  /\ closed' = closed \cup ({registered[Owner[c]]} \ {NoConn})
  /\ UNCHANGED <<served, hungUp, channel>>

(* Register makes a channel and puts it in the place of any other of the    *)
(* user, which stays open and gets nothing more.                            *)
Register(c) ==
  /\ c \notin serving \cup served
  /\ serving' = serving \cup {c}
  /\ registered' = [registered EXCEPT ![Owner[c]] = c]
  /\ UNCHANGED <<served, hungUp, closed, channel>>

(* The context of the stream is done. *)
HangUp(c) ==
  /\ c \in serving \ hungUp
  /\ hungUp' = hungUp \cup {c}
  /\ UNCHANGED <<registered, serving, served, closed, channel>>

(* Mutant: the closed channel stays registered. *)
CloseOnly(u) ==
  /\ closed' = IF registered[u] = NoConn THEN closed ELSE closed \cup {registered[u]}
  /\ UNCHANGED registered

(* Unregister closes and forgets the channel the user has registered,       *)
(* whichever that is.                                                       *)
Unregister(u) ==
  /\ closed' = IF registered[u] = NoConn THEN closed ELSE closed \cup {registered[u]}
  /\ registered' = [registered EXCEPT ![u] = NoConn]

(* Mutant: the handler returns without its deferred Unregister. *)
ReturnOnly(c) ==
  /\ c \in serving
  /\ c \in hungUp \/ (c \in closed /\ channel[c] = <<>>)
  /\ serving' = serving \ {c}
  /\ served' = served \cup {c}
  /\ UNCHANGED <<registered, closed, hungUp, channel>>

(* Mutant: the handler does not look at the context of its stream. *)
ReturnWhenClosed(c) ==
  /\ c \in serving
  /\ c \in closed /\ channel[c] = <<>>
  /\ serving' = serving \ {c}
  /\ served' = served \cup {c}
  /\ Unregister(Owner[c])
  /\ UNCHANGED <<hungUp, channel>>

(* The handler returns when its client is gone, or when its channel was     *)
(* closed and is empty; the deferred Unregister runs.                       *)
Return(c) ==
  /\ c \in serving
  /\ c \in hungUp \/ (c \in closed /\ channel[c] = <<>>)
  /\ serving' = serving \ {c}
  /\ served' = served \cup {c}
  /\ Unregister(Owner[c])
  /\ UNCHANGED <<hungUp, channel>>

(* Mutant: the newest event is sent first. *)
ReceiveNewest(c, e) ==
  /\ c \in serving
  /\ channel[c] # <<>>
  /\ e = channel[c][Len(channel[c])]
  /\ channel' = [channel EXCEPT ![c] = SubSeq(@, 1, Len(@) - 1)]
  /\ UNCHANGED <<registered, serving, served, hungUp, closed>>

(* The handler receives the next event, to send it to its client. *)
Receive(c, e) ==
  /\ c \in serving
  /\ channel[c] # <<>>
  /\ e = Head(channel[c])
  /\ channel' = [channel EXCEPT ![c] = Tail(@)]
  /\ UNCHANGED <<registered, serving, served, hungUp, closed>>

-----------------------------------------------------------------------------
(* Mutant: the channels grow. *)
AllKept(ch, es) == ch \o es

(* What a channel holds after the events es were sent, one after the other: *)
(* those that find it full are dropped.                                     *)
Filled(ch, es) ==
  LET room == Capacity - Len(ch)
  IN  IF Len(es) <= room THEN ch \o es ELSE ch \o SubSeq(es, 1, room)

(* The events es are sent to all registered channels. *)
BroadcastToRoom(es) ==
  /\ channel' = [c \in Conn |-> IF registered[Owner[c]] = c
                                THEN Filled(channel[c], es) ELSE channel[c]]
  /\ UNCHANGED <<registered, serving, served, hungUp, closed>>

(* The process dies, and every stream with it. *)
DropStreams ==
  /\ registered' = [u \in User |-> NoConn]
  /\ serving' = {}
  /\ served' = served \cup serving
  /\ UNCHANGED <<hungUp, closed, channel>>

-----------------------------------------------------------------------------
(* No channel is closed while it is registered: nothing is ever sent on a   *)
(* closed channel, and none is closed twice.  Either would panic            *)
(* (streamer.go:33-56).                                                     *)
RegisteredAreOpen == \A u \in User : registered[u] # NoConn => registered[u] \notin closed

(* Every registered channel has a handler that receives from it: however    *)
(* often clients reconnect, no entry outlives its stream                    *)
(* (server.go:153-172).                                                     *)
RegisteredAreServed == \A u \in User : registered[u] # NoConn => registered[u] \in serving
=============================================================================
