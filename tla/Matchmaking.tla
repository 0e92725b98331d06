---------------------------- MODULE Matchmaking ----------------------------
(***************************************************************************)
(* The matchmaking service: the pool of waiting players in Redis, the RPCs  *)
(* that join, leave and subscribe, and the tick of the matcher, which reads *)
(* the pool, groups the players by rating, removes a group atomically,      *)
(* creates its room, publishes match.created and tells the players.         *)
(*                                                                         *)
(* Any number of instances of the service may run over one Redis.  One      *)
(* action per access to Redis, to RabbitMQ or to the streams.               *)
(***************************************************************************)
EXTENDS Integers, Sequences, FiniteSets

CONSTANTS
  Player,       \* the users, as numbers: Redis orders equal ratings by member
  Rating,       \* the rating of every player
  BucketSize,   \* ratingBucketSize (200 in matcher.go)
  MinPlayers,   \* minPlayers (2)
  MaxPlayers,   \* maxPlayers (10)
  Capacity,     \* how many events wait in the channel of a stream (10)
  Instance,     \* the instances of the service
  Deployments,  \* the sets of instances that may be deployed together
  Subscribable, \* bound: the instances that players subscribe at
  Restless,     \* bound: the players that subscribe, leave or lose their data
  MaxTickets,   \* bound: how many tickets are given out in all
  MaxFaults     \* bound: how many faults (crash, failing store, ...) may occur

ASSUME MatchmakingAssumption ==
  /\ Player \subseteq Nat
  /\ IsFiniteSet(Player)
  /\ Rating \in [Player -> Nat]
  /\ BucketSize \in Nat \ {0}
  /\ MinPlayers \in Nat
  /\ Subscribable \subseteq Instance
  /\ Restless \subseteq Player
  /\ MaxPlayers \in Nat
  /\ Capacity \in Nat
  /\ MaxTickets \in Nat
  /\ MaxFaults \in Nat

ASSUME DeploymentAssumption == Deployments \subseteq (SUBSET Instance) \ {{}}

(* The limits of the matcher are 2 and 10; finitely many instances run. *)
ASSUME MatcherAssumption ==
  /\ MinPlayers <= MaxPlayers
  /\ IsFiniteSet(Instance)

VARIABLES
  \* Redis
  pool,       \* matchmaking:pool
  data,       \* the players whose matchmaking:player:{id} exists
  rooms,      \* the tickets of every room that CreateRoom made
  \* RabbitMQ
  createdQ,   \* the rooms for which match.created was published
  \* memory of every instance
  pc,         \* where its tick is
  rest,       \* is the tick past the buckets, at the players that are left?
  unread,     \* members of the pool whose hash GetAll has yet to read
  entries,    \* what GetAll has read so far
  groups,     \* the groups the tick has yet to match
  group,      \* the group it is matching
  hand,       \* the tickets AtomicRemove took for it
  untold,     \* the players of the new room that are yet to be told
  streams,    \* the streams registered: how many tickets their player had then
  backlog,    \* the events in their channels
  \* history variables
  active,     \* the instances that are deployed
  tickets,    \* how many tickets every player was given
  gone,       \* players taken from the pool since the tick of an instance read it
  lost,       \* tickets that were removed from the pool for no room
  told,       \* rooms and the players whose channel got their MatchFound
  dropped,    \* rooms and the players whose channel was full
  faults

tickVars    == <<pc, rest, unread, entries, groups, group, hand, untold>>
streamVars  == <<streams, backlog, told, dropped>>
historyVars == <<active, gone, lost>>
mmVars      == <<pool, data, rooms, createdQ, tickVars, streamVars, tickets, faults, historyVars>>

-----------------------------------------------------------------------------
NoStream == -1
Ticket   == Player \X (1..MaxTickets)

Issued == {t \in Ticket : t[2] <= tickets[t[1]]}

(* The ticket with which u is in the pool. *)
TicketOf(u) == <<u, tickets[u]>>

Fault ==
  /\ faults < MaxFaults
  /\ faults' = faults + 1

(* Every variable has its type; in particular, match.created and MatchFound  *)
(* are only about rooms that exist (matcher.go:144-182).                     *)
MatchmakingTypeOK ==
  /\ pool \subseteq Player
  /\ data \subseteq Player
  /\ rooms \in Seq(SUBSET Ticket)
  /\ createdQ \subseteq 1..Len(rooms)
  /\ pc \in [Instance -> {"idle", "reading", "matching", "locked", "taken", "created", "telling"}]
  /\ rest \in [Instance -> BOOLEAN]
  /\ unread \in [Instance -> SUBSET Player]
  /\ entries \in [Instance -> SUBSET Player]
  /\ groups \in [Instance -> SUBSET SUBSET Player]
  /\ group \in [Instance -> SUBSET Player]
  /\ hand \in [Instance -> SUBSET Ticket]
  /\ untold \in [Instance -> SUBSET (Nat \X Player)]
  /\ streams \in [Instance -> [Player -> 0..MaxTickets \cup {NoStream}]]
  /\ backlog \in [Instance -> [Player -> 0..Capacity]]
  /\ active \subseteq Instance
  /\ tickets \in [Player -> 0..MaxTickets]
  /\ gone \in [Instance -> SUBSET Player]
  /\ lost \subseteq Ticket
  /\ told \subseteq (1..Len(rooms)) \X Player
  /\ dropped \subseteq (1..Len(rooms)) \X Player
  /\ faults \in 0..MaxFaults

MatchmakingInit ==
  /\ pool = {}
  /\ data = {}
  /\ rooms = <<>>
  /\ createdQ = {}
  /\ pc = [i \in Instance |-> "idle"]
  /\ rest = [i \in Instance |-> FALSE]
  /\ unread = [i \in Instance |-> {}]
  /\ entries = [i \in Instance |-> {}]
  /\ groups = [i \in Instance |-> {}]
  /\ group = [i \in Instance |-> {}]
  /\ hand = [i \in Instance |-> {}]
  /\ untold = [i \in Instance |-> {}]
  /\ streams = [i \in Instance |-> [u \in Player |-> NoStream]]
  /\ backlog = [i \in Instance |-> [u \in Player |-> 0]]
  /\ active \in Deployments
  /\ tickets = [u \in Player |-> 0]
  /\ gone = [i \in Instance |-> {}]
  /\ lost = {}
  /\ told = {}
  /\ dropped = {}
  /\ faults = 0

-----------------------------------------------------------------------------
(* The players that the tick of i has read and has yet to match. *)
Pending(i) == unread[i] \cup entries[i] \cup group[i] \cup UNION groups[i]

(* Players were taken from the pool, which concerns the ticks that have     *)
(* read of them; those of takers are done with their group.                 *)
TakenFromPool(takers) ==
  gone' = [j \in Instance |->
             IF j \in takers THEN gone[j] \ group[j]
                             ELSE gone[j] \cup (Pending(j) \cap (pool \ pool'))]

(* The stream of u at i is not registered any more, or is a new one, with   *)
(* the number n; its channel is empty.                                      *)
Register(u, i, n) ==
  /\ streams' = [streams EXCEPT ![i][u] = n]
  /\ backlog' = [backlog EXCEPT ![i][u] = 0]
  /\ UNCHANGED <<told, dropped>>

(* JoinMatchmaking: Pool.Add writes the entry and its hash under a new      *)
(* ticket.  The pipeline may fail with any part of it done.  One that the   *)
(* Redis client sends again, for its reply was lost, is one more join.      *)
JoinMatchmaking(u) ==
  /\ <<u, tickets[u] + 1>> \in Ticket
  /\ Cardinality(Issued) < MaxTickets
  /\ tickets' = [tickets EXCEPT ![u] = @ + 1]
  /\ \/ pool' = pool \cup {u} /\ data' = data \cup {u} /\ UNCHANGED faults
     \/ Fault /\ pool' \in {pool, pool \cup {u}} /\ data' \in {data, data \cup {u}}
  /\ UNCHANGED <<rooms, createdQ, tickVars, streamVars, historyVars>>

(* LeaveMatchmaking: Pool.Remove deletes the entry and the hash; then the   *)
(* stream the instance has registered for the player is closed.  When the   *)
(* pipeline fails, with any part of it done, the stream stays.              *)
LeaveMatchmaking(u, i) ==
  /\ i \in active
  /\ u \in Restless
  /\ tickets[u] > 0
  /\ \/ pool' = pool \ {u} /\ data' = data \ {u} /\ Register(u, i, NoStream) /\ UNCHANGED faults
     \/ Fault /\ pool' \in {pool, pool \ {u}} /\ data' \in {data, data \ {u}} /\ UNCHANGED streamVars
  /\ TakenFromPool({})
  /\ UNCHANGED <<rooms, createdQ, tickVars, active, tickets, lost>>

(* SubscribeToMatch registers a stream at the instance it reached, in the   *)
(* place of one that is there, ...                                          *)
SubscribeToMatch(u, i) ==
  /\ i \in active \cap Subscribable
  /\ u \in Restless
  /\ Register(u, i, tickets[u])
  /\ UNCHANGED <<pool, data, rooms, createdQ, tickVars, tickets, faults, historyVars>>

(* ... passes on what comes out of its channel, when the client takes it,   *)
PassOn(u, i) ==
  /\ backlog[i][u] > 0
  /\ backlog' = [backlog EXCEPT ![i][u] = @ - 1]
  /\ UNCHANGED <<pool, data, rooms, createdQ, tickVars, streams, told, dropped, tickets, faults,
                 historyVars>>

(* ... until its client is gone, or an earlier client of the same player.   *)
Unsubscribe(u, i) ==
  /\ streams[i][u] # NoStream
  /\ Register(u, i, NoStream)
  /\ UNCHANGED <<pool, data, rooms, createdQ, tickVars, tickets, faults, historyVars>>

(* The hash of a player expires after five minutes, its entry does not. *)
ExpireData(u) ==
  /\ u \in Restless
  /\ u \in data
  /\ data' = data \ {u}
  /\ UNCHANGED <<pool, rooms, createdQ, tickVars, streamVars, tickets, faults, historyVars>>

-----------------------------------------------------------------------------
BucketOf(u) == (Rating[u] \div BucketSize) * BucketSize

(* Redis returns the entries in the order of their ratings. *)
Before(u, v) == Rating[u] < Rating[v] \/ (Rating[u] = Rating[v] /\ u < v)

(* Mutant: one player too many. *)
FirstAndOneMore(S) == {u \in S : Cardinality({v \in S : Before(v, u)}) <= MaxPlayers}

(* The first MaxPlayers of S in that order. *)
FirstOf(S) == {u \in S : Cardinality({v \in S : Before(v, u)}) < MaxPlayers}

(* Mutant: a bucket with a single player is matched as well. *)
NotEmpty(S) == S # {}

BigEnough(S) == Cardinality(S) >= MinPlayers

(* Mutant: the players that the buckets left are grouped by bucket again. *)
BucketsOnly(E, isRest) ==
  {FirstOf(S) : S \in {T \in {{u \in E : BucketOf(u) = BucketOf(v)} : v \in E} : BigEnough(T)}}

(* The groups to match: one from every bucket with enough players, or, when *)
(* the buckets are done, one from all that are left.                        *)
GroupsOf(E, isRest) ==
  {FirstOf(S) : S \in
     {T \in (IF isRest THEN {E} ELSE {{u \in E : BucketOf(u) = BucketOf(v)} : v \in E}) :
        BigEnough(T)}}

(* GetAll begins with ZRANGE, at the tick and again after the buckets.  An  *)
(* error ends the tick.                                                     *)
ReadPool(i) ==
  /\ i \in active
  /\ \/ pc[i] = "idle" /\ rest' = [rest EXCEPT ![i] = FALSE]
     \/ pc[i] = "matching" /\ groups[i] = {} /\ ~rest[i] /\ rest' = [rest EXCEPT ![i] = TRUE]
  /\ \/ /\ pc' = [pc EXCEPT ![i] = "reading"]
        /\ unread' = [unread EXCEPT ![i] = pool]
        /\ UNCHANGED faults
     \/ /\ Fault
        /\ pc' = [pc EXCEPT ![i] = "idle"]
        /\ UNCHANGED unread
  /\ entries' = [entries EXCEPT ![i] = {}]
  /\ gone' = [gone EXCEPT ![i] = {}]
  /\ UNCHANGED <<pool, data, rooms, createdQ, groups, group, hand, untold, streamVars, tickets,
                 active, lost>>

(* One HGETALL after the other; an entry without a hash is skipped, and so  *)
(* is one whose hash cannot be read.                                        *)
ReadEntry(i, u) ==
  /\ pc[i] = "reading"
  /\ u \in unread[i]
  /\ \A v \in unread[i] \ {u} : Before(u, v)
  /\ unread' = [unread EXCEPT ![i] = @ \ {u}]
  /\ \/ /\ entries' = IF u \in data THEN [entries EXCEPT ![i] = @ \cup {u}] ELSE entries
        /\ UNCHANGED faults
     \/ Fault /\ UNCHANGED entries
  /\ UNCHANGED <<pool, data, rooms, createdQ, pc, rest, groups, group, hand, untold, streamVars,
                 tickets, historyVars>>

(* BroadcastWaitUpdate: an event more in every channel that is not full. *)
BroadcastWaitUpdate(i) ==
  backlog' = [backlog EXCEPT ![i] = [u \in Player |->
                IF streams[i][u] # NoStream /\ @[u] < Capacity THEN @[u] + 1 ELSE @[u]]]

(* All read.  Fewer than minPlayers: the waiting players get a WaitUpdate   *)
(* and the tick is over.                                                    *)
FormGroups(i) ==
  /\ pc[i] = "reading"
  /\ unread[i] = {}
  /\ IF rest[i] \/ BigEnough(entries[i])
     THEN /\ pc' = [pc EXCEPT ![i] = "matching"]
          /\ groups' = [groups EXCEPT ![i] = GroupsOf(entries[i], rest[i])]
          /\ UNCHANGED <<backlog, gone>>
     ELSE /\ pc' = [pc EXCEPT ![i] = "idle"]
          /\ BroadcastWaitUpdate(i)
          /\ gone' = [gone EXCEPT ![i] = {}]
          /\ UNCHANGED groups
  /\ entries' = [entries EXCEPT ![i] = {}]
  /\ UNCHANGED <<pool, data, rooms, createdQ, rest, unread, group, hand, untold, streams, told,
                 dropped, tickets, faults, active, lost>>

(* createMatch: the buckets come in the order of a Go map.  The lock has    *)
(* the fresh id of the room in its name, so nobody else holds it; SETNX may *)
(* fail, or be sent again and find the key that it made itself.             *)
AcquireLock(i, G) ==
  /\ pc[i] = "matching"
  /\ G \in groups[i]
  /\ groups' = [groups EXCEPT ![i] = @ \ {G}]
  /\ \/ /\ pc' = [pc EXCEPT ![i] = "locked"]
        /\ group' = [group EXCEPT ![i] = G]
        /\ UNCHANGED faults
     \/ Fault /\ UNCHANGED <<pc, group>>
  /\ UNCHANGED <<pool, data, rooms, createdQ, rest, unread, entries, hand, untold, streamVars,
                 tickets, historyVars>>

(* Mutant: all players of the group are taken for removed. *)
TakeAll(i) ==
  /\ pc[i] = "locked"
  /\ pool' = pool \ group[i]
  /\ hand' = [hand EXCEPT ![i] = {TicketOf(u) : u \in group[i]}]
  /\ pc' = [pc EXCEPT ![i] = "taken"]
  /\ group' = [group EXCEPT ![i] = {}]
  /\ TakenFromPool({i})
  /\ UNCHANGED <<data, rooms, createdQ, rest, unread, entries, groups, untold, streamVars,
                 tickets, faults, active, lost>>

(* The tickets of the group that are still in the pool. *)
Removed(i) == {TicketOf(u) : u \in group[i] \cap pool}

(* AtomicRemove takes those of the group that are still in the pool.  Fewer *)
(* than minPlayers, or an error, and createMatch returns: who was removed   *)
(* is in no pool and gets no room.                                          *)
AtomicRemove(i) ==
  /\ pc[i] = "locked"
  /\ \/ /\ Cardinality(Removed(i)) >= MinPlayers
        /\ pool' = pool \ group[i]
        /\ hand' = [hand EXCEPT ![i] = Removed(i)]
        /\ pc' = [pc EXCEPT ![i] = "taken"]
        /\ UNCHANGED <<lost, faults>>
     \/ /\ Cardinality(Removed(i)) < MinPlayers
        /\ pool' = pool \ group[i]
        /\ lost' = lost \cup Removed(i)
        /\ pc' = [pc EXCEPT ![i] = "matching"]
        /\ UNCHANGED <<hand, faults>>
     \/ /\ Fault
        /\ \/ pool' = pool \ group[i] /\ lost' = lost \cup Removed(i)
           \/ UNCHANGED <<pool, lost>>
        /\ pc' = [pc EXCEPT ![i] = "matching"]
        /\ UNCHANGED hand
  /\ group' = [group EXCEPT ![i] = {}]
  /\ TakenFromPool({i})
  /\ UNCHANGED <<data, rooms, createdQ, rest, unread, entries, groups, untold, streamVars,
                 tickets, active>>

(* The script has run but its reply is lost: the Redis client sends it      *)
(* again, and the next run finds nobody of those it removed.                *)
RemoveResent(i) ==
  /\ pc[i] = "locked"
  /\ Fault
  /\ pool' = pool \ group[i]
  /\ lost' = lost \cup Removed(i)
  /\ TakenFromPool({})
  /\ UNCHANGED <<data, rooms, createdQ, tickVars, streamVars, tickets, active>>

(* Mutant: an error of CreateRoom is only logged. *)
CreateAnyway(i) ==
  /\ pc[i] = "taken"
  /\ \/ rooms' = Append(rooms, hand[i]) /\ UNCHANGED faults
     \/ Fault /\ UNCHANGED rooms
  /\ untold' = [untold EXCEPT ![i] = {<<Len(rooms) + 1, t[1]>> : t \in hand[i]}]
  /\ pc' = [pc EXCEPT ![i] = "created"]
  /\ hand' = [hand EXCEPT ![i] = {}]
  /\ UNCHANGED <<pool, data, createdQ, rest, unread, entries, groups, group, streamVars,
                 tickets, historyVars>>

(* CreateRoom writes the room and its players, or fails and the players     *)
(* that were removed are lost.  To write it twice changes nothing.          *)
CreateRoom(i) ==
  /\ pc[i] = "taken"
  /\ \/ /\ rooms' = Append(rooms, hand[i])
        /\ untold' = [untold EXCEPT ![i] = {<<Len(rooms) + 1, t[1]>> : t \in hand[i]}]
        /\ pc' = [pc EXCEPT ![i] = "created"]
        /\ UNCHANGED <<lost, faults>>
     \/ /\ Fault
        /\ lost' = lost \cup hand[i]
        /\ pc' = [pc EXCEPT ![i] = "matching"]
        /\ UNCHANGED <<rooms, untold>>
  /\ hand' = [hand EXCEPT ![i] = {}]
  /\ UNCHANGED <<pool, data, createdQ, rest, unread, entries, groups, group, streamVars,
                 tickets, active, gone>>

(* match.created is published; an error is only logged. *)
PublishCreated(i) ==
  /\ pc[i] = "created"
  /\ pc' = [pc EXCEPT ![i] = "telling"]
  /\ \/ createdQ' = createdQ \cup {m[1] : m \in untold[i]} /\ UNCHANGED faults
     \/ Fault /\ UNCHANGED createdQ
  /\ UNCHANGED <<pool, data, rooms, rest, unread, entries, groups, group, hand, untold,
                 streamVars, tickets, historyVars>>

(* MatchFound for m goes into the channel of a stream, unless it is full.   *)
Send(i, m) ==
  LET u == m[2]
  IN  \/ streams[i][u] = NoStream /\ UNCHANGED <<backlog, told, dropped>>
      \/ /\ streams[i][u] # NoStream /\ backlog[i][u] < Capacity
         /\ backlog' = [backlog EXCEPT ![i][u] = @ + 1]
         /\ told' = told \cup {m}
         /\ UNCHANGED dropped
      \/ /\ streams[i][u] # NoStream /\ backlog[i][u] >= Capacity
         /\ dropped' = dropped \cup {m}
         /\ UNCHANGED <<backlog, told>>

(* Mutant: only the first player of the room is told. *)
TellOne(i, m) ==
  /\ pc[i] = "telling"
  /\ m \in untold[i]
  /\ untold' = [untold EXCEPT ![i] = {}]
  /\ Send(i, m)
  /\ UNCHANGED <<pool, data, rooms, createdQ, pc, rest, unread, entries, groups, group, hand,
                 streams, tickets, faults, historyVars>>

(* MatchFound is sent to one player after the other, in the order of the    *)
(* entries; it reaches those that have a stream at this instance.           *)
TellPlayer(i, m) ==
  /\ pc[i] = "telling"
  /\ m \in untold[i]
  /\ \A n \in untold[i] \ {m} : Before(m[2], n[2])
  /\ untold' = [untold EXCEPT ![i] = @ \ {m}]
  /\ Send(i, m)
  /\ UNCHANGED <<pool, data, rooms, createdQ, pc, rest, unread, entries, groups, group, hand,
                 streams, tickets, faults, historyVars>>

(* createMatch returns and releases the lock: on to the next group. *)
FinishGroup(i) ==
  /\ pc[i] = "telling"
  /\ untold[i] = {}
  /\ pc' = [pc EXCEPT ![i] = "matching"]
  /\ UNCHANGED <<pool, data, rooms, createdQ, rest, unread, entries, groups, group, hand,
                 untold, streamVars, tickets, faults, historyVars>>

(* The tick is over. *)
EndTick(i) ==
  /\ pc[i] = "matching"
  /\ groups[i] = {}
  /\ rest[i]
  /\ pc' = [pc EXCEPT ![i] = "idle"]
  /\ rest' = [rest EXCEPT ![i] = FALSE]
  /\ gone' = [gone EXCEPT ![i] = {}]
  /\ UNCHANGED <<pool, data, rooms, createdQ, unread, entries, groups, group, hand, untold,
                 streamVars, tickets, faults, active, lost>>

(* An instance dies and restarts: its tick and its streams are gone. *)
InstanceCrash(i) ==
  /\ i \in active
  /\ Fault
  /\ pc' = [pc EXCEPT ![i] = "idle"]
  /\ rest' = [rest EXCEPT ![i] = FALSE]
  /\ unread' = [unread EXCEPT ![i] = {}]
  /\ entries' = [entries EXCEPT ![i] = {}]
  /\ groups' = [groups EXCEPT ![i] = {}]
  /\ group' = [group EXCEPT ![i] = {}]
  /\ lost' = lost \cup hand[i]
  /\ hand' = [hand EXCEPT ![i] = {}]
  /\ untold' = [untold EXCEPT ![i] = {}]
  /\ streams' = [streams EXCEPT ![i] = [u \in Player |-> NoStream]]
  /\ backlog' = [backlog EXCEPT ![i] = [u \in Player |-> 0]]
  /\ gone' = [gone EXCEPT ![i] = {}]
  /\ UNCHANGED <<pool, data, rooms, createdQ, active, tickets, told, dropped>>

-----------------------------------------------------------------------------
TickStep(i) ==
  \/ ReadPool(i)
  \/ \E u \in Player : ReadEntry(i, u)
  \/ FormGroups(i)
  \/ \E G \in groups[i] : AcquireLock(i, G)
  \/ AtomicRemove(i)
  \/ CreateRoom(i)
  \/ PublishCreated(i)
  \/ \E m \in untold[i] : TellPlayer(i, m)
  \/ FinishGroup(i)
  \/ EndTick(i)

ClientStep ==
  \E u \in Player :
    \/ JoinMatchmaking(u)
    \/ ExpireData(u)
    \/ \E i \in Instance :
         \/ LeaveMatchmaking(u, i)
         \/ SubscribeToMatch(u, i)
         \/ PassOn(u, i)
         \/ Unsubscribe(u, i)

MatchmakingNext ==
  \/ ClientStep
  \/ \E i \in Instance : TickStep(i) \/ RemoveResent(i) \/ InstanceCrash(i)

(* The ticker of every instance that is deployed goes on; players do what   *)
(* they like, and nothing need fail.                                        *)
MatchmakingSpec ==
  /\ MatchmakingInit
  /\ [][MatchmakingNext]_mmVars
  /\ \A i \in Instance : WF_mmVars(TickStep(i))

-----------------------------------------------------------------------------
PoolTickets == {TicketOf(u) : u \in pool}

(* A ticket is in at most one place: the pool, the hands of one instance, or *)
(* one room.  Instances that match over one pool, a player who joins again   *)
(* and the entries a tick read a while ago never seat anybody twice          *)
(* (matcher.go:118-146, pool.go:92-104).                                     *)
OneRoomPerTicket ==
  /\ \A k, l \in DOMAIN rooms : k # l => rooms[k] \cap rooms[l] = {}
  /\ \A i \in Instance :
       /\ hand[i] \cap PoolTickets = {}
       /\ \A j \in Instance \ {i} : hand[i] \cap hand[j] = {}
       /\ \A k \in DOMAIN rooms : hand[i] \cap rooms[k] = {}
  /\ \A k \in DOMAIN rooms : rooms[k] \cap PoolTickets = {}

(* A tick that loses tickets without a fault in that very step has an       *)
(* excuse: somebody of its group is not in the pool any more, and was taken *)
(* from it since the tick read it, by leaving, by another instance, or by   *)
(* the same script when its reply was lost.  Nobody is lost for how a tick  *)
(* reads, groups and takes (matcher.go:62-126).                             *)
LossHasACause ==
  [][lost' # lost /\ faults' = faults =>
       \E i \in Instance : group'[i] = {} /\ (group[i] \cap gone[i]) \ pool # {}]_mmVars

(* With one instance, a player whose stream was there before the ticket is  *)
(* told of the room of that ticket, whatever fails or crashes, unless the   *)
(* channel was full of events that the client did not take.  Clients        *)
(* subscribe after they join, and have no such promise (matcher.go:180-182, *)
(* server.go:66, streamer.go:40-51).                                        *)
SubscribersAreTold ==
  \A i \in active, k \in DOMAIN rooms :
    active = {i} /\ k \notin {m[1] : m \in untold[i]} =>
      \A t \in rooms[k] :
        streams[i][t[1]] # NoStream /\ streams[i][t[1]] < t[2] => <<k, t[1]>> \in told \cup dropped

Waiting     == PoolTickets \cup UNION {hand[i] : i \in Instance}
SeatedRooms == {rooms[k] : k \in DOMAIN rooms}

Seated == INSTANCE Seating WITH issued <- Issued, waiting <- Waiting, seated <- SeatedRooms

(* The service seats every ticket at most once, with enough others and not   *)
(* too many, whatever the interleaving of ticks, joins and leaves.           *)
ImplementsSeating == Seated!SeatingSpec

(* While two players wait whose data is there, a tick comes that takes some  *)
(* of them: whatever their ratings, and whoever came or left meanwhile       *)
(* (matcher.go:97-104).                                                      *)
TwoWait        == Cardinality(pool \cap data) >= MinPlayers
TwoAreTakenSoon == TwoWait ~> ~TwoWait
=============================================================================
