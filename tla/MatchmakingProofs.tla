------------------------- MODULE MatchmakingProofs -------------------------
(***************************************************************************)
(* Proofs about matchmaking, for every set of players, ratings, instances   *)
(* and limits: types, the place of every ticket, and that the service       *)
(* implements Seating.                                                      *)
(***************************************************************************)
EXTENDS Matchmaking, FiniteSetTheorems, WellFoundedInduction, TLAPS

-----------------------------------------------------------------------------
(* The inductive invariant: the types and, beside OneRoomPerTicket, what    *)
(* the steps of a tick hand on to one another.                              *)

(* The tickets in the hands of an instance were given out, belong to        *)
(* different players, make a room of the right size, and are there only     *)
(* between AtomicRemove and CreateRoom.                                     *)
HandsInv ==
  \A i \in Instance :
    /\ hand[i] \subseteq Issued
    /\ pc[i] # "taken" => hand[i] = {}
    /\ pc[i] = "taken" => Cardinality(hand[i]) \in MinPlayers..MaxPlayers
    /\ \A s, t \in hand[i] : s # t => s[1] # t[1]

(* No group is larger than a room. *)
GroupsInv ==
  \A i \in Instance :
    /\ \A G \in groups[i] : Cardinality(G) <= MaxPlayers
    /\ pc[i] = "locked" => Cardinality(group[i]) <= MaxPlayers

(* Whoever is in the pool or in a room was given a ticket. *)
IssuedInv ==
  /\ \A u \in pool : tickets[u] >= 1
  /\ \A k \in DOMAIN rooms : rooms[k] \subseteq Issued

(* The players an instance is about to tell are those of a room. *)
UntoldInv == \A i \in Instance : untold[i] \subseteq (1..Len(rooms)) \X Player

PlacesInv ==
  /\ HandsInv
  /\ GroupsInv
  /\ IssuedInv
  /\ UntoldInv
  /\ OneRoomPerTicket

MatchmakingInv == MatchmakingTypeOK /\ PlacesInv

-----------------------------------------------------------------------------
(* The first MaxPlayers of a set of players.                                *)

LEMMA BeforeIsOrder ==
  /\ \A u \in Player : ~Before(u, u)
  /\ \A u, v \in Player : u # v => Before(u, v) \/ Before(v, u)
  /\ \A u, v, w \in Player : Before(u, v) /\ Before(v, w) => Before(u, w)
  <1>1. \A u \in Player : u \in Nat /\ Rating[u] \in Nat
    BY MatchmakingAssumption
  <1> QED
    BY <1>1 DEF Before

(* The number of players before u grows with u, so it numbers FirstOf(S)    *)
(* with the numbers below MaxPlayers.                                       *)
LEMMA FirstOfSize ==
  ASSUME NEW S \in SUBSET Player
  PROVE  FirstOf(S) \subseteq S /\ Cardinality(FirstOf(S)) <= MaxPlayers
  <1> DEFINE Below(u) == {v \in S : Before(v, u)}
             rank == [u \in FirstOf(S) |-> Cardinality(Below(u))]
  <1>1. IsFiniteSet(S) /\ FirstOf(S) \subseteq S
    BY FS_Subset, MatchmakingAssumption DEF FirstOf
  <1>2. \A u \in S : IsFiniteSet(Below(u)) /\ Cardinality(Below(u)) \in Nat
    BY <1>1, FS_Subset, FS_CardinalityType
  <1>3. ASSUME NEW u \in S, NEW v \in S, Before(u, v)
        PROVE  Cardinality(Below(u)) < Cardinality(Below(v))
    <2>1. Below(u) \in SUBSET Below(v)
      BY <1>3, BeforeIsOrder
    <2>2. u \in Below(v) /\ u \notin Below(u)
      BY <1>3, BeforeIsOrder
    <2>3. /\ Cardinality(Below(u)) <= Cardinality(Below(v))
          /\ Cardinality(Below(u)) # Cardinality(Below(v))
      BY <2>1, <2>2, <1>2, FS_Subset
    <2> QED
      BY <2>3, <1>2
  <1>4. rank \in [FirstOf(S) -> 0..(MaxPlayers - 1)]
    <2>1. \A u \in FirstOf(S) : Cardinality(Below(u)) < MaxPlayers
      BY DEF FirstOf
    <2>2. \A u \in FirstOf(S) : Cardinality(Below(u)) \in 0..(MaxPlayers - 1)
      <3>1. \A c \in Nat : c < MaxPlayers => c \in 0..(MaxPlayers - 1)
        BY MatchmakingAssumption
      <3>2. \A u \in FirstOf(S) : Cardinality(Below(u)) \in Nat
        BY <1>1, <1>2
      <3> QED
        BY <3>1, <3>2, <2>1, Zenon
    <2> QED
      BY <2>2
  <1>5. \A u, v \in FirstOf(S) : rank[u] = rank[v] => u = v
    <2>1. SUFFICES ASSUME NEW u \in FirstOf(S), NEW v \in FirstOf(S), u # v
                   PROVE  Cardinality(Below(u)) # Cardinality(Below(v))
      OBVIOUS
    <2>2. Before(u, v) \/ Before(v, u)
      BY <2>1, <1>1, BeforeIsOrder
    <2>3. Cardinality(Below(u)) \in Nat /\ Cardinality(Below(v)) \in Nat
      BY <1>1, <1>2
    <2>4. \/ Cardinality(Below(u)) < Cardinality(Below(v))
          \/ Cardinality(Below(v)) < Cardinality(Below(u))
      BY <2>2, <1>1, <1>3
    <2> QED
      BY <2>3, <2>4
  <1>6. rank \in Injection(FirstOf(S), 0..(MaxPlayers - 1))
    <2> HIDE DEF rank
    <2> QED
      BY <1>4, <1>5 DEF Injection, IsInjective
  <1>7. IsFiniteSet(0..(MaxPlayers - 1)) /\ Cardinality(0..(MaxPlayers - 1)) = MaxPlayers
    BY FS_Interval, MatchmakingAssumption
  <1>8. Cardinality(FirstOf(S)) <= Cardinality(0..(MaxPlayers - 1))
    <2> HIDE DEF rank
    <2> QED
      BY <1>6, <1>7, FS_Injection
  <1> QED
    BY <1>1, <1>7, <1>8

LEMMA GroupsSize ==
  ASSUME NEW E \in SUBSET Player, NEW b \in BOOLEAN, NEW G \in GroupsOf(E, b)
  PROVE  G \in SUBSET Player /\ Cardinality(G) <= MaxPlayers
  <1>1. PICK S \in SUBSET Player : G = FirstOf(S)
    BY DEF GroupsOf
  <1> QED
    BY <1>1, FirstOfSize

-----------------------------------------------------------------------------
(* Types.                                                                  *)

LEMMA FaultType ==
  ASSUME MatchmakingTypeOK, Fault
  PROVE  faults' \in 0..MaxFaults
  BY MatchmakingAssumption DEF MatchmakingTypeOK, Fault

LEMMA UpdateType ==
  ASSUME NEW V, NEW v \in V, NEW f \in [Instance -> [Player -> V]],
         NEW i \in Instance, NEW u \in Player
  PROVE  [f EXCEPT ![i][u] = v] \in [Instance -> [Player -> V]]
  OBVIOUS

(* The variables of the streams. *)
StreamTypes ==
  /\ streams \in [Instance -> [Player -> 0..MaxTickets \cup {NoStream}]]
  /\ backlog \in [Instance -> [Player -> 0..Capacity]]
  /\ told \subseteq (1..Len(rooms)) \X Player
  /\ dropped \subseteq (1..Len(rooms)) \X Player

LEMMA RegisterType ==
  ASSUME MatchmakingTypeOK, UNCHANGED rooms, NEW i \in Instance, NEW u \in Player,
         NEW n \in {NoStream, tickets[u]}, Register(u, i, n)
  PROVE  StreamTypes'
  <1> DEFINE V == 0..MaxTickets \cup {NoStream}
             C == 0..Capacity
  <1>1. n \in V /\ streams \in [Instance -> [Player -> V]]
    BY DEF MatchmakingTypeOK
  <1>2. 0 \in C /\ backlog \in [Instance -> [Player -> C]]
    BY MatchmakingAssumption DEF MatchmakingTypeOK
  <1>3. streams' \in [Instance -> [Player -> V]] /\ backlog' \in [Instance -> [Player -> C]]
    <2> HIDE DEF V, C
    <2> QED
      BY <1>1, <1>2, UpdateType DEF Register
  <1> QED
    BY <1>3 DEF StreamTypes, MatchmakingTypeOK, Register

LEMMA TakenType ==
  ASSUME MatchmakingTypeOK, NEW takers, TakenFromPool(takers)
  PROVE  gone' \in [Instance -> SUBSET Player]
  BY DEF MatchmakingTypeOK, TakenFromPool

LEMMA ReplaceType ==
  ASSUME NEW V, NEW v \in V, NEW f \in [Instance -> V], NEW i \in Instance
  PROVE  [f EXCEPT ![i] = v] \in [Instance -> V]
  OBVIOUS

LEMMA AppendType ==
  ASSUME NEW S, NEW q \in Seq(S), NEW x \in S
  PROVE  /\ Append(q, x) \in Seq(S)
         /\ Len(q) \in Nat
         /\ Len(Append(q, x)) = Len(q) + 1
         /\ DOMAIN q = 1..Len(q)
         /\ DOMAIN Append(q, x) = 1..(Len(q) + 1)
         /\ Append(q, x)[Len(q) + 1] = x
         /\ \A k \in 1..Len(q) : Append(q, x)[k] = q[k]
  OBVIOUS

LEMMA AppendElements ==
  ASSUME NEW S, NEW q \in Seq(S), NEW x \in S
  PROVE  \A k \in DOMAIN Append(q, x) :
           \/ k = Len(q) + 1 /\ Append(q, x)[k] = x
           \/ k \in DOMAIN q /\ Append(q, x)[k] = q[k]
  OBVIOUS

LEMMA TicketOfType ==
  ASSUME MatchmakingTypeOK, IssuedInv, NEW u \in pool
  PROVE  TicketOf(u) \in Ticket /\ TicketOf(u) \in Issued
  BY MatchmakingAssumption DEF MatchmakingTypeOK, IssuedInv, TicketOf, Ticket, Issued

LEMMA RemovedType ==
  ASSUME MatchmakingTypeOK, IssuedInv, NEW i \in Instance
  PROVE  Removed(i) \in SUBSET Ticket
  <1>1. \A u \in pool : TicketOf(u) \in Ticket
    BY TicketOfType
  <1> QED
    BY <1>1 DEF Removed

LEMMA MatchmakingTypeInit == MatchmakingInit => MatchmakingTypeOK
  BY MatchmakingAssumption, DeploymentAssumption DEF MatchmakingInit, MatchmakingTypeOK, NoStream

(* Every step keeps the types. *)
LEMMA MatchmakingTypeStep ==
  ASSUME MatchmakingTypeOK, IssuedInv, UntoldInv, MatchmakingNext
  PROVE  MatchmakingTypeOK'
  <1> USE FaultType DEF MatchmakingTypeOK, tickVars, streamVars, historyVars
  <1>1. ASSUME NEW u \in Player, JoinMatchmaking(u) PROVE MatchmakingTypeOK'
    <2>1. tickets[u] + 1 \in 0..MaxTickets
      BY <1>1 DEF JoinMatchmaking, Ticket
    <2>2. pool' \subseteq Player /\ data' \subseteq Player /\ faults' \in 0..MaxFaults
      BY <1>1 DEF JoinMatchmaking
    <2> QED
      BY <1>1, <2>1, <2>2 DEF JoinMatchmaking
  <1>2. ASSUME NEW u \in Player, NEW i \in Instance, LeaveMatchmaking(u, i) PROVE MatchmakingTypeOK'
    <2>1. gone' \in [Instance -> SUBSET Player]
      BY <1>2, TakenType DEF LeaveMatchmaking
    <2>2. StreamTypes'
      <3>1. Register(u, i, NoStream) \/ UNCHANGED streamVars
        BY <1>2 DEF LeaveMatchmaking
      <3>2. UNCHANGED rooms
        BY <1>2 DEF LeaveMatchmaking
      <3> QED
        BY <3>1, <3>2, RegisterType DEF StreamTypes
    <2>3. pool' \subseteq Player /\ data' \subseteq Player /\ faults' \in 0..MaxFaults
      BY <1>2 DEF LeaveMatchmaking
    <2> QED
      BY <1>2, <2>1, <2>2, <2>3 DEF LeaveMatchmaking, StreamTypes
  <1>3. ASSUME NEW u \in Player, NEW i \in Instance, SubscribeToMatch(u, i) PROVE MatchmakingTypeOK'
    <2>1. StreamTypes'
      BY <1>3, RegisterType DEF SubscribeToMatch
    <2> QED
      BY <1>3, <2>1 DEF SubscribeToMatch, StreamTypes
  <1>4. ASSUME NEW u \in Player, NEW i \in Instance, Unsubscribe(u, i) PROVE MatchmakingTypeOK'
    <2>1. StreamTypes'
      BY <1>4, RegisterType DEF Unsubscribe
    <2> QED
      BY <1>4, <2>1 DEF Unsubscribe, StreamTypes
  <1>17. ASSUME NEW u \in Player, NEW i \in Instance, PassOn(u, i) PROVE MatchmakingTypeOK'
    <2>1. backlog[i][u] - 1 \in 0..Capacity
      BY <1>17, MatchmakingAssumption DEF PassOn
    <2>2. backlog' \in [Instance -> [Player -> 0..Capacity]]
      BY <1>17, <2>1 DEF PassOn
    <2> QED
      BY <1>17, <2>2 DEF PassOn
  <1>5. ASSUME NEW u \in Player, ExpireData(u) PROVE MatchmakingTypeOK'
    BY <1>5 DEF ExpireData
  <1>6. ASSUME NEW i \in Instance, ReadPool(i) PROVE MatchmakingTypeOK'
    BY <1>6 DEF ReadPool
  <1>7. ASSUME NEW i \in Instance, NEW u \in Player, ReadEntry(i, u) PROVE MatchmakingTypeOK'
    <2>1. entries' \in [Instance -> SUBSET Player] /\ unread' \in [Instance -> SUBSET Player]
      <3>1. \/ entries' = entries
            \/ entries' = [entries EXCEPT ![i] = @ \cup {u}]
        BY <1>7 DEF ReadEntry
      <3>2. unread' = [unread EXCEPT ![i] = @ \ {u}]
        BY <1>7 DEF ReadEntry
      <3>3. entries[i] \cup {u} \in SUBSET Player /\ unread[i] \ {u} \in SUBSET Player
        OBVIOUS
      <3> QED
        BY ONLY <3>1, <3>2, <3>3, ReplaceType, i \in Instance,
                entries \in [Instance -> SUBSET Player], unread \in [Instance -> SUBSET Player]
    <2>2. faults' \in 0..MaxFaults
      BY <1>7 DEF ReadEntry
    <2> QED
      BY <1>7, <2>1, <2>2 DEF ReadEntry
  <1>8. ASSUME NEW i \in Instance, FormGroups(i) PROVE MatchmakingTypeOK'
    <2>1. GroupsOf(entries[i], rest[i]) \in SUBSET SUBSET Player
      BY GroupsSize
    <2>2. groups' \in [Instance -> SUBSET SUBSET Player]
      BY ZenonT(40), <1>8, <2>1 DEF FormGroups
    <2>3. backlog' \in [Instance -> [Player -> 0..Capacity]]
      <3>1. CASE BroadcastWaitUpdate(i)
        <4>1. \A u \in Player : (IF streams[i][u] # NoStream /\ backlog[i][u] < Capacity
                                THEN backlog[i][u] + 1 ELSE backlog[i][u]) \in 0..Capacity
          BY SMTT(30), MatchmakingAssumption
        <4> QED
          BY <3>1, <4>1 DEF BroadcastWaitUpdate
      <3> QED
        BY <1>8, <3>1 DEF FormGroups
    <2>4. gone' \in [Instance -> SUBSET Player]
      BY ZenonT(40), <1>8 DEF FormGroups
    <2> QED
      BY <1>8, <2>2, <2>3, <2>4 DEF FormGroups
  <1>9. ASSUME NEW i \in Instance, NEW G \in groups[i], AcquireLock(i, G) PROVE MatchmakingTypeOK'
    BY ZenonT(40), <1>9 DEF AcquireLock
  <1>10. ASSUME NEW i \in Instance, AtomicRemove(i) PROVE MatchmakingTypeOK'
    <2>1. Removed(i) \in SUBSET Ticket
      BY RemovedType
    <2>2. hand' \in [Instance -> SUBSET Ticket] /\ lost' \subseteq Ticket
      <3>1. hand' = hand \/ hand' = [hand EXCEPT ![i] = Removed(i)]
        BY <1>10 DEF AtomicRemove
      <3>2. lost' = lost \/ lost' = lost \cup Removed(i)
        BY <1>10 DEF AtomicRemove
      <3> QED
        BY ZenonT(40), <2>1, <3>1, <3>2
    <2>3. pool' \subseteq Player /\ group' \in [Instance -> SUBSET Player]
      BY <1>10 DEF AtomicRemove
    <2>4. pc' \in [Instance -> {"idle", "reading", "matching", "locked", "taken", "created", "telling"}]
      BY <1>10 DEF AtomicRemove
    <2>5. faults' \in 0..MaxFaults
      BY <1>10 DEF AtomicRemove
    <2>6. gone' \in [Instance -> SUBSET Player]
      BY <1>10, TakenType DEF AtomicRemove
    <2> QED
      BY <1>10, <2>2, <2>3, <2>4, <2>5, <2>6 DEF AtomicRemove
  <1>18. ASSUME NEW i \in Instance, RemoveResent(i) PROVE MatchmakingTypeOK'
    <2>1. Removed(i) \in SUBSET Ticket
      BY RemovedType
    <2>2. gone' \in [Instance -> SUBSET Player] /\ faults' \in 0..MaxFaults
      BY <1>18, TakenType DEF RemoveResent
    <2> QED
      BY <1>18, <2>1, <2>2 DEF RemoveResent
  <1>11. ASSUME NEW i \in Instance, CreateRoom(i) PROVE MatchmakingTypeOK'
    <2>1. rooms' \in Seq(SUBSET Ticket) /\ Len(rooms') \in Nat /\ Len(rooms) \in Nat /\ Len(rooms') >= Len(rooms)
      <3>1. rooms' = rooms \/ rooms' = Append(rooms, hand[i])
        BY <1>11 DEF CreateRoom
      <3>2. hand[i] \in SUBSET Ticket /\ rooms \in Seq(SUBSET Ticket)
        OBVIOUS
      <3> QED
        BY ONLY <3>1, <3>2, AppendType
    <2>2. /\ createdQ' \subseteq 1..Len(rooms') /\ told' \subseteq (1..Len(rooms')) \X Player
          /\ dropped' \subseteq (1..Len(rooms')) \X Player
      <3>1. UNCHANGED <<createdQ, told, dropped>> /\ 1..Len(rooms) \subseteq 1..Len(rooms')
        BY <1>11, <2>1 DEF CreateRoom
      <3> QED
        BY ZenonT(40), <3>1
    <2>3. {<<Len(rooms) + 1, t[1]>> : t \in hand[i]} \in SUBSET (Nat \X Player)
      BY SMTT(30), <2>1 DEF Ticket
    <2>4. untold' \in [Instance -> SUBSET (Nat \X Player)]
      <3> DEFINE new == {<<Len(rooms) + 1, t[1]>> : t \in hand[i]}
      <3>1. untold' = untold \/ untold' = [untold EXCEPT ![i] = new]
        BY <1>11 DEF CreateRoom
      <3>2. new \in SUBSET (Nat \X Player) /\ untold \in [Instance -> SUBSET (Nat \X Player)]
        BY <2>3
      <3> HIDE DEF new
      <3> QED
        BY ONLY SMTT(30), <3>1, <3>2
    <2>5. hand' \in [Instance -> SUBSET Ticket] /\ lost' \subseteq Ticket
      BY <1>11 DEF CreateRoom
    <2>6. pc' \in [Instance -> {"idle", "reading", "matching", "locked", "taken", "created", "telling"}]
      BY <1>11 DEF CreateRoom
    <2>7. faults' \in 0..MaxFaults
      BY <1>11 DEF CreateRoom
    <2> QED
      BY <1>11, <2>1, <2>2, <2>4, <2>5, <2>6, <2>7 DEF CreateRoom
  <1>12. ASSUME NEW i \in Instance, PublishCreated(i) PROVE MatchmakingTypeOK'
    <2>1. {m[1] : m \in untold[i]} \subseteq 1..Len(rooms)
      BY DEF UntoldInv
    <2>2. createdQ' \subseteq 1..Len(rooms) /\ faults' \in 0..MaxFaults
      BY <1>12, <2>1 DEF PublishCreated
    <2> QED
      BY <1>12, <2>2 DEF PublishCreated
  <1>13. ASSUME NEW i \in Instance, NEW m \in untold[i], TellPlayer(i, m) PROVE MatchmakingTypeOK'
    <2>1. m \in (1..Len(rooms)) \X Player
      BY DEF UntoldInv
    <2>2. StreamTypes'
      <3>1. Send(i, m) /\ UNCHANGED <<rooms, streams>>
        BY <1>13 DEF TellPlayer
      <3>2. m[2] \in Player
        BY <2>1
      <3>3. backlog' \in [Instance -> [Player -> 0..Capacity]]
        <4>1. \/ backlog' = backlog
              \/ /\ backlog[i][m[2]] < Capacity
                 /\ backlog' = [backlog EXCEPT ![i][m[2]] = @ + 1]
          BY <3>1 DEF Send
        <4>2. backlog[i][m[2]] \in 0..Capacity
          BY <3>2
        <4>3. \A n \in 0..Capacity : n < Capacity => n + 1 \in 0..Capacity
          BY MatchmakingAssumption
        <4>4. CASE backlog' = backlog
          BY <4>4
        <4>5. CASE backlog[i][m[2]] < Capacity /\ backlog' = [backlog EXCEPT ![i][m[2]] = @ + 1]
          <5> DEFINE C == 0..Capacity
                     n == backlog[i][m[2]] + 1
          <5>1. n \in C /\ backlog \in [Instance -> [Player -> C]] /\ backlog' = [backlog EXCEPT ![i][m[2]] = n]
            BY <4>2, <4>3, <4>5
          <5> HIDE DEF C, n
          <5>2. backlog' \in [Instance -> [Player -> C]]
            BY ONLY <5>1, <3>2, UpdateType, i \in Instance
          <5> QED
            BY <5>2 DEF C
        <4> QED
          BY <4>1, <4>4, <4>5
      <3>4. told' \subseteq (1..Len(rooms)) \X Player /\ dropped' \subseteq (1..Len(rooms)) \X Player
        BY <3>1, <2>1 DEF Send
      <3> QED
        BY <3>1, <3>3, <3>4 DEF StreamTypes
    <2>3. untold' \in [Instance -> SUBSET (Nat \X Player)]
      BY <1>13 DEF TellPlayer
    <2> QED
      BY <1>13, <2>2, <2>3 DEF TellPlayer, StreamTypes
  <1>14. ASSUME NEW i \in Instance, FinishGroup(i) PROVE MatchmakingTypeOK'
    BY <1>14 DEF FinishGroup
  <1>15. ASSUME NEW i \in Instance, EndTick(i) PROVE MatchmakingTypeOK'
    BY <1>15 DEF EndTick
  <1>16. ASSUME NEW i \in Instance, InstanceCrash(i) PROVE MatchmakingTypeOK'
    BY SMTT(30), <1>16, MatchmakingAssumption DEF InstanceCrash
  <1> QED
    BY <1>1, <1>2, <1>3, <1>4, <1>5, <1>6, <1>7, <1>8, <1>9, <1>10, <1>11, <1>12, <1>13, <1>14, <1>15, <1>16, <1>17, <1>18 DEF MatchmakingNext, ClientStep, TickStep

-----------------------------------------------------------------------------
(* The steps that move a ticket; all others leave it where it is.           *)

Still ==
  /\ UNCHANGED <<pool, tickets, rooms, hand>>
  /\ \A i \in Instance : pc'[i] = "taken" <=> pc[i] = "taken"

LEMMA Movers ==
  ASSUME MatchmakingTypeOK, MatchmakingNext
  PROVE  \/ \E u \in Player : JoinMatchmaking(u)
         \/ \E u \in Player, i \in Instance : LeaveMatchmaking(u, i)
         \/ \E i \in Instance : AtomicRemove(i) \/ RemoveResent(i) \/ CreateRoom(i) \/ InstanceCrash(i)
         \/ Still
  <1> USE DEF MatchmakingTypeOK, Still, tickVars
  <1>1. ASSUME NEW u \in Player, NEW i \in Instance, SubscribeToMatch(u, i) PROVE Still
    BY <1>1 DEF SubscribeToMatch
  <1>2. ASSUME NEW u \in Player, NEW i \in Instance, Unsubscribe(u, i) PROVE Still
    BY <1>2 DEF Unsubscribe
  <1>3. ASSUME NEW u \in Player, ExpireData(u) PROVE Still
    BY <1>3 DEF ExpireData
  <1>12. ASSUME NEW u \in Player, NEW i \in Instance, PassOn(u, i) PROVE Still
    BY <1>12 DEF PassOn
  <1>4. ASSUME NEW i \in Instance, ReadPool(i) PROVE Still
    BY <1>4 DEF ReadPool
  <1>5. ASSUME NEW i \in Instance, NEW u \in Player, ReadEntry(i, u) PROVE Still
    BY <1>5 DEF ReadEntry
  <1>6. ASSUME NEW i \in Instance, FormGroups(i) PROVE Still
    BY <1>6 DEF FormGroups
  <1>7. ASSUME NEW i \in Instance, NEW G \in groups[i], AcquireLock(i, G) PROVE Still
    BY <1>7 DEF AcquireLock
  <1>8. ASSUME NEW i \in Instance, PublishCreated(i) PROVE Still
    BY <1>8 DEF PublishCreated
  <1>9. ASSUME NEW i \in Instance, NEW m \in untold[i], TellPlayer(i, m) PROVE Still
    BY <1>9 DEF TellPlayer
  <1>10. ASSUME NEW i \in Instance, FinishGroup(i) PROVE Still
    BY <1>10 DEF FinishGroup
  <1>11. ASSUME NEW i \in Instance, EndTick(i) PROVE Still
    BY <1>11 DEF EndTick
  <1> QED
    BY <1>1, <1>2, <1>3, <1>4, <1>5, <1>6, <1>7, <1>8, <1>9, <1>10, <1>11, <1>12
       DEF MatchmakingNext, ClientStep, TickStep

(* What the movers do to the tickets. *)
LEMMA Joining ==
  ASSUME MatchmakingInv, NEW u \in Player, JoinMatchmaking(u)
  PROVE  /\ <<u, tickets[u] + 1>> \in Ticket \ Issued
         /\ Issued' = Issued \cup {<<u, tickets[u] + 1>>}
         /\ PoolTickets \ {<<u, tickets[u]>>} \subseteq PoolTickets'
         /\ PoolTickets' \subseteq PoolTickets \cup {<<u, tickets[u] + 1>>}
         /\ UNCHANGED <<rooms, hand, pc>>
  <1> USE DEF MatchmakingInv, MatchmakingTypeOK
  <1>1. /\ <<u, tickets[u] + 1>> \in Ticket
        /\ tickets' = [tickets EXCEPT ![u] = @ + 1]
        /\ pool' = pool \/ pool' = pool \cup {u}
        /\ UNCHANGED <<rooms, hand, pc>>
    BY DEF JoinMatchmaking, tickVars
  <1>2. <<u, tickets[u] + 1>> \notin Issued
    BY DEF Issued
  <1>3. /\ tickets'[u] = tickets[u] + 1
        /\ \A v \in Player : v # u => tickets'[v] = tickets[v]
    BY <1>1
  <1>4. Issued' = Issued \cup {<<u, tickets[u] + 1>>}
    <2>1. ASSUME NEW t \in Ticket
          PROVE  t[2] <= tickets'[t[1]] <=> t[2] <= tickets[t[1]] \/ t = <<u, tickets[u] + 1>>
      <3>1. PICK v \in Player, n \in 1..MaxTickets : t = <<v, n>>
        BY DEF Ticket
      <3>2. tickets[u] \in Nat /\ tickets[v] \in Nat /\ n \in Nat
        BY MatchmakingAssumption
      <3>3. CASE v = u
        BY ONLY <3>1, <3>2, <3>3, <1>3
      <3>4. CASE v # u
        BY ONLY <3>1, <3>2, <3>4, <1>3, v \in Player
      <3> QED
        BY <3>3, <3>4
    <2> QED
      BY ZenonT(40), <2>1, <1>1 DEF Issued
  <1>5. /\ PoolTickets \ {<<u, tickets[u]>>} \subseteq PoolTickets'
        /\ PoolTickets' \subseteq PoolTickets \cup {<<u, tickets[u] + 1>>}
    BY <1>1, <1>3 DEF PoolTickets, TicketOf
  <1> QED
    BY <1>1, <1>2, <1>4, <1>5

LEMMA Leaving ==
  ASSUME MatchmakingInv, NEW u \in Player, NEW i \in Instance, LeaveMatchmaking(u, i)
  PROVE  /\ PoolTickets' \in {PoolTickets, PoolTickets \ {<<u, tickets[u]>>}}
         /\ pool' \subseteq pool
         /\ UNCHANGED <<tickets, rooms, hand, pc>>
  BY DEF LeaveMatchmaking, tickVars, PoolTickets, TicketOf

LEMMA TicketsSize ==
  ASSUME NEW S, IsFiniteSet(S)
  PROVE  LET T == {TicketOf(u) : u \in S} IN IsFiniteSet(T) /\ Cardinality(T) <= Cardinality(S)
  <1> DEFINE T == {TicketOf(u) : u \in S}
             f == [u \in S |-> TicketOf(u)]
  <1>1. f \in [S -> T] /\ \A t \in T : \E u \in S : f[u] = t
    OBVIOUS
  <1> HIDE DEF T, f
  <1>2. f \in Surjection(S, T)
    BY <1>1 DEF Surjection
  <1>3. IsFiniteSet(T) /\ Cardinality(T) <= Cardinality(S)
    BY <1>2, FS_Surjection
  <1> QED
    BY <1>3 DEF T

LEMMA Removing ==
  ASSUME MatchmakingInv, NEW i \in Instance, AtomicRemove(i)
  PROVE  /\ Removed(i) \subseteq PoolTickets
         /\ pool' \subseteq pool
         /\ UNCHANGED <<tickets, rooms>>
         /\ \/ /\ PoolTickets' = PoolTickets \ Removed(i)
               /\ hand' = [hand EXCEPT ![i] = Removed(i)]
               /\ pc' = [pc EXCEPT ![i] = "taken"]
               /\ Cardinality(Removed(i)) \in MinPlayers..MaxPlayers
            \/ /\ PoolTickets' \in {PoolTickets, PoolTickets \ Removed(i)}
               /\ hand' = hand
               /\ pc' = [pc EXCEPT ![i] = "matching"]
  <1> USE DEF MatchmakingInv, MatchmakingTypeOK
  <1>1. Removed(i) \subseteq PoolTickets /\ UNCHANGED <<tickets, rooms>>
    BY DEF Removed, PoolTickets, AtomicRemove
  <1>2. pool' = pool \ group[i] => PoolTickets' = PoolTickets \ Removed(i)
    BY <1>1 DEF Removed, PoolTickets, TicketOf
  <1>3. pool' = pool => PoolTickets' = PoolTickets
    BY <1>1 DEF PoolTickets, TicketOf
  <1>4. Cardinality(Removed(i)) \in Nat /\ Cardinality(Removed(i)) <= MaxPlayers
    <2>1. IsFiniteSet(group[i]) /\ IsFiniteSet(group[i] \cap pool)
      BY MatchmakingAssumption, FS_Subset
    <2>2. Cardinality(group[i] \cap pool) <= Cardinality(group[i])
      BY <2>1, FS_Subset
    <2>3. IsFiniteSet(Removed(i)) /\ Cardinality(Removed(i)) <= Cardinality(group[i] \cap pool)
      BY <2>1, TicketsSize DEF Removed
    <2>4. Cardinality(group[i]) <= MaxPlayers
      BY DEF PlacesInv, GroupsInv, AtomicRemove
    <2>5. /\ Cardinality(Removed(i)) \in Nat
          /\ Cardinality(group[i]) \in Nat
          /\ Cardinality(group[i] \cap pool) \in Nat
      BY <2>1, <2>3, FS_CardinalityType
    <2> QED
      BY <2>2, <2>3, <2>4, <2>5, MatchmakingAssumption
  <1>5. CASE /\ Cardinality(Removed(i)) >= MinPlayers
             /\ pool' = pool \ group[i]
             /\ hand' = [hand EXCEPT ![i] = Removed(i)]
             /\ pc' = [pc EXCEPT ![i] = "taken"]
    <2>1. Cardinality(Removed(i)) \in MinPlayers..MaxPlayers
      BY <1>4, <1>5, MatchmakingAssumption
    <2> QED
      BY <1>1, <1>2, <1>5, <2>1
  <1>6. CASE /\ pool' = pool \ group[i] \/ pool' = pool
             /\ hand' = hand
             /\ pc' = [pc EXCEPT ![i] = "matching"]
    BY <1>1, <1>2, <1>3, <1>6
  <1> QED
    BY <1>5, <1>6 DEF AtomicRemove, Removed

LEMMA Resending ==
  ASSUME MatchmakingInv, NEW i \in Instance, RemoveResent(i)
  PROVE  /\ PoolTickets' \subseteq PoolTickets
         /\ pool' \subseteq pool
         /\ UNCHANGED <<tickets, rooms, hand, pc, group, groups>>
  BY DEF RemoveResent, tickVars, PoolTickets, TicketOf

LEMMA Creating ==
  ASSUME MatchmakingInv, NEW i \in Instance, CreateRoom(i)
  PROVE  /\ hand' = [hand EXCEPT ![i] = {}]
         /\ pc[i] = "taken"
         /\ \/ rooms' = Append(rooms, hand[i]) /\ pc' = [pc EXCEPT ![i] = "created"]
            \/ rooms' = rooms /\ pc' = [pc EXCEPT ![i] = "matching"]
         /\ UNCHANGED <<pool, tickets>>
  BY DEF CreateRoom

LEMMA Crashing ==
  ASSUME MatchmakingInv, NEW i \in Instance, InstanceCrash(i)
  PROVE  /\ hand' = [hand EXCEPT ![i] = {}]
         /\ pc' = [pc EXCEPT ![i] = "idle"]
         /\ UNCHANGED <<pool, tickets, rooms>>
  BY DEF InstanceCrash

-----------------------------------------------------------------------------
(* Every step keeps the invariant.                                          *)

LEMMA GroupsStep ==
  ASSUME MatchmakingInv, MatchmakingNext
  PROVE  GroupsInv'
  <1> USE DEF MatchmakingInv, MatchmakingTypeOK, PlacesInv, GroupsInv
  <1>1. ASSUME NEW i \in Instance, ReadPool(i) PROVE GroupsInv'
    BY <1>1 DEF ReadPool
  <1>2. ASSUME NEW i \in Instance, FormGroups(i) PROVE GroupsInv'
    <2>1. entries[i] \in SUBSET Player /\ rest[i] \in BOOLEAN
      OBVIOUS
    <2>2. \A G \in GroupsOf(entries[i], rest[i]) : Cardinality(G) <= MaxPlayers
      BY <2>1, GroupsSize
    <2> QED
      BY <1>2, <2>2 DEF FormGroups
  <1>3. ASSUME NEW i \in Instance, NEW G \in groups[i], AcquireLock(i, G) PROVE GroupsInv'
    BY <1>3 DEF AcquireLock
  <1>4. ASSUME NEW i \in Instance, AtomicRemove(i) PROVE GroupsInv'
    BY <1>4 DEF AtomicRemove
  <1>5. ASSUME NEW i \in Instance, CreateRoom(i) PROVE GroupsInv'
    BY <1>5 DEF CreateRoom
  <1>6. ASSUME NEW i \in Instance, PublishCreated(i) PROVE GroupsInv'
    BY <1>6 DEF PublishCreated
  <1>7. ASSUME NEW i \in Instance, FinishGroup(i) PROVE GroupsInv'
    BY <1>7 DEF FinishGroup
  <1>8. ASSUME NEW i \in Instance, EndTick(i) PROVE GroupsInv'
    BY <1>8 DEF EndTick
  <1>9. ASSUME NEW i \in Instance, InstanceCrash(i) PROVE GroupsInv'
    BY <1>9 DEF InstanceCrash
  <1>10. CASE UNCHANGED <<groups, group, pc>>
    BY <1>10
  <1> QED
    BY ZenonT(40), <1>1, <1>2, <1>3, <1>4, <1>5, <1>6, <1>7, <1>8, <1>9, <1>10
       DEF MatchmakingNext, ClientStep, TickStep, tickVars, streamVars, JoinMatchmaking, LeaveMatchmaking, SubscribeToMatch, PassOn, Unsubscribe, Register, ExpireData, ReadEntry, TellPlayer, RemoveResent

LEMMA UntoldStep ==
  ASSUME MatchmakingInv, MatchmakingNext
  PROVE  UntoldInv'
  <1> USE DEF MatchmakingInv, MatchmakingTypeOK, PlacesInv, UntoldInv
  <1>1. ASSUME NEW i \in Instance, CreateRoom(i) PROVE UntoldInv'
    <2>1. hand[i] \in SUBSET Ticket /\ rooms \in Seq(SUBSET Ticket)
      OBVIOUS
    <2>2. /\ Len(rooms) \in Nat
          /\ rooms' = rooms \/ Len(rooms') = Len(rooms) + 1
      BY <1>1, <2>1, AppendType DEF CreateRoom
    <2>3. \/ untold' = untold
          \/ /\ untold' = [untold EXCEPT ![i] = {<<Len(rooms) + 1, t[1]>> : t \in hand[i]}]
             /\ Len(rooms') = Len(rooms) + 1
      BY <1>1, <2>1, AppendType DEF CreateRoom
    <2>4. \A t \in hand[i] : t[1] \in Player
      BY <2>1 DEF Ticket
    <2>5. 1..Len(rooms) \subseteq 1..Len(rooms')
      BY <2>2
    <2>6. ASSUME NEW j \in Instance PROVE untold'[j] \subseteq (1..Len(rooms')) \X Player
      <3>1. CASE untold'[j] = untold[j]
        BY <3>1, <2>5
      <3>2. CASE /\ untold'[j] = {<<Len(rooms) + 1, t[1]>> : t \in hand[i]}
                 /\ Len(rooms') = Len(rooms) + 1
        BY <3>2, <2>2, <2>4
      <3> QED
        BY <2>3, <3>1, <3>2
    <2> QED
      BY <2>6
  <1>2. ASSUME NEW i \in Instance, NEW m \in untold[i], TellPlayer(i, m) PROVE UntoldInv'
    BY <1>2 DEF TellPlayer
  <1>3. ASSUME NEW i \in Instance, InstanceCrash(i) PROVE UntoldInv'
    BY <1>3 DEF InstanceCrash
  <1>4. CASE UNCHANGED <<untold, rooms>>
    BY <1>4
  <1> QED
    BY ZenonT(40), <1>1, <1>2, <1>3, <1>4
       DEF MatchmakingNext, ClientStep, TickStep, tickVars, streamVars, JoinMatchmaking, LeaveMatchmaking, SubscribeToMatch, PassOn, Unsubscribe, Register, ExpireData, ReadPool, ReadEntry, FormGroups, AcquireLock, AtomicRemove, PublishCreated, FinishGroup, EndTick, RemoveResent

LEMMA IssuedStep ==
  ASSUME MatchmakingInv, MatchmakingNext
  PROVE  IssuedInv'
  <1> USE DEF MatchmakingInv, MatchmakingTypeOK, PlacesInv, IssuedInv
  <1>1. ASSUME NEW u \in Player, JoinMatchmaking(u) PROVE IssuedInv'
    <2>1. Issued \subseteq Issued' /\ rooms' = rooms
      BY <1>1, Joining
    <2>2. \A v \in pool' : tickets'[v] >= 1
      BY <1>1 DEF JoinMatchmaking
    <2> QED
      BY <2>1, <2>2
  <1>2. ASSUME UNCHANGED <<tickets, rooms>>, pool' \subseteq pool PROVE IssuedInv'
    BY <1>2 DEF Issued
  <1>3. ASSUME NEW u \in Player, NEW i \in Instance, LeaveMatchmaking(u, i) PROVE IssuedInv'
    BY <1>3, <1>2, Leaving
  <1>4. ASSUME NEW i \in Instance, AtomicRemove(i) PROVE IssuedInv'
    BY <1>4, <1>2, Removing
  <1>5. ASSUME NEW i \in Instance, CreateRoom(i) PROVE IssuedInv'
    <2>1. CASE rooms' = Append(rooms, hand[i])
      <3>1. hand[i] \in SUBSET Ticket /\ rooms \in Seq(SUBSET Ticket) /\ hand[i] \subseteq Issued
        BY DEF HandsInv
      <3>2. \A k \in DOMAIN rooms' : rooms'[k] = hand[i] \/ (k \in DOMAIN rooms /\ rooms'[k] = rooms[k])
        <4>1. \A k \in DOMAIN Append(rooms, hand[i]) :
                \/ Append(rooms, hand[i])[k] = hand[i]
                \/ k \in DOMAIN rooms /\ Append(rooms, hand[i])[k] = rooms[k]
          BY ONLY <3>1, AppendElements
        <4> QED
          BY ONLY <4>1, <2>1
      <3>3. Issued' = Issued /\ pool' = pool /\ tickets' = tickets
        BY <1>5, Creating DEF Issued
      <3> QED
        BY <3>1, <3>2, <3>3
    <2> QED
      BY <2>1, <1>5, <1>2, Creating
  <1>6. ASSUME NEW i \in Instance, InstanceCrash(i) PROVE IssuedInv'
    BY <1>6, <1>2, Crashing
  <1>7. CASE Still
    BY <1>7, <1>2 DEF Still
  <1>8. ASSUME NEW i \in Instance, RemoveResent(i) PROVE IssuedInv'
    BY <1>8, <1>2, Resending
  <1> QED
    BY <1>1, <1>3, <1>4, <1>5, <1>6, <1>7, <1>8, Movers

LEMMA HandsStep ==
  ASSUME MatchmakingInv, MatchmakingNext
  PROVE  HandsInv'
  <1> USE DEF MatchmakingInv, MatchmakingTypeOK, PlacesInv, HandsInv
  <1>1. ASSUME Issued \subseteq Issued', hand' = hand, \A i \in Instance : pc'[i] = "taken" <=> pc[i] = "taken"
        PROVE  HandsInv'
    BY <1>1
  <1>2. ASSUME NEW i \in Instance, tickets' = tickets, hand' = [hand EXCEPT ![i] = {}],
               \E x \in {"created", "matching", "idle"} : pc' = [pc EXCEPT ![i] = x]
        PROVE  HandsInv'
    <2>1. Issued' = Issued /\ hand'[i] = {} /\ pc'[i] # "taken"
      BY <1>2 DEF Issued
    <2>2. \A j \in Instance \ {i} : hand'[j] = hand[j] /\ pc'[j] = pc[j]
      BY <1>2
    <2> QED
      BY ZenonT(40), <2>1, <2>2
  <1>3. ASSUME NEW u \in Player, JoinMatchmaking(u) PROVE HandsInv'
    BY <1>3, <1>1, Joining
  <1>4. ASSUME NEW u \in Player, NEW i \in Instance, LeaveMatchmaking(u, i) PROVE HandsInv'
    BY <1>4, <1>1, Leaving DEF Issued
  <1>5. ASSUME NEW i \in Instance, AtomicRemove(i) PROVE HandsInv'
    <2>1. Issued' = Issued
      BY <1>5, Removing DEF Issued
    <2>2. Removed(i) \subseteq Issued
      BY TicketOfType DEF Removed
    <2>3. \A s, t \in Removed(i) : s # t => s[1] # t[1]
      BY ONLY DEF Removed, TicketOf
    <2>4. pc[i] = "locked"
      BY <1>5 DEF AtomicRemove
    <2>5. CASE /\ hand' = [hand EXCEPT ![i] = Removed(i)]
               /\ pc' = [pc EXCEPT ![i] = "taken"]
               /\ Cardinality(Removed(i)) \in MinPlayers..MaxPlayers
      <3>1. hand'[i] = Removed(i) /\ pc'[i] = "taken"
        BY <2>5
      <3>2. \A j \in Instance \ {i} : hand'[j] = hand[j] /\ pc'[j] = pc[j]
        BY <2>5
      <3> QED
        BY <2>1, <2>2, <2>3, <2>5, <3>1, <3>2
    <2>6. CASE hand' = hand /\ pc' = [pc EXCEPT ![i] = "matching"]
      BY <2>1, <2>4, <2>6
    <2> QED
      BY <1>5, <2>5, <2>6, Removing
  <1>6. ASSUME NEW i \in Instance, CreateRoom(i) PROVE HandsInv'
    <2>1. /\ tickets' = tickets /\ hand' = [hand EXCEPT ![i] = {}]
          /\ pc' = [pc EXCEPT ![i] = "created"] \/ pc' = [pc EXCEPT ![i] = "matching"]
      BY <1>6, Creating
    <2>2. \E x \in {"created", "matching", "idle"} : pc' = [pc EXCEPT ![i] = x]
      BY ONLY <2>1
    <2> QED
      BY <2>1, <2>2, <1>2
  <1>7. ASSUME NEW i \in Instance, InstanceCrash(i) PROVE HandsInv'
    <2>1. tickets' = tickets /\ hand' = [hand EXCEPT ![i] = {}] /\ pc' = [pc EXCEPT ![i] = "idle"]
      BY <1>7, Crashing
    <2>2. \E x \in {"created", "matching", "idle"} : pc' = [pc EXCEPT ![i] = x]
      BY ONLY <2>1
    <2> QED
      BY <2>1, <2>2, <1>2
  <1>8. CASE Still
    BY <1>8, <1>1 DEF Still, Issued
  <1>9. ASSUME NEW i \in Instance, RemoveResent(i) PROVE HandsInv'
    BY <1>9, <1>1, Resending DEF Issued
  <1> QED
    BY <1>3, <1>4, <1>5, <1>6, <1>7, <1>8, <1>9, Movers

LEMMA OneRoomStep ==
  ASSUME MatchmakingInv, MatchmakingNext
  PROVE  OneRoomPerTicket'
  <1> USE DEF MatchmakingInv, MatchmakingTypeOK, PlacesInv, OneRoomPerTicket
  <1>1. ASSUME UNCHANGED <<rooms, hand>>,
               \A t \in PoolTickets' : t \in PoolTickets \/ t \notin Issued
        PROVE  OneRoomPerTicket'
    <2>1. \A i \in Instance : hand[i] \subseteq Issued
      BY DEF HandsInv
    <2>2. \A k \in DOMAIN rooms : rooms[k] \subseteq Issued
      BY DEF IssuedInv
    <2> QED
      BY <1>1, <2>1, <2>2
  <1>2. ASSUME NEW i \in Instance, hand' = [hand EXCEPT ![i] = {}], rooms' = rooms, PoolTickets' = PoolTickets
        PROVE  OneRoomPerTicket'
    <2>1. \A j \in Instance : hand'[j] \subseteq hand[j]
      BY <1>2
    <2> QED
      BY <1>2, <2>1
  <1>3. ASSUME NEW u \in Player, JoinMatchmaking(u) PROVE OneRoomPerTicket'
    BY <1>3, <1>1, Joining
  <1>4. ASSUME NEW u \in Player, NEW i \in Instance, LeaveMatchmaking(u, i) PROVE OneRoomPerTicket'
    BY <1>4, <1>1, Leaving
  <1>5. ASSUME NEW i \in Instance, AtomicRemove(i) PROVE OneRoomPerTicket'
    <2>1. /\ Removed(i) \subseteq PoolTickets
          /\ rooms' = rooms
          /\ PoolTickets' \subseteq PoolTickets
      BY <1>5, Removing
    <2>2. CASE hand' = hand
      BY <2>1, <2>2, <1>1
    <2>3. CASE hand' = [hand EXCEPT ![i] = Removed(i)] /\ PoolTickets' = PoolTickets \ Removed(i)
      <3>1. hand'[i] = Removed(i) /\ \A j \in Instance \ {i} : hand'[j] = hand[j]
        BY <2>3
      <3>2. \A j \in Instance : hand[j] \cap Removed(i) = {}
        BY <2>1
      <3>3. \A k \in DOMAIN rooms : rooms[k] \cap Removed(i) = {}
        BY <2>1
      <3> QED
        BY <2>1, <2>3, <3>1, <3>2, <3>3
    <2> QED
      BY <1>5, <2>2, <2>3, Removing
  <1>6. ASSUME NEW i \in Instance, CreateRoom(i) PROVE OneRoomPerTicket'
    <2>1. PoolTickets' = PoolTickets /\ hand' = [hand EXCEPT ![i] = {}]
      BY <1>6, Creating DEF PoolTickets, TicketOf
    <2>2. CASE rooms' = rooms
      BY <2>1, <2>2, <1>2
    <2>3. CASE rooms' = Append(rooms, hand[i])
      <3>1. rooms \in Seq(SUBSET Ticket) /\ hand[i] \in SUBSET Ticket
        OBVIOUS
      <3>2. \A k \in DOMAIN Append(rooms, hand[i]) :
              \/ k = Len(rooms) + 1 /\ Append(rooms, hand[i])[k] = hand[i]
              \/ k \in DOMAIN rooms /\ Append(rooms, hand[i])[k] = rooms[k]
        BY ONLY <3>1, AppendElements
      <3>3. \A k \in DOMAIN rooms' :
              \/ k = Len(rooms) + 1 /\ rooms'[k] = hand[i]
              \/ k \in DOMAIN rooms /\ rooms'[k] = rooms[k]
        BY ONLY <3>2, <2>3
      <3>4. hand'[i] = {} /\ \A j \in Instance \ {i} : hand'[j] = hand[j] /\ hand[j] \cap hand[i] = {}
        BY <2>1
      <3>5. \A k \in DOMAIN rooms : rooms[k] \cap hand[i] = {}
        OBVIOUS
      <3>6. \A k, l \in DOMAIN rooms' : k # l => rooms'[k] \cap rooms'[l] = {}
        BY <3>3, <3>5
      <3>7. \A k \in DOMAIN rooms' : rooms'[k] \cap PoolTickets' = {}
        BY <3>3, <2>1
      <3>8. \A j \in Instance :
              /\ hand'[j] \cap PoolTickets' = {}
              /\ \A l \in Instance \ {j} : hand'[j] \cap hand'[l] = {}
        BY <3>4, <2>1
      <3>9. \A j \in Instance, k \in DOMAIN rooms' : hand'[j] \cap rooms'[k] = {}
        BY <3>3, <3>4
      <3> QED
        BY <3>6, <3>7, <3>8, <3>9
    <2> QED
      BY <1>6, <2>2, <2>3, Creating
  <1>7. ASSUME NEW i \in Instance, InstanceCrash(i) PROVE OneRoomPerTicket'
    <2>1. UNCHANGED <<pool, tickets, rooms>> /\ hand' = [hand EXCEPT ![i] = {}]
      BY <1>7, Crashing
    <2>2. PoolTickets' = PoolTickets
      BY ONLY <2>1 DEF PoolTickets, TicketOf
    <2> QED
      BY <2>1, <2>2, <1>2
  <1>8. CASE Still
    BY <1>8, <1>1 DEF Still, PoolTickets, TicketOf
  <1>9. ASSUME NEW i \in Instance, RemoveResent(i) PROVE OneRoomPerTicket'
    BY <1>9, <1>1, Resending
  <1> QED
    BY <1>3, <1>4, <1>5, <1>6, <1>7, <1>8, <1>9, Movers

LEMMA MatchmakingInvInit == MatchmakingInit => MatchmakingInv
  <1> SUFFICES ASSUME MatchmakingInit PROVE PlacesInv
    BY MatchmakingTypeInit DEF MatchmakingInv
  <1> USE DEF MatchmakingInit
  <1>1. PoolTickets = {} /\ DOMAIN rooms = {} /\ Len(rooms) = 0
    BY DEF PoolTickets
  <1> QED
    BY <1>1 DEF PlacesInv, HandsInv, GroupsInv, IssuedInv, UntoldInv, OneRoomPerTicket

LEMMA MatchmakingInvStep ==
  ASSUME MatchmakingInv, MatchmakingNext
  PROVE  MatchmakingInv'
  <1>1. MatchmakingTypeOK'
    BY MatchmakingTypeStep DEF MatchmakingInv, PlacesInv
  <1> QED
    BY <1>1, HandsStep, GroupsStep, IssuedStep, UntoldStep, OneRoomStep DEF MatchmakingInv, PlacesInv

LEMMA MatchmakingInvStutter ==
  ASSUME MatchmakingInv, UNCHANGED mmVars
  PROVE  MatchmakingInv'
  <1> USE DEF mmVars, tickVars, streamVars, historyVars, MatchmakingInv, PlacesInv
  <1>1. MatchmakingTypeOK'
    BY DEF MatchmakingTypeOK
  <1>4. GroupsInv' /\ UntoldInv'
    BY DEF GroupsInv, UntoldInv
  <1>2. Issued' = Issued /\ PoolTickets' = PoolTickets
    BY DEF Issued, PoolTickets, TicketOf
  <1>3. HandsInv' /\ IssuedInv' /\ OneRoomPerTicket'
    BY <1>2 DEF HandsInv, IssuedInv, OneRoomPerTicket
  <1> QED
    BY <1>1, <1>3, <1>4

LEMMA MatchmakingInvariance == MatchmakingSpec => []MatchmakingInv
  <1>1. MatchmakingInv /\ [MatchmakingNext]_mmVars => MatchmakingInv'
    BY MatchmakingInvStep, MatchmakingInvStutter
  <1> QED
    BY MatchmakingInvInit, <1>1, PTL DEF MatchmakingSpec

-----------------------------------------------------------------------------
(* For every set of players, ratings and instances, whatever fails, the     *)
(* variables keep their types; match.created and MatchFound are only about  *)
(* rooms that exist (matcher.go:144-182).                                   *)
THEOREM MatchmakingTypeCorrect == MatchmakingSpec => []MatchmakingTypeOK
  <1> QED
    BY MatchmakingInvariance, PTL DEF MatchmakingInv

(* No ticket is in two rooms, or in a room and still in the pool, however   *)
(* many instances match over one pool and whenever players leave and join   *)
(* again (matcher.go:118-126).                                              *)
THEOREM EveryTicketHasOneRoom == MatchmakingSpec => []OneRoomPerTicket
  <1> QED
    BY MatchmakingInvariance, PTL DEF MatchmakingInv, PlacesInv

-----------------------------------------------------------------------------
(* The service implements Seating.                                          *)

LEMMA SeatingStarts == MatchmakingInit => Seated!SeatingInit
  <1> SUFFICES ASSUME MatchmakingInit PROVE Seated!SeatingInit
    OBVIOUS
  <1>1. Issued = {}
    <2>1. \A t \in Ticket : tickets[t[1]] = 0 /\ t[2] \in 1..MaxTickets
      BY DEF MatchmakingInit, Ticket
    <2> QED
      BY <2>1, MatchmakingAssumption DEF Issued
  <1>2. Waiting = {} /\ SeatedRooms = {}
    BY DEF MatchmakingInit, Waiting, PoolTickets, SeatedRooms
  <1> QED
    BY <1>1, <1>2 DEF Seated!SeatingInit

SeatingStep == [Seated!SeatingNext]_(Seated!seatingVars)

LEMMA ForgetStep ==
  ASSUME Issued' = Issued, SeatedRooms' = SeatedRooms,
         NEW S \in SUBSET Waiting, Waiting' = Waiting \ S
  PROVE  SeatingStep
  BY DEF SeatingStep, Seated!SeatingNext, Seated!Forget

(* The hands of an instance are emptied. *)
LEMMA EmptiedHands ==
  ASSUME MatchmakingInv, NEW i \in Instance, hand' = [hand EXCEPT ![i] = {}], UNCHANGED <<pool, tickets>>
  PROVE  /\ Issued' = Issued
         /\ hand[i] \in SUBSET Waiting
         /\ Waiting' = Waiting \ hand[i]
  <1> USE DEF MatchmakingInv, MatchmakingTypeOK, PlacesInv
  <1>1. Issued' = Issued /\ PoolTickets' = PoolTickets
    BY DEF Issued, PoolTickets, TicketOf
  <1>2. hand[i] \cap PoolTickets = {} /\ \A j \in Instance \ {i} : hand[j] \cap hand[i] = {}
    BY DEF OneRoomPerTicket
  <1>3. hand'[i] = {} /\ \A j \in Instance \ {i} : hand'[j] = hand[j]
    OBVIOUS
  <1> QED
    BY <1>1, <1>2, <1>3 DEF Waiting

LEMMA SeatingSteps ==
  ASSUME MatchmakingInv, MatchmakingNext
  PROVE  SeatingStep
  <1> USE DEF MatchmakingInv, MatchmakingTypeOK, PlacesInv
  <1>1. ASSUME NEW u \in Player, JoinMatchmaking(u) PROVE SeatingStep
    <2> DEFINE t == <<u, tickets[u] + 1>>
               S == (Waiting \cup {t}) \ Waiting'
    <2>1. /\ t \in Ticket /\ t \notin Issued /\ Issued' = Issued \cup {t}
          /\ PoolTickets \ {<<u, tickets[u]>>} \subseteq PoolTickets'
          /\ PoolTickets' \subseteq PoolTickets \cup {t}
          /\ rooms' = rooms /\ hand' = hand
      BY <1>1, Joining
    <2>2. /\ Waiting' \subseteq Waiting \cup {t}
          /\ Waiting \ {<<u, tickets[u]>>} \subseteq Waiting'
      BY <2>1 DEF Waiting
    <2>3. \A s \in S : s[1] = t[1] /\ s \in Waiting \cup {t}
      BY <2>2
    <2>4. Waiting' = (Waiting \cup {t}) \ S /\ SeatedRooms' = SeatedRooms
      BY <2>1, <2>2 DEF SeatedRooms
    <2>5. S \in SUBSET {s \in Waiting \cup {t} : s[1] = t[1]}
      BY <2>3
    <2> HIDE DEF t, S
    <2>6. Seated!Issue(t)
      BY <2>1, <2>4, <2>5 DEF Seated!Issue
    <2> QED
      BY <2>1, <2>6 DEF SeatingStep, Seated!SeatingNext
  <1>2. ASSUME NEW u \in Player, NEW i \in Instance, LeaveMatchmaking(u, i) PROVE SeatingStep
    <2> DEFINE S == Waiting \ Waiting'
    <2>1. /\ PoolTickets' \subseteq PoolTickets
          /\ UNCHANGED <<tickets, rooms, hand>>
      BY <1>2, Leaving
    <2>2. Issued' = Issued /\ SeatedRooms' = SeatedRooms /\ Waiting' = Waiting \ S /\ S \in SUBSET Waiting
      BY <2>1 DEF Issued, SeatedRooms, Waiting
    <2> HIDE DEF S
    <2> QED
      BY <2>2, ForgetStep
  <1>3. ASSUME NEW i \in Instance, AtomicRemove(i) PROVE SeatingStep
    <2>1. /\ Removed(i) \subseteq PoolTickets /\ UNCHANGED <<tickets, rooms>>
          /\ \/ /\ PoolTickets' = PoolTickets \ Removed(i)
                /\ hand' = [hand EXCEPT ![i] = Removed(i)]
             \/ /\ PoolTickets' \in {PoolTickets, PoolTickets \ Removed(i)}
                /\ hand' = hand
      BY <1>3, Removing
    <2>2. Issued' = Issued /\ SeatedRooms' = SeatedRooms
      BY <2>1 DEF Issued, SeatedRooms
    <2>3. hand[i] = {}
      BY <1>3 DEF AtomicRemove, HandsInv
    <2>4. CASE PoolTickets' = PoolTickets \ Removed(i) /\ hand' = [hand EXCEPT ![i] = Removed(i)]
      <3>1. hand'[i] = Removed(i) /\ \A j \in Instance \ {i} : hand'[j] = hand[j]
        BY <2>4
      <3>2. Waiting' = Waiting
        BY <3>1, <2>1, <2>3, <2>4 DEF Waiting
      <3> QED
        BY <3>2, <2>2 DEF SeatingStep, Seated!seatingVars
    <2>5. CASE PoolTickets' \subseteq PoolTickets /\ hand' = hand
      <3> DEFINE S == Waiting \ Waiting'
      <3>1. Waiting' = Waiting \ S /\ S \in SUBSET Waiting
        BY <2>5 DEF Waiting
      <3> HIDE DEF S
      <3> QED
        BY <3>1, <2>2, ForgetStep
    <2>6. PoolTickets' \in {PoolTickets, PoolTickets \ Removed(i)} => PoolTickets' \subseteq PoolTickets
      OBVIOUS
    <2> QED
      BY <2>1, <2>4, <2>5, <2>6
  <1>4. ASSUME NEW i \in Instance, CreateRoom(i) PROVE SeatingStep
    <2>1. /\ hand' = [hand EXCEPT ![i] = {}] /\ UNCHANGED <<pool, tickets>>
          /\ pc[i] = "taken"
          /\ rooms' = Append(rooms, hand[i]) \/ rooms' = rooms
      BY <1>4, Creating
    <2>2. /\ Issued' = Issued /\ hand[i] \in SUBSET Waiting
          /\ Waiting' = Waiting \ hand[i]
      BY <2>1, EmptiedHands
    <2>3. CASE rooms' = rooms
      BY <2>2, <2>3, ForgetStep DEF SeatedRooms
    <2>4. CASE rooms' = Append(rooms, hand[i])
      <3>1. rooms \in Seq(SUBSET Ticket) /\ hand[i] \in SUBSET Ticket
        OBVIOUS
      <3>2. SeatedRooms' = SeatedRooms \cup {hand[i]}
        <4>1. \A k \in DOMAIN rooms' :
                \/ k = Len(rooms) + 1 /\ rooms'[k] = hand[i]
                \/ k \in DOMAIN rooms /\ rooms'[k] = rooms[k]
          BY ONLY <3>1, <2>4, AppendElements
        <4>2. /\ \A k \in DOMAIN rooms : k \in DOMAIN rooms' /\ rooms'[k] = rooms[k]
              /\ Len(rooms) + 1 \in DOMAIN rooms' /\ rooms'[Len(rooms) + 1] = hand[i]
          BY ONLY <3>1, <2>4, AppendType
        <4> QED
          BY <4>1, <4>2 DEF SeatedRooms
      <3>3. /\ Cardinality(hand[i]) \in MinPlayers..MaxPlayers
            /\ \A s, t \in hand[i] : s # t => s[1] # t[1]
        BY <2>1 DEF HandsInv
      <3>4. Seated!Seat(hand[i])
        <4>1. Seated!Cardinality(hand[i]) = Cardinality(hand[i])
          BY ONLY Zenon DEF Cardinality, Seated!Cardinality
        <4> QED
          BY ONLY <2>2, <3>2, <3>3, <4>1, Zenon DEF Seated!Seat
      <3> QED
        BY <2>2, <3>4 DEF SeatingStep, Seated!SeatingNext
    <2> QED
      BY <2>1, <2>3, <2>4
  <1>5. ASSUME NEW i \in Instance, InstanceCrash(i) PROVE SeatingStep
    <2>1. hand' = [hand EXCEPT ![i] = {}] /\ UNCHANGED <<pool, tickets, rooms>>
      BY <1>5, Crashing
    <2>2. /\ Issued' = Issued /\ hand[i] \in SUBSET Waiting
          /\ Waiting' = Waiting \ hand[i]
      BY <2>1, EmptiedHands
    <2> QED
      BY <2>1, <2>2, ForgetStep DEF SeatedRooms
  <1>7. ASSUME NEW i \in Instance, RemoveResent(i) PROVE SeatingStep
    <2> DEFINE S == Waiting \ Waiting'
    <2>1. /\ PoolTickets' \subseteq PoolTickets
          /\ UNCHANGED <<tickets, rooms, hand>>
      BY <1>7, Resending
    <2>2. Issued' = Issued /\ SeatedRooms' = SeatedRooms /\ Waiting' = Waiting \ S /\ S \in SUBSET Waiting
      BY <2>1 DEF Issued, SeatedRooms, Waiting
    <2> HIDE DEF S
    <2> QED
      BY <2>2, ForgetStep
  <1>6. ASSUME UNCHANGED <<pool, tickets, rooms, hand>> PROVE SeatingStep
    <2>1. Issued' = Issued /\ Waiting' = Waiting /\ SeatedRooms' = SeatedRooms
      BY <1>6 DEF Issued, Waiting, PoolTickets, TicketOf, SeatedRooms
    <2> QED
      BY <2>1 DEF SeatingStep, Seated!seatingVars
  <1> QED
    BY <1>1, <1>2, <1>3, <1>4, <1>5, <1>6, <1>7, Movers DEF Still

(* Whatever the players, the ratings, the instances and the faults: a room  *)
(* is always made of waiting tickets of different players, at least         *)
(* minPlayers and at most maxPlayers of them, and a seated ticket waits no  *)
(* more (matcher.go:62-148).                                                *)
THEOREM MatchmakingSeats == MatchmakingSpec => ImplementsSeating
  <1>1. MatchmakingInv /\ [MatchmakingNext]_mmVars => SeatingStep
    <2>1. ASSUME UNCHANGED mmVars PROVE SeatingStep
      <3>1. Issued' = Issued /\ Waiting' = Waiting /\ SeatedRooms' = SeatedRooms
        <4>1. pool' = pool /\ tickets' = tickets /\ rooms' = rooms /\ hand' = hand
          BY <2>1 DEF mmVars, tickVars
        <4> QED
          BY ONLY <4>1 DEF Issued, Waiting, PoolTickets, TicketOf, SeatedRooms
      <3> QED
        BY <3>1 DEF SeatingStep, Seated!seatingVars
    <2> QED
      BY <2>1, SeatingSteps
  <1> QED
    BY SeatingStarts, <1>1, MatchmakingInvariance, PTL
       DEF MatchmakingSpec, ImplementsSeating, Seated!SeatingSpec, SeatingStep

-----------------------------------------------------------------------------
(* Where a loss comes from.                                                 *)

(* A set of finite subsets of S has a least one. *)
LEMMA LeastSubset ==
  ASSUME NEW S, NEW T \in SUBSET FiniteSubsetsOf(S), T # {}
  PROVE  \E x \in T : \A y \in T : ~(y \subseteq x /\ x # y)
  <1>1. \E x \in T : \A y \in T : ~ (<<y, x>> \in StrictSubsetOrdering(S))
    BY WFMin, FS_StrictSubsetOrderingWellFounded
  <1> QED
    BY <1>1 DEF StrictSubsetOrdering, FiniteSubsetsOf

(* The first MaxPlayers of enough players are enough: either nobody is left *)
(* out, or the first who is has MaxPlayers of them before him.              *)
LEMMA FirstOfFills ==
  ASSUME NEW S \in SUBSET Player, BigEnough(S)
  PROVE  BigEnough(FirstOf(S))
  <1> DEFINE Below(u) == {v \in S : Before(v, u)}
             Left == {Below(u) : u \in S \ FirstOf(S)}
  <1>1. /\ IsFiniteSet(S) /\ FirstOf(S) \in SUBSET S
        /\ IsFiniteSet(FirstOf(S)) /\ Cardinality(FirstOf(S)) \in Nat
    BY FS_Subset, FS_CardinalityType, MatchmakingAssumption, FirstOfSize
  <1>2. CASE FirstOf(S) = S
    BY <1>2
  <1>3. CASE FirstOf(S) # S
    <2>1. Left # {}
      BY <1>1, <1>3
    <2>2. Left \in SUBSET FiniteSubsetsOf(S)
      <3>1. \A u \in S : Below(u) \in SUBSET S /\ IsFiniteSet(Below(u))
        BY <1>1, FS_Subset
      <3> QED
        BY <3>1 DEF FiniteSubsetsOf
    <2>3. PICK u \in S \ FirstOf(S) : \A v \in S \ FirstOf(S) : ~(Below(v) \subseteq Below(u) /\ Below(u) # Below(v))
      <3>1. PICK x \in Left : \A y \in Left : ~(y \subseteq x /\ x # y)
        <4> HIDE DEF Left
        <4> QED
          BY <2>1, <2>2, LeastSubset
      <3>2. PICK u \in S \ FirstOf(S) : x = Below(u)
        OBVIOUS
      <3>3. \A v \in S \ FirstOf(S) : Below(v) \in Left
        OBVIOUS
      <3> HIDE DEF Left
      <3>4. \A v \in S \ FirstOf(S) : ~(Below(v) \subseteq Below(u) /\ Below(u) # Below(v))
        <4> HIDE DEF Below
        <4> QED
          BY <3>1, <3>2, <3>3
      <3> QED
        BY <3>4
    <2>4. Below(u) \in SUBSET FirstOf(S)
      <3>1. SUFFICES ASSUME NEW v \in Below(u), v \notin FirstOf(S) PROVE FALSE
        OBVIOUS
      <3>2. v \in Player /\ u \in Player /\ Before(v, u)
        OBVIOUS
      <3>3. Below(v) \subseteq Below(u)
        BY <3>2, BeforeIsOrder
      <3>4. v \in Below(u) /\ v \notin Below(v)
        BY <3>2, BeforeIsOrder
      <3> QED
        BY <3>1, <3>3, <3>4, <2>3
    <2>5. Cardinality(Below(u)) <= Cardinality(FirstOf(S)) /\ Cardinality(Below(u)) \in Nat
      BY <2>4, <1>1, FS_Subset, FS_CardinalityType
    <2>6. ~(Cardinality(Below(u)) < MaxPlayers)
      BY DEF FirstOf
    <2> QED
      BY <2>5, <2>6, <1>1, MatchmakingAssumption, MatcherAssumption DEF BigEnough
  <1> QED
    BY <1>2, <1>3

(* The groups of a tick share no player, and each is big enough. *)
LEMMA GroupsOfEntries ==
  ASSUME NEW E \in SUBSET Player, NEW b \in BOOLEAN
  PROVE  /\ \A G \in GroupsOf(E, b) : G \subseteq E /\ BigEnough(G)
         /\ \A G, H \in GroupsOf(E, b) : G # H => G \cap H = {}
  <1> DEFINE Bucket(v) == {u \in E : BucketOf(u) = BucketOf(v)}
             Parts == IF b THEN {E} ELSE {Bucket(v) : v \in E}
  <1>1. \A S \in Parts : S \in SUBSET E
    OBVIOUS
  <1>2. \A S, T \in Parts : S # T => S \cap T = {}
    <2>1. ASSUME NEW v \in E, NEW w \in E, Bucket(v) \cap Bucket(w) # {}
          PROVE  Bucket(v) = Bucket(w)
      BY <2>1
    <2> QED
      BY <2>1
  <1>3. GroupsOf(E, b) = {FirstOf(S) : S \in {T \in Parts : BigEnough(T)}}
    BY DEF GroupsOf
  <1> HIDE DEF Parts
  <1>4. \A S \in Parts : BigEnough(S) => FirstOf(S) \subseteq S /\ BigEnough(FirstOf(S))
    BY <1>1, FirstOfSize, FirstOfFills
  <1> QED
    BY <1>1, <1>2, <1>3, <1>4

(* An instance that is not deployed does nothing; what a tick has read is   *)
(* there while it reads, its groups while it matches, and whom it is to     *)
(* tell between CreateRoom and the end of the group.                        *)
PhaseInv ==
  \A i \in Instance :
    /\ i \notin active => pc[i] = "idle"
    /\ pc[i] # "reading" => unread[i] = {} /\ entries[i] = {}
    /\ pc[i] \in {"idle", "reading"} => groups[i] = {}
    /\ pc[i] \notin {"created", "telling"} => untold[i] = {}

(* What a tick of i knows: whom it has read and has yet to match is in the  *)
(* pool or was taken from it meanwhile, and its groups are big enough and   *)
(* share no player.                                                         *)
Knows(i) ==
  /\ unread[i] \cup entries[i] \subseteq pool \cup gone[i]
  /\ \A G \in groups[i] : G \subseteq pool \cup gone[i] /\ BigEnough(G)
  /\ \A G, H \in groups[i] : G # H => G \cap H = {}
  /\ pc[i] = "locked" =>
       /\ group[i] \subseteq pool \cup gone[i] /\ BigEnough(group[i])
       /\ \A G \in groups[i] : G \cap group[i] = {}

KnowsInv == \A i \in Instance : Knows(i)

CauseInv == MatchmakingInv /\ PhaseInv /\ KnowsInv

LEMMA PhaseStep ==
  ASSUME MatchmakingInv, PhaseInv, MatchmakingNext
  PROVE  PhaseInv'
  <1> USE DEF MatchmakingInv, MatchmakingTypeOK, PhaseInv
  <1>1. ASSUME NEW i \in Instance, ReadPool(i) PROVE PhaseInv'
    BY <1>1 DEF ReadPool, historyVars
  <1>2. ASSUME NEW i \in Instance, NEW u \in Player, ReadEntry(i, u) PROVE PhaseInv'
    <2>1. /\ UNCHANGED <<pc, active, untold, groups>> /\ pc[i] = "reading"
          /\ unread' = [unread EXCEPT ![i] = @ \ {u}]
          /\ entries' = entries \/ entries' = [entries EXCEPT ![i] = @ \cup {u}]
      BY <1>2 DEF ReadEntry, historyVars
    <2>2. \A j \in Instance \ {i} : unread'[j] = unread[j] /\ entries'[j] = entries[j]
      BY <2>1
    <2> QED
      BY <2>1, <2>2
  <1>3. ASSUME NEW i \in Instance, FormGroups(i) PROVE PhaseInv'
    BY <1>3 DEF FormGroups, historyVars
  <1>4. ASSUME NEW i \in Instance, NEW G \in groups[i], AcquireLock(i, G) PROVE PhaseInv'
    BY <1>4 DEF AcquireLock, historyVars
  <1>5. ASSUME NEW i \in Instance, AtomicRemove(i) PROVE PhaseInv'
    BY <1>5 DEF AtomicRemove
  <1>6. ASSUME NEW i \in Instance, CreateRoom(i) PROVE PhaseInv'
    <2>1. /\ UNCHANGED <<active, unread, entries, groups>> /\ pc[i] = "taken"
          /\ \/ /\ pc' = [pc EXCEPT ![i] = "created"]
                /\ untold' = [untold EXCEPT ![i] = {<<Len(rooms) + 1, t[1]>> : t \in hand[i]}]
             \/ pc' = [pc EXCEPT ![i] = "matching"] /\ untold' = untold
      BY <1>6 DEF CreateRoom, historyVars
    <2>2. pc'[i] = "created" \/ (pc'[i] = "matching" /\ untold'[i] = untold[i])
      BY <2>1
    <2>3. \A j \in Instance \ {i} : pc'[j] = pc[j] /\ untold'[j] = untold[j]
      BY <2>1
    <2> QED
      BY <2>1, <2>2, <2>3
  <1>7. ASSUME NEW i \in Instance, PublishCreated(i) PROVE PhaseInv'
    BY <1>7 DEF PublishCreated, historyVars
  <1>8. ASSUME NEW i \in Instance, NEW m \in untold[i], TellPlayer(i, m) PROVE PhaseInv'
    BY <1>8 DEF TellPlayer, historyVars
  <1>9. ASSUME NEW i \in Instance, FinishGroup(i) PROVE PhaseInv'
    BY <1>9 DEF FinishGroup, historyVars
  <1>10. ASSUME NEW i \in Instance, EndTick(i) PROVE PhaseInv'
    BY <1>10 DEF EndTick, historyVars
  <1>11. ASSUME NEW i \in Instance, InstanceCrash(i) PROVE PhaseInv'
    BY <1>11 DEF InstanceCrash
  <1>13. ASSUME NEW i \in Instance, RemoveResent(i) PROVE PhaseInv'
    BY <1>13 DEF RemoveResent, tickVars
  <1>12. CASE ClientStep
    <2>1. UNCHANGED <<pc, active, unread, entries, groups, untold>>
      BY <1>12 DEF ClientStep, JoinMatchmaking, LeaveMatchmaking, SubscribeToMatch, PassOn, Unsubscribe, Register, ExpireData, tickVars, historyVars
    <2> QED
      BY <2>1
  <1> QED
    BY <1>1, <1>2, <1>3, <1>4, <1>5, <1>6, <1>7, <1>8, <1>9, <1>10, <1>11, <1>12, <1>13
       DEF MatchmakingNext, TickStep

(* Different players have different tickets. *)
LEMMA DistinctTickets ==
  ASSUME NEW S, IsFiniteSet(S)
  PROVE  Cardinality({TicketOf(u) : u \in S}) = Cardinality(S)
  <1> DEFINE T == {TicketOf(u) : u \in S}
             f == [u \in S |-> TicketOf(u)]
  <1>1. /\ f \in [S -> T]
        /\ \A t \in T : \E u \in S : f[u] = t
        /\ \A u, v \in S : f[u] = f[v] => u = v
    BY DEF TicketOf
  <1> HIDE DEF T, f
  <1>2. f \in Bijection(S, T)
    BY <1>1 DEF Bijection, Injection, Surjection, IsInjective
  <1>3. Cardinality(T) = Cardinality(S)
    BY <1>2, FS_Bijection DEF ExistsBijection
  <1> QED
    BY <1>3 DEF T

(* What others take from the pool, a tick knows to be gone. *)
LEMMA KnowsOfOthers ==
  ASSUME MatchmakingTypeOK, NEW j \in Instance, Knows(j), NEW takers, j \notin takers,
         TakenFromPool(takers), pool' \subseteq pool,
         unread'[j] = unread[j], entries'[j] = entries[j], groups'[j] = groups[j],
         group'[j] = group[j], pc'[j] = pc[j]
  PROVE  Knows(j)'
  <1>1. gone'[j] = gone[j] \cup (Pending(j) \cap (pool \ pool'))
    BY DEF TakenFromPool
  <1>2. \A S \in SUBSET Pending(j) : S \subseteq pool \cup gone[j] => S \subseteq pool' \cup gone'[j]
    BY <1>1
  <1>3. /\ unread[j] \cup entries[j] \subseteq Pending(j)
        /\ group[j] \subseteq Pending(j)
        /\ \A G \in groups[j] : G \subseteq Pending(j)
    BY DEF Pending
  <1>4. /\ unread[j] \cup entries[j] \subseteq pool \cup gone[j]
        /\ \A G \in groups[j] : G \subseteq pool \cup gone[j] /\ BigEnough(G)
        /\ \A G, H \in groups[j] : G # H => G \cap H = {}
        /\ pc[j] = "locked" =>
             /\ group[j] \subseteq pool \cup gone[j] /\ BigEnough(group[j])
             /\ \A G \in groups[j] : G \cap group[j] = {}
    BY DEF Knows
  <1>5. \A G \in groups[j] : G \subseteq pool' \cup gone'[j]
    BY <1>2, <1>3, <1>4
  <1>6. unread[j] \cup entries[j] \subseteq pool' \cup gone'[j]
    BY <1>2, <1>3, <1>4
  <1>7. pc[j] = "locked" => group[j] \subseteq pool' \cup gone'[j]
    BY <1>2, <1>3, <1>4
  <1> QED
    BY <1>4, <1>5, <1>6, <1>7 DEF Knows, BigEnough

(* A step that takes nobody from the pool and is not about the tick of j. *)
LEMMA KnowsStays ==
  ASSUME NEW j \in Instance, Knows(j), pool \subseteq pool', gone'[j] = gone[j],
         unread'[j] = unread[j], entries'[j] = entries[j], groups'[j] = groups[j],
         group'[j] = group[j], pc'[j] = pc[j]
  PROVE  Knows(j)'
  BY DEF Knows, BigEnough

(* What a step of the tick of i keeps, for its own tick and the others. *)
LEMMA KnowsStep ==
  ASSUME CauseInv, NEW i \in Instance, TickStep(i), NEW j \in Instance
  PROVE  Knows(j)'
  <1> USE DEF CauseInv, MatchmakingInv, MatchmakingTypeOK, KnowsInv
  <1>a. Knows(i) /\ Knows(j)
    OBVIOUS
  <1>1. CASE ReadPool(i)
    <2>1. /\ UNCHANGED <<pool, groups, group>>
          /\ \/ pc' = [pc EXCEPT ![i] = "reading"] /\ unread' = [unread EXCEPT ![i] = pool]
             \/ pc' = [pc EXCEPT ![i] = "idle"] /\ unread' = unread
          /\ entries' = [entries EXCEPT ![i] = {}]
          /\ gone' = [gone EXCEPT ![i] = {}]
          /\ pc[i] # "reading" /\ groups[i] = {}
      BY <1>1 DEF ReadPool, PhaseInv
    <2>2. CASE j = i
      <3>1. unread'[i] \subseteq pool' /\ entries'[i] = {} /\ groups'[i] = {} /\ pc'[i] # "locked"
        BY <2>1 DEF PhaseInv
      <3> QED
        BY <2>2, <3>1 DEF Knows
    <2>3. CASE j # i
      BY <2>1, <2>3, <1>a, KnowsStays
    <2> QED
      BY <2>2, <2>3
  <1>2. ASSUME NEW u \in Player, ReadEntry(i, u) PROVE Knows(j)'
    <2>1. /\ UNCHANGED <<pool, gone, groups, group, pc>> /\ u \in unread[i]
          /\ unread' = [unread EXCEPT ![i] = @ \ {u}]
          /\ entries' = entries \/ entries' = [entries EXCEPT ![i] = @ \cup {u}]
      BY <1>2 DEF ReadEntry, historyVars
    <2>2. CASE j = i
      <3>1. unread'[i] \cup entries'[i] \subseteq unread[i] \cup entries[i]
        BY <2>1
      <3> QED
        BY <1>a, <2>1, <2>2, <3>1 DEF Knows, BigEnough
    <2>3. CASE j # i
      BY <2>1, <2>3, <1>a, KnowsStays
    <2> QED
      BY <2>2, <2>3
  <1>3. CASE FormGroups(i)
    <2>1. /\ UNCHANGED <<pool, group, unread>>
          /\ entries' = [entries EXCEPT ![i] = {}]
          /\ \/ /\ groups' = groups /\ pc' = [pc EXCEPT ![i] = "idle"]
                /\ gone' = [gone EXCEPT ![i] = {}]
             \/ /\ groups' = [groups EXCEPT ![i] = GroupsOf(entries[i], rest[i])]
                /\ pc' = [pc EXCEPT ![i] = "matching"]
                /\ gone' = gone
          /\ pc[i] = "reading" /\ unread[i] = {} /\ groups[i] = {}
      BY <1>3 DEF FormGroups, PhaseInv
    <2>2. CASE j = i
      <3>1. pc'[i] # "locked" /\ entries'[i] = {} /\ unread'[i] = {}
            /\ (groups'[i] = {} \/ (groups'[i] = GroupsOf(entries[i], rest[i]) /\ gone' = gone))
        BY <2>1
      <3>2. /\ \A G \in GroupsOf(entries[i], rest[i]) : G \subseteq entries[i] /\ BigEnough(G)
            /\ \A G, H \in GroupsOf(entries[i], rest[i]) : G # H => G \cap H = {}
        <4>1. entries[i] \in SUBSET Player /\ rest[i] \in BOOLEAN
          OBVIOUS
        <4> QED
          BY ONLY <4>1, GroupsOfEntries
      <3> QED
        BY <1>a, <2>1, <2>2, <3>1, <3>2 DEF Knows, BigEnough
    <2>3. CASE j # i
      BY <2>1, <2>3, <1>a, KnowsStays
    <2> QED
      BY <2>2, <2>3
  <1>4. ASSUME NEW G \in groups[i], AcquireLock(i, G) PROVE Knows(j)'
    <2>1. /\ UNCHANGED <<pool, gone, unread, entries>>
          /\ groups' = [groups EXCEPT ![i] = @ \ {G}]
          /\ \/ pc' = [pc EXCEPT ![i] = "locked"] /\ group' = [group EXCEPT ![i] = G]
             \/ pc' = pc /\ group' = group
          /\ pc[i] = "matching"
      BY <1>4 DEF AcquireLock, historyVars
    <2>2. CASE j = i
      <3>1. groups'[i] = groups[i] \ {G} /\ (group'[i] = G \/ pc'[i] = "matching")
        BY <2>1
      <3> QED
        BY <1>a, <2>1, <2>2, <3>1 DEF Knows, BigEnough
    <2>3. CASE j # i
      BY <2>1, <2>3, <1>a, KnowsStays
    <2> QED
      BY <2>2, <2>3
  <1>5. CASE AtomicRemove(i)
    <2>1. /\ TakenFromPool({i}) /\ UNCHANGED <<unread, entries, groups>>
          /\ pool' = pool \/ pool' = pool \ group[i]
          /\ group' = [group EXCEPT ![i] = {}]
          /\ pc' = [pc EXCEPT ![i] = "taken"] \/ pc' = [pc EXCEPT ![i] = "matching"]
          /\ pc[i] = "locked"
      BY <1>5 DEF AtomicRemove
    <2>2. CASE j = i
      <3>1. gone'[i] = gone[i] \ group[i] /\ unread[i] = {} /\ entries[i] = {} /\ pc'[i] # "locked"
        BY <2>1 DEF TakenFromPool, PhaseInv
      <3>2. \A G \in groups[i] : G \subseteq pool \cup gone[i] /\ G \cap group[i] = {}
        BY <1>a, <2>1 DEF Knows
      <3>3. \A G \in groups[i] : G \subseteq pool' \cup gone'[i]
        BY <2>1, <3>1, <3>2
      <3> QED
        BY <1>a, <2>1, <2>2, <3>1, <3>3 DEF Knows, BigEnough
    <2>3. CASE j # i
      <3>1. pool' \subseteq pool /\ group'[j] = group[j] /\ pc'[j] = pc[j] /\ j \notin {i}
        BY <2>1, <2>3
      <3> QED
        BY <2>1, <3>1, <1>a, KnowsOfOthers
    <2> QED
      BY <2>2, <2>3
  <1>6. CASE CreateRoom(i) \/ PublishCreated(i) \/ (\E m \in untold[i] : TellPlayer(i, m)) \/ FinishGroup(i)
    <2>1. /\ UNCHANGED <<pool, gone, unread, entries, groups, group>>
          /\ pc'[i] # "locked" /\ \A l \in Instance \ {i} : pc'[l] = pc[l]
      BY <1>6 DEF CreateRoom, PublishCreated, TellPlayer, FinishGroup, historyVars
    <2> QED
      BY <1>a, <2>1 DEF Knows, BigEnough
  <1>7. CASE EndTick(i)
    <2>1. /\ UNCHANGED <<pool, unread, entries, groups, group>>
          /\ gone' = [gone EXCEPT ![i] = {}] /\ pc' = [pc EXCEPT ![i] = "idle"]
          /\ groups[i] = {} /\ unread[i] = {} /\ entries[i] = {}
      BY <1>7 DEF EndTick, PhaseInv
    <2>2. CASE j = i
      BY <2>1, <2>2 DEF Knows
    <2>3. CASE j # i
      BY <2>1, <2>3, <1>a, KnowsStays
    <2> QED
      BY <2>2, <2>3
  <1> QED
    BY <1>1, <1>2, <1>3, <1>4, <1>5, <1>6, <1>7 DEF TickStep

LEMMA KnowsInvStep ==
  ASSUME CauseInv, MatchmakingNext
  PROVE  KnowsInv'
  <1> SUFFICES ASSUME NEW j \in Instance PROVE Knows(j)'
    BY DEF KnowsInv
  <1> USE DEF CauseInv, MatchmakingInv, MatchmakingTypeOK
  <1>a. Knows(j)
    BY DEF KnowsInv
  <1>1. ASSUME NEW i \in Instance, TickStep(i) PROVE Knows(j)'
    BY <1>1, KnowsStep
  <1>2. ASSUME NEW i \in Instance, RemoveResent(i) PROVE Knows(j)'
    <2>1. TakenFromPool({}) /\ pool' \subseteq pool /\ UNCHANGED <<pc, unread, entries, groups, group>>
      BY <1>2 DEF RemoveResent, tickVars
    <2> QED
      BY <1>a, <2>1, KnowsOfOthers
  <1>3. ASSUME NEW i \in Instance, InstanceCrash(i) PROVE Knows(j)'
    <2>1. /\ UNCHANGED pool
          /\ gone' = [gone EXCEPT ![i] = {}]
          /\ pc' = [pc EXCEPT ![i] = "idle"]
          /\ unread' = [unread EXCEPT ![i] = {}]
          /\ entries' = [entries EXCEPT ![i] = {}]
          /\ groups' = [groups EXCEPT ![i] = {}]
          /\ group' = [group EXCEPT ![i] = {}]
      BY <1>3 DEF InstanceCrash
    <2>2. CASE j = i
      BY <2>1, <2>2 DEF Knows
    <2>3. CASE j # i
      BY <2>1, <2>3, <1>a, KnowsStays
    <2> QED
      BY <2>2, <2>3
  <1>4. ASSUME NEW u \in Player, NEW i \in Instance, LeaveMatchmaking(u, i) PROVE Knows(j)'
    <2>1. TakenFromPool({}) /\ pool' \subseteq pool /\ UNCHANGED <<pc, unread, entries, groups, group>>
      BY <1>4 DEF LeaveMatchmaking, tickVars
    <2> QED
      BY <1>a, <2>1, KnowsOfOthers
  <1>5. ASSUME pool \subseteq pool', UNCHANGED <<gone, tickVars>> PROVE Knows(j)'
    BY <1>5, <1>a, KnowsStays DEF tickVars
  <1>6. ASSUME NEW u \in Player, JoinMatchmaking(u) \/ ExpireData(u) PROVE Knows(j)'
    BY <1>6, <1>5 DEF JoinMatchmaking, ExpireData, historyVars
  <1>7. ASSUME NEW u \in Player, NEW i \in Instance, SubscribeToMatch(u, i) \/ PassOn(u, i) \/ Unsubscribe(u, i)
        PROVE  Knows(j)'
    BY <1>7, <1>5 DEF SubscribeToMatch, PassOn, Unsubscribe, historyVars
  <1> QED
    BY <1>1, <1>2, <1>3, <1>4, <1>6, <1>7 DEF MatchmakingNext, ClientStep

LEMMA CauseInvStep ==
  ASSUME CauseInv, [MatchmakingNext]_mmVars
  PROVE  CauseInv'
  <1>1. CASE MatchmakingNext
    BY <1>1, MatchmakingInvStep, PhaseStep, KnowsInvStep DEF CauseInv
  <1>2. CASE UNCHANGED mmVars
    <2>1. MatchmakingInv'
      BY <1>2, MatchmakingInvStutter DEF CauseInv
    <2>2. PhaseInv' /\ KnowsInv'
      BY <1>2 DEF CauseInv, PhaseInv, KnowsInv, Knows, BigEnough, mmVars, tickVars, historyVars
    <2> QED
      BY <2>1, <2>2 DEF CauseInv
  <1> QED
    BY <1>1, <1>2

LEMMA CauseInvInit == MatchmakingInit => CauseInv
  <1> SUFFICES ASSUME MatchmakingInit PROVE CauseInv
    OBVIOUS
  <1>1. PhaseInv /\ KnowsInv
    BY DEF MatchmakingInit, PhaseInv, KnowsInv, Knows
  <1> QED
    BY <1>1, MatchmakingInvInit DEF CauseInv

LEMMA CauseInvariance == MatchmakingSpec => []CauseInv
  <1> QED
    BY CauseInvInit, CauseInvStep, PTL DEF MatchmakingSpec

Excused == \E i \in Instance : group'[i] = {} /\ (group[i] \cap gone[i]) \ pool # {}

LEMMA RemovalIsExcused ==
  ASSUME CauseInv, NEW i \in Instance, AtomicRemove(i), lost' # lost, faults' = faults
  PROVE  Excused
  <1> USE DEF CauseInv, MatchmakingInv, MatchmakingTypeOK
  <1>1. /\ pc[i] = "locked" /\ Cardinality(Removed(i)) < MinPlayers
        /\ group' = [group EXCEPT ![i] = {}]
    BY MatchmakingAssumption DEF AtomicRemove, Fault
  <1>2. group[i] \subseteq pool \cup gone[i] /\ Cardinality(group[i]) >= MinPlayers
    BY <1>1 DEF KnowsInv, Knows, BigEnough
  <1>3. ~(group[i] \subseteq pool)
    <2>1. SUFFICES ASSUME group[i] \subseteq pool PROVE FALSE
      OBVIOUS
    <2>2. IsFiniteSet(group[i]) /\ group[i] \cap pool = group[i]
      BY <2>1, MatchmakingAssumption, FS_Subset
    <2>3. Cardinality(Removed(i)) = Cardinality(group[i]) /\ Cardinality(group[i]) \in Nat
      BY <2>2, DistinctTickets, FS_CardinalityType DEF Removed
    <2> QED
      BY <2>3, <1>1, <1>2, MatchmakingAssumption
  <1> QED
    BY <1>1, <1>2, <1>3 DEF Excused

(* For every set of players, ratings, instances and limits: a step that     *)
(* loses tickets is a fault, or somebody of the group it was to match was   *)
(* taken from the pool after the tick had read it and is not back.  For     *)
(* whoever a tick has read and has yet to match is in the pool or was taken *)
(* from it by others, its groups share no player, and each is big enough    *)
(* (matcher.go:62-126).                                                     *)
THEOREM LossesHaveCauses == MatchmakingSpec => LossHasACause
  <1>1. ASSUME CauseInv, [MatchmakingNext]_mmVars, lost' # lost, faults' = faults
        PROVE  Excused
    <2> USE <1>1 DEF CauseInv, MatchmakingInv, MatchmakingTypeOK
    <2>1. MatchmakingNext /\ ~Fault
      BY MatchmakingAssumption DEF mmVars, historyVars, Fault
    <2>2. \E i \in Instance : AtomicRemove(i)
      BY ZenonT(40), <2>1 DEF MatchmakingNext, ClientStep, TickStep, historyVars, JoinMatchmaking, LeaveMatchmaking, SubscribeToMatch, PassOn, Unsubscribe, ExpireData, ReadPool, ReadEntry, FormGroups, AcquireLock, CreateRoom, PublishCreated, TellPlayer, FinishGroup, EndTick, RemoveResent, InstanceCrash
    <2> QED
      BY <2>2, RemovalIsExcused
  <1> QED
    BY <1>1, CauseInvariance, PTL DEF MatchmakingSpec, LossHasACause, Excused

-----------------------------------------------------------------------------
(* Who is told of a room.                                                   *)

(* The number of a stream is that of a ticket its player was given. *)
StreamTicketInv == \A i \in Instance, u \in Player : streams[i][u] <= tickets[u]

(* A player whose stream is older than his ticket was sent the room, or     *)
(* will be.                                                                 *)
ToldInv ==
  \A i \in Instance :
    active = {i} =>
      \A k \in DOMAIN rooms : \A t \in rooms[k] :
        streams[i][t[1]] # NoStream /\ streams[i][t[1]] < t[2] => <<k, t[1]>> \in told \cup dropped \cup untold[i]

TellingInv == CauseInv /\ StreamTicketInv /\ ToldInv

LEMMA StreamTicketStep ==
  ASSUME MatchmakingInv, StreamTicketInv, MatchmakingNext
  PROVE  StreamTicketInv'
  <1> USE DEF MatchmakingInv, MatchmakingTypeOK, StreamTicketInv
  <1>1. \A u \in Player : tickets[u] \in Nat /\ NoStream <= tickets[u]
    BY MatchmakingAssumption DEF NoStream
  <1>2. ASSUME NEW u \in Player, JoinMatchmaking(u) PROVE StreamTicketInv'
    <2>1. UNCHANGED streams /\ tickets' = [tickets EXCEPT ![u] = @ + 1]
      BY <1>2 DEF JoinMatchmaking, streamVars
    <2>2. \A i \in Instance, v \in Player : streams[i][v] \in Int
      BY MatchmakingAssumption DEF NoStream
    <2>3. \A v \in Player : tickets'[v] = tickets[v] \/ tickets'[v] = tickets[v] + 1
      BY <2>1
    <2> QED
      BY <2>1, <2>2, <2>3, <1>1
  <1>3. ASSUME NEW i \in Instance, NEW u \in Player, NEW n \in {NoStream, tickets[u]},
               UNCHANGED tickets, streams' = [streams EXCEPT ![i][u] = n]
        PROVE  StreamTicketInv'
    <2>1. \A j \in Instance, v \in Player :
            streams'[j][v] = IF j = i /\ v = u THEN n ELSE streams[j][v]
      BY <1>3
    <2>2. n <= tickets[u]
      BY <1>1
    <2> QED
      BY <1>3, <2>1, <2>2
  <1>4. ASSUME NEW i \in Instance, UNCHANGED tickets,
               streams' = [streams EXCEPT ![i] = [u \in Player |-> NoStream]]
        PROVE  StreamTicketInv'
    <2>1. \A j \in Instance, v \in Player : streams'[j][v] \in {streams[j][v], NoStream}
      BY <1>4
    <2> QED
      BY <1>1, <1>4, <2>1
  <1>5. ASSUME NEW i \in Instance, NEW u \in Player,
               LeaveMatchmaking(u, i) \/ SubscribeToMatch(u, i) \/ Unsubscribe(u, i)
        PROVE  StreamTicketInv'
    <2>1. UNCHANGED tickets
      BY <1>5 DEF LeaveMatchmaking, SubscribeToMatch, Unsubscribe
    <2>2. \/ UNCHANGED streams
          \/ \E n \in {NoStream, tickets[u]} : streams' = [streams EXCEPT ![i][u] = n]
      BY <1>5 DEF LeaveMatchmaking, SubscribeToMatch, Unsubscribe, Register, streamVars
    <2>3. CASE UNCHANGED streams
      BY <2>1, <2>3
    <2> QED
      BY <2>1, <2>2, <2>3, <1>3
  <1>6. ASSUME NEW i \in Instance, InstanceCrash(i) PROVE StreamTicketInv'
    BY <1>6, <1>4 DEF InstanceCrash
  <1>7. CASE UNCHANGED <<streams, tickets>>
    BY <1>7
  <1>10. ASSUME NEW i \in Instance, RemoveResent(i) PROVE UNCHANGED <<streams, tickets>>
    BY <1>10 DEF RemoveResent, streamVars
  <1>11. ASSUME NEW i \in Instance, NEW u \in Player, PassOn(u, i) PROVE UNCHANGED <<streams, tickets>>
    BY <1>11 DEF PassOn
  <1>8. ASSUME NEW i \in Instance, TickStep(i) PROVE UNCHANGED <<streams, tickets>>
    BY <1>8 DEF streamVars, TickStep, ReadPool, ReadEntry, FormGroups, AcquireLock, AtomicRemove, CreateRoom, PublishCreated, TellPlayer, FinishGroup, EndTick
  <1>9. ASSUME NEW u \in Player, ExpireData(u) PROVE UNCHANGED <<streams, tickets>>
    BY <1>9 DEF ExpireData, streamVars
  <1> QED
    BY <1>2, <1>5, <1>6, <1>7, <1>8, <1>9, <1>10, <1>11 DEF MatchmakingNext, ClientStep

LEMMA ToldStep ==
  ASSUME TellingInv, MatchmakingNext
  PROVE  ToldInv'
  <1> USE DEF TellingInv, CauseInv, MatchmakingInv, MatchmakingTypeOK, PlacesInv
  <1> SUFFICES ASSUME NEW i \in Instance, active' = {i},
                      NEW k \in DOMAIN rooms', NEW t \in rooms'[k],
                      streams'[i][t[1]] # NoStream, streams'[i][t[1]] < t[2]
               PROVE  <<k, t[1]>> \in told' \cup dropped' \cup untold'[i]
    BY DEF ToldInv
  <1>1. active = {i}
    BY ZenonT(40) DEF MatchmakingNext, ClientStep, TickStep, historyVars, JoinMatchmaking, LeaveMatchmaking, SubscribeToMatch, PassOn, Unsubscribe, Register, ExpireData, ReadPool, ReadEntry, FormGroups, AcquireLock, AtomicRemove, CreateRoom, PublishCreated, TellPlayer, FinishGroup, EndTick, RemoveResent, InstanceCrash
  <1>3. ASSUME k \in DOMAIN rooms, t \in rooms[k], UNCHANGED <<told, dropped>>, untold[i] \subseteq untold'[i],
               streams'[i][t[1]] = streams[i][t[1]]
        PROVE  <<k, t[1]>> \in told' \cup dropped' \cup untold'[i]
    BY <1>1, <1>3 DEF ToldInv
  <1>4. CASE ClientStep
    <2>1. UNCHANGED <<rooms, told, dropped, untold>>
      BY <1>4 DEF ClientStep, tickVars, streamVars, JoinMatchmaking, LeaveMatchmaking, SubscribeToMatch, PassOn, Unsubscribe, Register, ExpireData
    <2>2. t \in Issued /\ t[1] \in Player /\ t[2] \in Nat /\ tickets[t[1]] \in Nat
      <3>1. t \in Issued
        BY <2>1 DEF IssuedInv
      <3>2. t[1] \in Player /\ t[2] \in Nat
        BY <3>1 DEF Issued, Ticket
      <3>3. \A u \in Player : tickets[u] \in Nat
        BY MatchmakingAssumption
      <3> QED
        BY ONLY <3>1, <3>2, <3>3
    <2>3. \/ streams'[i][t[1]] = streams[i][t[1]]
          \/ streams'[i][t[1]] = NoStream
          \/ streams'[i][t[1]] = tickets[t[1]]
      <3>1. ASSUME NEW u \in Player, NEW j \in Instance, NEW n, streams' = [streams EXCEPT ![j][u] = n]
            PROVE  streams'[i][t[1]] = streams[i][t[1]] \/ (u = t[1] /\ streams'[i][t[1]] = n)
        BY <3>1, <2>2
      <3>2. ASSUME NEW u \in Player, NEW j \in Instance, LeaveMatchmaking(u, j) \/ Unsubscribe(u, j)
            PROVE  streams'[i][t[1]] = streams[i][t[1]] \/ streams'[i][t[1]] = NoStream
        <4>1. UNCHANGED streams \/ streams' = [streams EXCEPT ![j][u] = NoStream]
          BY <3>2 DEF LeaveMatchmaking, Unsubscribe, Register, streamVars
        <4> QED
          BY <3>1, <4>1
      <3>3. ASSUME NEW u \in Player, NEW j \in Instance, SubscribeToMatch(u, j)
            PROVE  streams'[i][t[1]] = streams[i][t[1]] \/ streams'[i][t[1]] = tickets[t[1]]
        BY <3>1, <3>3 DEF SubscribeToMatch, Register
      <3>4. ASSUME NEW u \in Player, JoinMatchmaking(u) \/ ExpireData(u)
            PROVE  streams'[i][t[1]] = streams[i][t[1]]
        BY <3>4 DEF JoinMatchmaking, ExpireData, streamVars
      <3>5. ASSUME NEW u \in Player, NEW j \in Instance, PassOn(u, j)
            PROVE  streams'[i][t[1]] = streams[i][t[1]]
        BY <3>5 DEF PassOn
      <3> QED
        BY <1>4, <3>2, <3>3, <3>4, <3>5 DEF ClientStep
    <2>4. ~(tickets[t[1]] < t[2])
      BY <2>2 DEF Issued
    <2> QED
      BY <1>3, <2>1, <2>3, <2>4
  <1>5. ASSUME NEW j \in Instance, CreateRoom(j) PROVE <<k, t[1]>> \in told' \cup dropped' \cup untold'[i]
    <2>0. UNCHANGED <<told, dropped, streams>> /\ pc[j] = "taken"
      BY <1>5 DEF CreateRoom, streamVars
    <2>1. CASE rooms' = rooms /\ untold' = untold
      BY <2>0, <2>1, <1>3
    <2>a. SUFFICES ASSUME /\ rooms' = Append(rooms, hand[j])
                          /\ untold' = [untold EXCEPT ![j] = {<<Len(rooms) + 1, s[1]>> : s \in hand[j]}]
                   PROVE  <<k, t[1]>> \in told' \cup dropped' \cup untold'[i]
      BY <2>1, <1>5 DEF CreateRoom
    <2>2. j = i /\ untold[j] = {}
      BY <2>0, <1>1 DEF PhaseInv
    <2>3. rooms \in Seq(SUBSET Ticket) /\ hand[j] \in SUBSET Ticket
      OBVIOUS
    <2>4. \/ k = Len(rooms) + 1 /\ rooms'[k] = hand[j]
          \/ k \in DOMAIN rooms /\ rooms'[k] = rooms[k]
      <3>1. \A l \in DOMAIN Append(rooms, hand[j]) :
              \/ l = Len(rooms) + 1 /\ Append(rooms, hand[j])[l] = hand[j]
              \/ l \in DOMAIN rooms /\ Append(rooms, hand[j])[l] = rooms[l]
        BY ONLY <2>3, AppendElements
      <3> QED
        BY ONLY <3>1, <2>a, k \in DOMAIN rooms'
    <2>5. CASE k = Len(rooms) + 1 /\ rooms'[k] = hand[j]
      BY <2>a, <2>2, <2>5
    <2>6. CASE k \in DOMAIN rooms /\ rooms'[k] = rooms[k]
      BY <2>0, <2>a, <2>2, <2>6, <1>3
    <2> QED
      BY <2>4, <2>5, <2>6
  <1>6. ASSUME NEW j \in Instance, NEW m \in untold[j], TellPlayer(j, m)
        PROVE  <<k, t[1]>> \in told' \cup dropped' \cup untold'[i]
    <2>1. /\ UNCHANGED <<rooms, streams>>
          /\ untold' = [untold EXCEPT ![j] = @ \ {m}]
          /\ Send(j, m)
          /\ pc[j] = "telling"
      BY <1>6 DEF TellPlayer
    <2>2. j = i
      BY <2>1, <1>1 DEF PhaseInv
    <2>3. <<k, t[1]>> \in told \cup dropped \cup untold[i] /\ told \subseteq told' /\ dropped \subseteq dropped'
      BY <1>1, <2>1 DEF ToldInv, Send
    <2>4. CASE m = <<k, t[1]>>
      <3>1. m[2] = t[1] /\ streams[i][m[2]] # NoStream
        BY <2>1, <2>4
      <3>2. m \in told' \cup dropped'
        BY <2>1, <2>2, <3>1 DEF Send
      <3> QED
        BY <2>4, <3>2
    <2>5. CASE m # <<k, t[1]>>
      BY <2>1, <2>2, <2>3, <2>5
    <2> QED
      BY <2>4, <2>5
  <1>7. ASSUME UNCHANGED <<rooms, told, dropped, untold, streams>>
        PROVE  <<k, t[1]>> \in told' \cup dropped' \cup untold'[i]
    BY <1>3, <1>7
  <1>8. ASSUME NEW j \in Instance, TickStep(j) PROVE <<k, t[1]>> \in told' \cup dropped' \cup untold'[i]
    BY <1>5, <1>6, <1>7, <1>8 DEF streamVars, TickStep, ReadPool, ReadEntry, FormGroups, AcquireLock, AtomicRemove, PublishCreated, FinishGroup, EndTick
  <1>9. ASSUME NEW j \in Instance, RemoveResent(j) PROVE <<k, t[1]>> \in told' \cup dropped' \cup untold'[i]
    BY <1>7, <1>9 DEF RemoveResent, streamVars, tickVars
  <1>10. ASSUME NEW j \in Instance, InstanceCrash(j) PROVE FALSE
    <2>1. j = i /\ UNCHANGED rooms /\ streams' = [streams EXCEPT ![j] = [u \in Player |-> NoStream]]
      BY <1>10, <1>1 DEF InstanceCrash
    <2>2. t[1] \in Player
      BY <2>1 DEF IssuedInv, Issued, Ticket
    <2> QED
      BY <2>1, <2>2
  <1> QED
    BY <1>4, <1>8, <1>9, <1>10 DEF MatchmakingNext

LEMMA TellingInvariance == MatchmakingSpec => []TellingInv
  <1>1. MatchmakingInit => TellingInv
    <2> SUFFICES ASSUME MatchmakingInit PROVE StreamTicketInv /\ ToldInv
      BY CauseInvInit DEF TellingInv
    <2> QED
      BY DEF MatchmakingInit, StreamTicketInv, ToldInv, NoStream
  <1>2. ASSUME TellingInv, [MatchmakingNext]_mmVars PROVE TellingInv'
    <2>1. CauseInv'
      BY <1>2, CauseInvStep DEF TellingInv
    <2>2. CASE MatchmakingNext
      BY <1>2, <2>1, <2>2, StreamTicketStep, ToldStep DEF TellingInv, CauseInv
    <2>3. CASE UNCHANGED mmVars
      BY <1>2, <2>1, <2>3 DEF TellingInv, StreamTicketInv, ToldInv, mmVars, tickVars, streamVars, historyVars
    <2> QED
      BY <1>2, <2>2, <2>3
  <1> QED
    BY <1>1, <1>2, PTL DEF MatchmakingSpec

(* For every set of players, instances and limits, whatever fails: with one *)
(* instance, a player whose stream was there before his ticket is told of   *)
(* its room, unless his channel was full.  A stream that is opened later,   *)
(* or after a crash, is as new as the ticket, so the promise does not cover *)
(* it (matcher.go:150-182, server.go:66-86, streamer.go:40-51).             *)
THEOREM EarlySubscribersAreTold == MatchmakingSpec => []SubscribersAreTold
  <1>1. TellingInv => SubscribersAreTold
    <2> SUFFICES ASSUME TellingInv, NEW i \in active, NEW k \in DOMAIN rooms,
                        active = {i}, k \notin {m[1] : m \in untold[i]},
                        NEW t \in rooms[k], streams[i][t[1]] # NoStream, streams[i][t[1]] < t[2]
                 PROVE  <<k, t[1]>> \in told \cup dropped
      BY DEF SubscribersAreTold
    <2>1. i \in Instance
      BY DEF TellingInv, CauseInv, MatchmakingInv, MatchmakingTypeOK
    <2>2. <<k, t[1]>> \in told \cup dropped \cup untold[i]
      BY <2>1 DEF TellingInv, ToldInv
    <2> QED
      BY <2>2
  <1> QED
    BY <1>1, TellingInvariance, PTL

=============================================================================
