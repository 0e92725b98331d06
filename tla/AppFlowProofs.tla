--------------------------- MODULE AppFlowProofs ---------------------------
(***************************************************************************)
(* Proofs about the app between its profile and the results of a match, for *)
(* any number of visits to the matchmaking screen, games, events and        *)
(* failures.                                                                *)
(***************************************************************************)
EXTENDS AppFlow, FiniteSetTheorems, TLAPS

-----------------------------------------------------------------------------
(* The type of every variable, and what it needs.                           *)

(* The room r is on its way to the app. *)
OnTheWay(r) == \E v \in Visit : \E i \in 1..Len(channel[v]) : channel[v][i] = r

(* What has not been visited has no call and no stream. *)
VisitsInv ==
  /\ \A v \in Visit : v > visits => /\ calls[v] = "none" /\ leaves[v] = "none"
                                   /\ streams[v] = "none" /\ channel[v] = <<>>
  /\ \A v \in Visit : v \in listening \/ streams[v] # "none" => calls[v] = "done"
  /\ registered <= visits
  /\ \A p \in leaving : p[1] <= visits
  /\ screen = "matchmaking" => visits > 0
  /\ status = "found" => foundRoom # None

(* The visits whose join was handled, or has come back. *)
Joined == {v \in Visit : calls[v] \in {"added", "done"}}

(* Every room took one join of the player out of the pool. *)
SeatedInv == rooms + (IF waiting THEN 1 ELSE 0) <= Cardinality(Joined)

AppInv == AppTypeOK /\ VisitsInv /\ SeatedInv

LEMMA JoinedFacts ==
  /\ IsFiniteSet(Joined) /\ Cardinality(Joined) \in Nat /\ Cardinality(Joined) <= MaxJoins
  /\ IsFiniteSet(Joined)' /\ Cardinality(Joined)' \in Nat /\ Cardinality(Joined)' <= MaxJoins
  <1>1. MaxJoins \in Nat /\ 1 \in Nat
    BY AppAssumption DEF AppAssumption
  <1>2. IsFiniteSet(Visit) /\ Cardinality(Visit) = MaxJoins
    BY <1>1, FS_Interval DEF Visit
  <1>3. Joined \subseteq Visit /\ Joined' \subseteq Visit
    BY DEF Joined
  <1> QED
    BY <1>1, <1>2, <1>3, FS_Subset, FS_CardinalityType

(* No call is taken back. *)
LEMMA CallsProgress ==
  ASSUME AppTypeOK, VisitsInv, AppNext
  PROVE  /\ \A v \in Visit : calls[v] \in {"added", "done"} => calls'[v] \in {"added", "done"}
         /\ \A v \in Visit : calls[v] = "done" => calls'[v] = "done"
  <1>1. calls \in [Visit -> {"none", "sent", "added", "done"}] /\ visits \in 0..MaxJoins
    BY DEF AppTypeOK
  <1>2. ASSUME calls' = calls PROVE \A v \in Visit : calls'[v] = calls[v]
    BY <1>2
  <1>3. CASE EnterMatchmaking
    <2>1. visits + 1 \in Visit /\ calls[visits + 1] = "none"
      BY <1>1, <1>3, AppAssumption DEF EnterMatchmaking, Visit, VisitsInv, AppAssumption
    <2> QED
      BY <1>1, <1>3, <2>1 DEF EnterMatchmaking
  <1>4. ASSUME NEW v \in Visit, Subscribe(v) \/ JoinFails(v) \/ Added(v)
        PROVE  /\ \A w \in Visit : calls[w] \in {"added", "done"} => calls'[w] \in {"added", "done"}
               /\ \A w \in Visit : calls[w] = "done" => calls'[w] = "done"
    <2>1. \/ calls[v] # "done" /\ calls' = [calls EXCEPT ![v] = "done"]
          \/ calls[v] = "sent" /\ calls' = [calls EXCEPT ![v] = "added"]
      BY <1>4 DEF Subscribe, JoinFails, Added
    <2> QED
      BY <1>1, <2>1
  <1>5. EnterMatchmaking \/ (\E v \in Visit : Subscribe(v) \/ JoinFails(v) \/ Added(v)) \/ calls' = calls
    <2> USE DEF matchVars
    <2>1. PlayerStep => EnterMatchmaking \/ calls' = calls
      BY DEF PlayerStep, Cancel, ShowProfile, ExitGame, LeaveResults, Reset
    <2>2. AppStep => (\E v \in Visit : Subscribe(v) \/ JoinFails(v)) \/ calls' = calls
      BY DEF AppStep, LeaveReplied, LeaveFails, OnMatchEvent, MatchStreamFails, Navigate,
             OnRoundResult, OnQuestion, OnMatchEnd, GameStreamFails, RecordStats
    <2>3. ServerStep => (\E v \in Visit : Added(v)) \/ calls' = calls
      BY DEF ServerStep, Removed, Subscribed, Unsubscribed, Told, CreateRoomFails, Taken,
             BroadcastWaitUpdate
    <2> QED
      BY <2>1, <2>2, <2>3 DEF AppNext
  <1> QED
    BY <1>2, <1>3, <1>4, <1>5

LEMMA SeatedStep ==
  ASSUME AppInv, AppNext
  PROVE  SeatedInv'
  <1>1. /\ rooms \in Nat /\ waiting \in BOOLEAN
        /\ calls \in [Visit -> {"none", "sent", "added", "done"}]
    BY DEF AppInv, AppTypeOK
  <1>2. Joined \subseteq Joined'
    BY CallsProgress DEF Joined, AppInv
  <1>3. Cardinality(Joined) <= Cardinality(Joined)'
    <2>1. IsFiniteSet(Joined')
      BY JoinedFacts
    <2>2. Cardinality(Joined) <= Cardinality(Joined')
      BY <1>2, <2>1, FS_Subset
    <2> QED
      BY <2>2
  <1>4. ASSUME NEW v \in Visit, Added(v) PROVE SeatedInv'
    <2>1. calls[v] = "sent" /\ calls' = [calls EXCEPT ![v] = "added"] /\ waiting' = TRUE /\ rooms' = rooms
      BY <1>4 DEF Added
    <2>2. v \notin Joined /\ Joined' = Joined \cup {v}
      BY <1>1, <2>1 DEF Joined
    <2>3. Cardinality(Joined') = Cardinality(Joined) + 1
      BY <2>2, JoinedFacts, FS_AddElement
    <2> QED
      BY <1>1, <2>1, <2>3, JoinedFacts DEF AppInv, SeatedInv
  <1>5. CASE Taken
    BY <1>1, <1>3, <1>5, JoinedFacts DEF Taken, AppInv, SeatedInv
  <1>6. ASSUME rooms' = rooms, waiting' = waiting \/ waiting' = FALSE PROVE SeatedInv'
    BY <1>1, <1>3, <1>6, JoinedFacts DEF AppInv, SeatedInv
  <1>7. \/ \E v \in Visit : Added(v)
        \/ Taken
        \/ rooms' = rooms /\ (waiting' = waiting \/ waiting' = FALSE)
    <2> USE DEF serverVars
    <2>1. PlayerStep => rooms' = rooms /\ waiting' = waiting
      BY DEF PlayerStep, EnterMatchmaking, Cancel, ShowProfile, ExitGame, LeaveResults
    <2>2. AppStep => rooms' = rooms /\ waiting' = waiting
      BY DEF AppStep, Subscribe, JoinFails, LeaveReplied, LeaveFails, OnMatchEvent,
             MatchStreamFails, Navigate, OnRoundResult, OnQuestion, OnMatchEnd, GameStreamFails,
             RecordStats
    <2>3. ServerStep => \/ \E v \in Visit : Added(v)
                        \/ Taken
                        \/ rooms' = rooms /\ (waiting' = waiting \/ waiting' = FALSE)
      BY DEF ServerStep, Removed, Subscribed, Unsubscribed, Told, CreateRoomFails,
             BroadcastWaitUpdate
    <2> QED
      BY <2>1, <2>2, <2>3 DEF AppNext
  <1> QED
    BY <1>4, <1>5, <1>6, <1>7

-----------------------------------------------------------------------------
(* The steps of the type invariant. *)

LEMMA AppTypeFacts ==
  ASSUME AppInv
  PROVE  /\ rooms \in 0..MaxJoins /\ visits \in 0..MaxJoins
         /\ foundRoom \in 0..rooms /\ gameRoom \in 0..rooms /\ result \in 0..rooms
         /\ waiting => rooms < MaxJoins
         /\ MaxJoins \in Nat /\ MaxStarts \in Nat /\ MaxWaits \in Nat /\ MaxFaults \in Nat
         /\ 0 \in Nat /\ 1..rooms \subseteq 0..rooms /\ 0 \in 0..rooms /\ 1..rooms \subseteq Visit
         /\ games \in Seq(1..rooms)
  <1>1. {MaxJoins, MaxStarts, MaxWaits, MaxFaults} \subseteq Nat
    BY AppAssumption DEF AppAssumption
  <1>2. rooms \in 0..MaxJoins /\ visits \in 0..MaxJoins
    BY DEF AppInv, AppTypeOK
  <1>3. waiting => rooms < MaxJoins
    BY <1>1, <1>2, JoinedFacts DEF AppInv, SeatedInv
  <1> QED
    BY SMTT(30), <1>1, <1>2, <1>3 DEF AppInv, AppTypeOK, Visit

LEMMA FaultCounted == ASSUME AppInv, Fault PROVE faults' \in 0..MaxFaults
  <1>1. faults \in 0..MaxFaults /\ faults < MaxFaults /\ faults' = faults + 1
    BY DEF Fault, AppInv, AppTypeOK
  <1> QED
    BY <1>1, AppTypeFacts

(* A new game. *)
LEMMA StartGameType ==
  ASSUME AppInv, NEW r \in 1..rooms, startGame(r)
  PROVE  /\ Len(games') <= MaxStarts /\ games' \in Seq(1..rooms)
         /\ playing' \subseteq DOMAIN games' /\ gameStream' \in DOMAIN games'
         /\ gameRoom' \in 0..rooms /\ result' \in 0..rooms /\ played' \in BOOLEAN
  <1>1. games \in Seq(1..rooms) /\ playing \subseteq DOMAIN games /\ MaxStarts \in Nat
    BY AppTypeFacts DEF AppInv, AppTypeOK
  <1>2. Len(games) < MaxStarts /\ games' = Append(games, r)
    BY DEF startGame
  <1>3. Len(games') = Len(games) + 1 /\ games' \in Seq(1..rooms)
    BY <1>1, <1>2
  <1>4. DOMAIN games' = 1..Len(games') /\ DOMAIN games = 1..Len(games)
    BY <1>1, <1>3
  <1>5. Len(games') <= MaxStarts /\ gameStream' \in DOMAIN games' /\ DOMAIN games \subseteq DOMAIN games'
    BY <1>1, <1>2, <1>3, <1>4 DEF startGame
  <1>6. gameRoom' \in 0..rooms /\ result' \in 0..rooms /\ played' \in BOOLEAN
    BY AppTypeFacts DEF startGame, None
  <1> QED
    BY <1>1, <1>3, <1>5, <1>6 DEF startGame

LEMMA AppTypeStep ==
  ASSUME AppInv, AppNext
  PROVE  AppTypeOK'
  <1>1. AppTypeOK
    BY DEF AppInv
  <1> USE AppTypeFacts, FaultCounted DEF matchVars, gameVars, statsVars, serverVars, historyVars, None
  <1>2. ASSUME EnterMatchmaking PROVE AppTypeOK'
    <2>1. visits + 1 \in Visit /\ visits' \in 0..MaxJoins
      BY <1>2 DEF EnterMatchmaking, Visit
    <2>2. current' \in 0..visits'
      BY <1>1, <1>2 DEF EnterMatchmaking, AppTypeOK
    <2>3. calls' \in [Visit -> {"none", "sent", "added", "done"}] /\ hasty' \in BOOLEAN
      BY <1>1, <1>2 DEF EnterMatchmaking, AppTypeOK
    <2> QED
      BY <1>1, <1>2, <2>1, <2>2, <2>3 DEF EnterMatchmaking, AppTypeOK
  <1>3. ASSUME Cancel \/ ShowProfile PROVE AppTypeOK'
    <2>1. visits \in Visit
      BY <1>3 DEF Cancel, ShowProfile, AppInv, VisitsInv, Visit
    <2>2. hasty' \in BOOLEAN
      BY <1>1, <1>3 DEF AppTypeOK, Cancel, ShowProfile
    <2>3. CASE Cancel
      BY <1>1, <2>1, <2>2, <2>3 DEF Cancel, AppTypeOK
    <2>4. CASE ShowProfile
      BY <1>1, <2>1, <2>2, <2>4 DEF ShowProfile, AppTypeOK
    <2> QED
      BY <1>3, <2>3, <2>4
  <1>4. ASSUME NEW v \in Visit, Subscribe(v) PROVE AppTypeOK'
    <2>1. v <= visits
      <3>1. ~(v > visits)
        BY <1>4, Zenon DEF Subscribe, AppInv, VisitsInv
      <3>2. v \in Nat /\ visits \in Nat
        BY DEF Visit
      <3> QED
        BY ONLY <3>1, <3>2
    <2>2. current' \in 0..visits'
      BY <1>4, <2>1 DEF Subscribe, Visit
    <2>3. /\ calls' \in [Visit -> {"none", "sent", "added", "done"}]
          /\ streams' \in [Visit -> {"none", "asked", "serving", "over"}]
          /\ listening' \subseteq Visit /\ hasTicket' \in BOOLEAN
      BY <1>1, <1>4 DEF Subscribe, AppTypeOK
    <2> QED
      BY <1>1, <1>4, <2>2, <2>3 DEF Subscribe, AppTypeOK
  <1>5. ASSUME NEW v \in Visit, JoinFails(v) \/ LeaveReplied(v) \/ LeaveFails(v) \/ MatchStreamFails(v)
        PROVE  AppTypeOK'
    <2>1. CASE JoinFails(v)
      <3>1. lost' \in BOOLEAN
        BY <1>1, <2>1 DEF JoinFails, AppTypeOK
      <3>2. calls' \in [Visit -> {"none", "sent", "added", "done"}] /\ faults' \in 0..MaxFaults
        BY <1>1, <2>1 DEF JoinFails, AppTypeOK
      <3> QED
        BY ZenonT(40), <1>1, <2>1, <3>1, <3>2 DEF JoinFails, AppTypeOK
    <2>2. CASE LeaveReplied(v)
      BY <1>1, <2>2 DEF LeaveReplied, AppTypeOK
    <2>3. CASE LeaveFails(v)
      BY <1>1, <2>3 DEF LeaveFails, AppTypeOK
    <2>4. CASE MatchStreamFails(v)
      BY <1>1, <2>4 DEF MatchStreamFails, AppTypeOK
    <2> QED
      BY <1>5, <2>1, <2>2, <2>3, <2>4
  <1>6. ASSUME NEW v \in Visit, OnMatchEvent(v) PROVE AppTypeOK'
    <2> DEFINE e == Head(channel[v])
    <2>1. channel[v] # <<>> /\ channel \in [Visit -> Seq(0..rooms)] /\ channel' = [channel EXCEPT ![v] = Tail(@)]
      BY <1>1, <1>6 DEF OnMatchEvent, AppTypeOK
    <2>2. e \in 0..rooms /\ channel' \in [Visit -> Seq(0..rooms)]
      BY SMTT(30), <2>1
    <2>3. /\ status' \in {"found", status} /\ foundRoom' \in 0..rooms
          /\ status' = "found" => foundRoom' \in 1..rooms
          /\ nudged' \in BOOLEAN
      <3>1. status = "found" => foundRoom \in 1..rooms
        BY DEF AppInv, VisitsInv
      <3> HIDE DEF e
      <3>2. \/ e = WaitUpdate /\ UNCHANGED <<status, foundRoom>>
               /\ nudged' = (nudged \/ (status = "found" /\ screen = "matchmaking"))
            \/ e # WaitUpdate /\ status' = "found" /\ foundRoom' = e /\ nudged' = nudged
        BY <1>6 DEF OnMatchEvent, e
      <3> QED
        <4>1. /\ status \in {"idle", "searching", "found"} /\ nudged \in BOOLEAN
              /\ foundRoom \in 0..rooms
          BY <1>1 DEF AppTypeOK
        <4>2. status' \in {"found", status} /\ foundRoom' \in 0..rooms
          BY <2>2, <3>2, <4>1, Zenon
        <4>3. nudged' \in BOOLEAN
          BY <3>2, <4>1, Zenon
        <4>4. e # WaitUpdate => e \in 1..rooms
          BY <2>2 DEF WaitUpdate
        <4> QED
          BY <3>1, <3>2, <4>2, <4>3, <4>4, Zenon
    <2>4. CASE screen = "matchmaking" /\ status' = "found"
      <3>1. startGame(foundRoom') /\ leaving' = leaving \cup {<<visits, foundRoom'>>}
        BY <1>6, <2>4 DEF OnMatchEvent
      <3>2. foundRoom' \in 1..rooms
        BY <2>3, <2>4
      <3>3. visits \in Visit
        BY <2>4 DEF AppInv, VisitsInv, Visit
      <3>4. leaving' \subseteq Visit \X (1..rooms)
        <4>1. leaving \subseteq Visit \X (1..rooms)
          BY <1>1 DEF AppTypeOK
        <4> QED
          BY ONLY <3>1, <3>2, <3>3, <4>1
      <3>5. UNCHANGED <<screen, calls, leaves, hasTicket, current, listening, visits, statsVars,
                        serverVars, faults, strayed, hasty, lost>>
        BY <1>6 DEF OnMatchEvent
      <3> QED
        BY <1>1, <2>2, <2>3, <3>1, <3>2, <3>4, <3>5, StartGameType DEF AppTypeOK
    <2>5. CASE ~(screen = "matchmaking" /\ status' = "found")
      <3>1. UNCHANGED <<gameVars, leaving, screen, calls, leaves, hasTicket, current, listening,
                        visits, statsVars, serverVars, faults, strayed, hasty, lost>>
        BY <1>6, <2>5 DEF OnMatchEvent
      <3> QED
        BY <1>1, <2>2, <2>3, <3>1 DEF AppTypeOK
    <2> QED
      BY <2>4, <2>5
  <1>7. ASSUME NEW v \in Visit, NEW r \in 1..rooms, Navigate(v, r) PROVE AppTypeOK'
    BY <1>1, <1>7 DEF Navigate, AppTypeOK
  <1>8. ASSUME NEW k \in DOMAIN games, OnRoundResult(k) \/ OnQuestion(k) \/ GameStreamFails(k) \/ OnMatchEnd(k)
        PROVE  AppTypeOK'
    <2>1. CASE OnRoundResult(k)
      <3>1. played' \in BOOLEAN
        BY <2>1 DEF OnRoundResult
      <3>2. screen' \in {screen, "leaderboard"}
        BY <2>1 DEF OnRoundResult
      <3> QED
        BY <1>1, <2>1, <3>1, <3>2 DEF OnRoundResult, AppTypeOK
    <2>2. CASE OnQuestion(k)
      BY <1>1, <2>2 DEF OnQuestion, AppTypeOK
    <2>3. CASE GameStreamFails(k)
      BY <1>1, <2>3 DEF GameStreamFails, AppTypeOK
    <2>4. CASE OnMatchEnd(k)
      <3>1. games[k] \in 1..rooms
        BY <1>8
      <3> QED
        BY <1>1, <2>4, <3>1 DEF OnMatchEnd, AppTypeOK
    <2> QED
      BY <1>8, <2>1, <2>2, <2>3, <2>4
  <1>9. ASSUME ExitGame \/ RecordStats \/ LeaveResults PROVE AppTypeOK'
    <2>1. CASE ExitGame
      <3>1. recorded' = recorded \/ recorded' = [recorded EXCEPT ![gameRoom] = @ + 1]
        BY <2>1 DEF ExitGame, recordMatch
      <3>2. gameRoom \in Visit
        BY <2>1 DEF ExitGame
      <3>3. recorded \in [Visit -> Nat]
        BY <1>1 DEF AppTypeOK
      <3>4. recorded' \in [Visit -> Nat]
        BY ONLY <3>1, <3>2, <3>3
      <3> QED
        BY <1>1, <2>1, <3>4 DEF ExitGame, Reset, AppTypeOK
    <2>2. CASE RecordStats
      <3>1. result \in Visit /\ recorded' = [recorded EXCEPT ![result] = @ + 1]
        BY <2>2 DEF RecordStats, recordMatch
      <3>2. recorded \in [Visit -> Nat]
        BY <1>1 DEF AppTypeOK
      <3>3. recorded' \in [Visit -> Nat]
        BY ONLY <3>1, <3>2
      <3> QED
        BY <1>1, <2>2, <3>3 DEF RecordStats, AppTypeOK
    <2>3. CASE LeaveResults
      BY <1>1, <2>3 DEF LeaveResults, Reset, AppTypeOK
    <2> QED
      BY <1>9, <2>1, <2>2, <2>3
  <1>10. ASSUME NEW v \in Visit, Added(v) \/ Removed(v) \/ Subscribed(v) \/ Unsubscribed(v)
         PROVE  AppTypeOK'
    <2>1. CASE Added(v)
      BY <1>1, <2>1 DEF Added, AppTypeOK
    <2>2. CASE Removed(v)
      BY <1>1, <2>2 DEF Removed, Unregister, AppTypeOK
    <2>3. CASE Subscribed(v)
      BY <1>1, <2>3 DEF Subscribed, AppTypeOK
    <2>4. CASE Unsubscribed(v)
      BY <1>1, <2>4 DEF Unsubscribed, Unregister, AppTypeOK
    <2> QED
      BY <1>10, <2>1, <2>2, <2>3, <2>4
  <1>11. ASSUME NEW e \in 0..rooms, Sent(e) PROVE channel' \in [Visit -> Seq(0..rooms)]
    BY SMTT(30), <1>1, <1>11 DEF Sent, AppTypeOK
  <1>12. ASSUME NEW r \in untold, Told(r) \/ CreateRoomFails(r) PROVE AppTypeOK'
    <2>1. CASE Told(r)
      <3>1. channel' \in [Visit -> Seq(0..rooms)]
        BY <1>1, <1>11, <2>1 DEF Told, AppTypeOK
      <3> QED
        BY <1>1, <2>1, <3>1 DEF Told, AppTypeOK
    <2>2. CASE CreateRoomFails(r)
      BY <1>1, <2>2 DEF CreateRoomFails, AppTypeOK
    <2> QED
      BY <1>12, <2>1, <2>2
  <1>13. ASSUME BroadcastWaitUpdate PROVE AppTypeOK'
    <2>1. channel' \in [Visit -> Seq(0..rooms)]
      BY <1>11, <1>13 DEF BroadcastWaitUpdate, WaitUpdate
    <2>2. waits' \in 0..MaxWaits
      BY <1>1, <1>13 DEF BroadcastWaitUpdate, AppTypeOK
    <2> QED
      BY <1>1, <1>13, <2>1, <2>2 DEF BroadcastWaitUpdate, AppTypeOK
  <1>14. ASSUME Taken PROVE AppTypeOK'
    <2>1. rooms' = rooms + 1 /\ rooms' \in 0..MaxJoins
      BY <1>14 DEF Taken
    <2>2. 0..rooms \subseteq 0..rooms' /\ 1..rooms \subseteq 1..rooms' /\ rooms' \in 1..rooms'
      BY <2>1
    <2>3. channel' \in [Visit -> Seq(0..rooms')] /\ games' \in Seq(1..rooms')
      BY SMTT(30), <1>1, <1>14, <2>2 DEF Taken, AppTypeOK
    <2>4. leaving' \subseteq Visit \X (1..rooms') /\ untold' \cup over' \subseteq 1..rooms'
      BY <1>1, <1>14, <2>1, <2>2 DEF Taken, AppTypeOK
    <2> QED
      BY <1>1, <1>14, <2>1, <2>2, <2>3, <2>4 DEF Taken, AppTypeOK
  <1> QED
    BY <1>2, <1>3, <1>4, <1>5, <1>6, <1>7, <1>8, <1>9, <1>10, <1>12, <1>13, <1>14
    DEF AppNext, PlayerStep, AppStep, ServerStep

(* What was not visited is left alone by all steps but EnterMatchmaking,    *)
(* which begins the next visit.                                             *)
LEMMA VisitsStep ==
  ASSUME AppInv, AppNext
  PROVE  VisitsInv'
  <1>1. /\ visits \in Nat /\ registered \in Nat /\ \A v \in Visit : v \in Nat /\ v > 0
        /\ calls \in [Visit -> {"none", "sent", "added", "done"}]
        /\ leaves \in [Visit -> {"none", "sent", "removed", "done"}]
        /\ streams \in [Visit -> {"none", "asked", "serving", "over"}]
        /\ channel \in [Visit -> Seq(0..rooms)]
        /\ leaving \subseteq Visit \X (1..rooms)
        /\ foundRoom \in Nat
    BY DEF AppInv, AppTypeOK, Visit, None
  <1>2. /\ \A v \in Visit : v > visits => /\ calls[v] = "none" /\ leaves[v] = "none"
                                         /\ streams[v] = "none" /\ channel[v] = <<>>
        /\ \A v \in Visit : v \in listening \/ streams[v] # "none" => calls[v] = "done"
        /\ registered <= visits
        /\ \A p \in leaving : p[1] <= visits
        /\ screen = "matchmaking" => visits > 0
        /\ status = "found" => foundRoom # None
    BY DEF AppInv, VisitsInv
  <1>3. \A v \in Visit : calls[v] = "done" => calls'[v] = "done"
    BY CallsProgress DEF AppInv
  (* What the steps in a visit do. *)
  <1>4. ASSUME UNCHANGED <<visits, screen>> \/ (visits' = visits /\ screen' # "matchmaking"),
               \/ UNCHANGED <<status, foundRoom>>
               \/ status' # "found"
               \/ foundRoom' # None,
               UNCHANGED <<calls, leaves, streams, channel, listening, registered>>,
               \A p \in leaving' : p[1] <= visits
        PROVE  VisitsInv'
    BY <1>2, <1>4 DEF VisitsInv
  <1>5. ASSUME UNCHANGED <<visits, screen, status, foundRoom, leaving>>,
               \A v \in Visit : calls[v] = "none" /\ v > visits => calls'[v] = "none",
               \A v \in Visit : leaves[v] = "none" /\ v > visits => leaves'[v] = "none",
               \A v \in Visit : streams[v] = "none" /\ v > visits => streams'[v] = "none",
               \A v \in Visit : v > visits /\ channel[v] = <<>> => channel'[v] = <<>>,
               \A v \in Visit : v \in listening' \/ streams'[v] # "none" =>
                  v \in listening \/ streams[v] # "none" \/ calls'[v] = "done",
               registered' <= visits
        PROVE  VisitsInv'
    BY <1>2, <1>3, <1>5 DEF VisitsInv
  <1> USE DEF matchVars, gameVars, statsVars, serverVars
  <1>6. CASE EnterMatchmaking
    <2>1. visits' = visits + 1 /\ visits + 1 \in Visit
      BY <1>6, AppTypeFacts DEF EnterMatchmaking, Visit
    <2>2. /\ calls' = [calls EXCEPT ![visits + 1] = "sent"] /\ status' = "searching"
          /\ UNCHANGED <<leaves, listening, leaving, streams, registered, channel>>
      BY <1>6 DEF EnterMatchmaking
    <2>3. \A v \in Visit : v > visits + 1 => v > visits /\ v # visits + 1
      BY <1>1
    <2>4. \A v \in Visit : v \in listening' \/ streams'[v] # "none" => calls'[v] = "done"
      BY <1>2, <1>3, <2>2
    <2>5. \A v \in Visit : v > visits' => calls'[v] = "none"
      BY <1>1, <1>2, <2>1, <2>2, <2>3
    <2>6. \A p \in leaving' : p[1] <= visits'
      BY <1>1, <1>2, <2>1, <2>2
    <2> QED
      BY <1>1, <1>2, <2>1, <2>2, <2>3, <2>4, <2>5, <2>6 DEF VisitsInv
  <1>7. ASSUME Cancel PROVE VisitsInv'
    <2>1. visits \in Visit /\ visits' = visits
      BY <1>2, <1>7, AppTypeFacts DEF Cancel, Visit
    <2>2. UNCHANGED <<calls, streams, channel, registered, leaving>> /\ screen' = "profile"
      BY <1>7 DEF Cancel
    <2>3. listening' \subseteq listening
      BY <1>7 DEF Cancel
    <2>4. \A v \in Visit : v > visits => leaves'[v] = "none"
      BY <1>1, <1>2, <1>7, <2>1 DEF Cancel
    <2>5. status' = "found" => foundRoom' # None
      BY <1>2, <1>7 DEF Cancel
    <2> QED
      BY <1>2, <2>1, <2>2, <2>3, <2>4, <2>5 DEF VisitsInv
  <1>8. ASSUME ShowProfile \/ RecordStats PROVE VisitsInv'
    BY <1>2, <1>4, <1>8 DEF ShowProfile, RecordStats
  <1>9. ASSUME ExitGame \/ LeaveResults PROVE VisitsInv'
    <2>1. /\ UNCHANGED <<visits, calls, leaves, streams, channel, registered, leaving>>
          /\ screen' = "profile" /\ status' = "idle" /\ listening' \subseteq listening
      BY <1>9 DEF ExitGame, LeaveResults, Reset
    <2> QED
      BY <1>2, <2>1 DEF VisitsInv
  <1>10. ASSUME NEW v \in Visit, Subscribe(v) \/ JoinFails(v) \/ Added(v)
         PROVE  VisitsInv'
    <2>1. calls[v] # "none" /\ v <= visits
      <3>1. calls[v] # "none"
        BY <1>10 DEF Subscribe, JoinFails, Added
      <3> QED
        BY <1>1, <1>2, <3>1
    <2>2. \A w \in Visit : w > visits => w # v
      BY <1>1, <2>1
    <2>3. \A w \in Visit : w # v => calls'[w] = calls[w] /\ streams'[w] = streams[w]
      BY <1>1, <1>10 DEF Subscribe, JoinFails, Added
    <2>4. UNCHANGED <<visits, screen, status, foundRoom, leaving, leaves, channel, registered>>
      BY <1>10 DEF Subscribe, JoinFails, Added
    <2>5. \/ UNCHANGED <<listening, streams>>
          \/ listening' = listening \cup {v} /\ calls'[v] = "done"
      BY <1>1, <1>10 DEF Subscribe, JoinFails, Added
    <2> QED
      BY <1>2, <1>3, <2>2, <2>3, <2>4, <2>5 DEF VisitsInv
  <1>11. ASSUME NEW v \in Visit, LeaveReplied(v) \/ LeaveFails(v) \/ Removed(v)
         PROVE  VisitsInv'
    <2>1. leaves[v] # "none" /\ \A w \in Visit : w # v => leaves'[w] = leaves[w]
      BY <1>1, <1>11 DEF LeaveReplied, LeaveFails, Removed
    <2>2. UNCHANGED <<visits, screen, leaving, calls, listening, channel, streams>>
      BY <1>11 DEF LeaveReplied, LeaveFails, Removed
    <2>3. registered' = registered \/ registered' = 0
      BY <1>11 DEF LeaveReplied, LeaveFails, Removed, Unregister, None
    <2>4. (status' = status /\ foundRoom' = foundRoom) \/ status' = "idle"
      BY <1>11 DEF LeaveReplied, LeaveFails, Removed
    <2> QED
      BY <1>1, <1>2, <2>1, <2>2, <2>3, <2>4 DEF VisitsInv
  <1>12. ASSUME NEW v \in Visit, OnMatchEvent(v) PROVE VisitsInv'
    <2>1. /\ channel[v] # <<>> /\ channel' = [channel EXCEPT ![v] = Tail(@)]
          /\ UNCHANGED <<screen, visits, calls, leaves, listening, streams, registered>>
      BY <1>12 DEF OnMatchEvent
    <2>2. \A w \in Visit : w > visits => channel'[w] = <<>>
      BY <1>1, <1>2, <2>1
    <2>3. \A p \in leaving' : p[1] <= visits
      <3>1. leaving' = leaving \/ leaving' = leaving \cup {<<visits, foundRoom'>>}
        BY <1>12 DEF OnMatchEvent
      <3> QED
        BY <1>1, <1>2, <3>1
    <2>4. status' = "found" => foundRoom' # None
      BY <1>2, <1>12 DEF OnMatchEvent, WaitUpdate
    <2> QED
      BY <1>2, <2>1, <2>2, <2>3, <2>4 DEF VisitsInv
  <1>13. ASSUME NEW v \in Visit, MatchStreamFails(v) PROVE VisitsInv'
    <2>1. /\ UNCHANGED <<visits, screen, calls, leaves, streams, channel, registered, leaving>>
          /\ status' = "idle" /\ listening' \subseteq listening
      BY <1>13 DEF MatchStreamFails
    <2> QED
      BY <1>2, <2>1 DEF VisitsInv
  <1>14. ASSUME NEW v \in Visit, NEW r \in 1..rooms, Navigate(v, r) PROVE VisitsInv'
    <2>1. leaving' \subseteq leaving /\ (screen' = screen \/ screen' = "game")
      BY <1>14 DEF Navigate
    <2> QED
      BY <1>2, <1>4, <1>14, <2>1 DEF Navigate
  <1>15. ASSUME NEW k \in DOMAIN games,
                OnRoundResult(k) \/ OnQuestion(k) \/ OnMatchEnd(k) \/ GameStreamFails(k)
         PROVE  VisitsInv'
    <2>1. screen' = screen \/ screen' # "matchmaking"
      BY <1>15 DEF OnRoundResult, OnQuestion, OnMatchEnd, GameStreamFails
    <2>2. UNCHANGED <<visits, status, foundRoom, calls, leaves, streams, channel, listening,
                      registered, leaving>>
      BY <1>15 DEF OnRoundResult, OnQuestion, OnMatchEnd, GameStreamFails
    <2> QED
      BY <1>2, <1>4, <2>1, <2>2
  <1>16. ASSUME NEW v \in Visit, Subscribed(v) \/ Unsubscribed(v) PROVE VisitsInv'
    <2>1. /\ streams[v] # "none" /\ \A w \in Visit : w # v => streams'[w] = streams[w]
          /\ registered' \in {v, 0} /\ listening' \subseteq listening
      BY <1>1, <1>16 DEF Subscribed, Unsubscribed, Unregister, None
    <2>2. v <= visits
      BY <1>1, <1>2, <2>1
    <2>3. UNCHANGED <<visits, screen, status, foundRoom, leaving, calls, leaves, channel>>
      BY <1>16 DEF Subscribed, Unsubscribed
    <2> QED
      BY <1>1, <1>2, <2>1, <2>2, <2>3 DEF VisitsInv
  <1>17. ASSUME NEW e, Sent(e)
         PROVE  \A w \in Visit : w > visits => channel'[w] = <<>>
    <2>1. \A w \in Visit : w # registered => channel'[w] = channel[w]
      BY <1>1, <1>17 DEF Sent
    <2> QED
      BY <1>1, <1>2, <2>1
  <1>18. ASSUME NEW r \in untold, Told(r) \/ CreateRoomFails(r) PROVE VisitsInv'
    <2>1. \A w \in Visit : w > visits => channel'[w] = <<>>
      BY <1>2, <1>17, <1>18 DEF Told, CreateRoomFails
    <2> QED
      BY <1>2, <1>18, <2>1 DEF VisitsInv, Told, CreateRoomFails
  <1>19. CASE BroadcastWaitUpdate
    <2>1. \A w \in Visit : w > visits => channel'[w] = <<>>
      BY <1>17, <1>19 DEF BroadcastWaitUpdate
    <2> QED
      BY <1>2, <1>19, <2>1 DEF VisitsInv, BroadcastWaitUpdate
  <1>20. CASE Taken
    BY <1>2, <1>20 DEF VisitsInv, Taken
  <1> QED
    BY <1>6, <1>7, <1>8, <1>9, <1>10, <1>11, <1>12, <1>13, <1>14, <1>15, <1>16, <1>18, <1>19, <1>20
    DEF AppNext, PlayerStep, AppStep, ServerStep

-----------------------------------------------------------------------------
LEMMA AppInvInit == AppInit => AppInv
  <1> SUFFICES ASSUME AppInit PROVE AppInv
    OBVIOUS
  <1>1. MaxJoins \in Nat /\ MaxStarts \in Nat /\ MaxWaits \in Nat /\ MaxFaults \in Nat
    BY AppAssumption DEF AppAssumption
  <1>2. AppTypeOK
    <2>1. <<>> \in Seq(1..0) /\ <<>> \in Seq(0..0) /\ DOMAIN <<>> = {} /\ Len(<<>>) = 0
      OBVIOUS
    <2>2. games \in Seq(1..rooms) /\ Len(games) <= MaxStarts /\ playing \subseteq DOMAIN games
      BY <1>1, <2>1 DEF AppInit
    <2>3. channel \in [Visit -> Seq(0..rooms)] /\ recorded \in [Visit -> Nat]
      BY <2>1 DEF AppInit
    <2>4. current \in 0..visits /\ visits \in 0..MaxJoins /\ rooms \in 0..MaxJoins
          /\ waits \in 0..MaxWaits /\ faults \in 0..MaxFaults
          /\ {foundRoom, gameRoom, result} \subseteq 0..rooms
      BY <1>1 DEF AppInit, None
    <2>5. calls \in [Visit -> {"none", "sent", "added", "done"}]
          /\ leaves \in [Visit -> {"none", "sent", "removed", "done"}]
          /\ streams \in [Visit -> {"none", "asked", "serving", "over"}]
      BY DEF AppInit
    <2> QED
      BY <2>2, <2>3, <2>4, <2>5 DEF AppInit, AppTypeOK
  <1>3. VisitsInv
    BY <1>1 DEF AppInit, VisitsInv, None
  <1>4. SeatedInv
    BY JoinedFacts DEF AppInit, SeatedInv
  <1> QED
    BY <1>2, <1>3, <1>4 DEF AppInv

LEMMA AppInvStep == AppInv /\ [AppNext]_appVars => AppInv'
  <1> SUFFICES ASSUME AppInv, [AppNext]_appVars PROVE AppInv'
    OBVIOUS
  <1>1. CASE AppNext
    BY <1>1, AppTypeStep, VisitsStep, SeatedStep DEF AppInv
  <1>2. CASE UNCHANGED appVars
    <2> USE <1>2 DEF appVars, matchVars, gameVars, statsVars, serverVars, historyVars
    <2>1. AppTypeOK'
      BY DEF AppInv, AppTypeOK
    <2>2. VisitsInv' /\ SeatedInv'
      BY DEF AppInv, VisitsInv, SeatedInv, Joined
    <2> QED
      BY <2>1, <2>2 DEF AppInv
  <1> QED
    BY <1>1, <1>2

LEMMA AppInvariance == AppSpec => []AppInv
  BY AppInvInit, AppInvStep, PTL DEF AppSpec

(* Every variable of the app and of its services keeps its type, for any    *)
(* number of visits, games, events and failures: there are never more rooms *)
(* than visits to the matchmaking screen, because every room takes a join   *)
(* of the player out of the pool (matchmaking_provider.dart:29-70,          *)
(* server.go:30-64).                                                        *)
THEOREM AppTypeCorrect == AppSpec => []AppTypeOK
  <1>1. AppInv => AppTypeOK
    BY DEF AppInv
  <1> QED
    BY <1>1, AppInvariance, PTL

-----------------------------------------------------------------------------
(* A room passes from the service to the app once: it is yet to be told, or *)
(* on its way, or the app has met it.                                       *)

Chosen(r) == \E k \in DOMAIN games : games[k] = r

Met(r) == foundRoom = r \/ Chosen(r)

(* No room is on its way twice. *)
DistinctInv ==
  \A v, w \in Visit : \A i \in 1..Len(channel[v]), j \in 1..Len(channel[w]) :
    channel[v][i] = channel[w][j] /\ channel[v][i] # WaitUpdate => v = w /\ i = j

OnceInv ==
  /\ \A r \in Nat \ {None} : /\ r \in untold => ~OnTheWay(r)
                             /\ Met(r) => r \notin untold /\ ~OnTheWay(r)
  /\ DistinctInv

(* Only the handling of an event can start a game. *)
LEMMA GamesStep ==
  ASSUME AppNext
  PROVE  \/ UNCHANGED <<games, gameStream>>
            /\ playing' \subseteq playing
            /\ (gameRoom' = gameRoom \/ gameRoom' = None)
            /\ (foundRoom' = foundRoom \/ foundRoom' = None)
         \/ \E v \in Visit : OnMatchEvent(v)
  <1> DEFINE Same == /\ UNCHANGED <<games, gameStream>>
                     /\ playing' \subseteq playing
                     /\ gameRoom' = gameRoom \/ gameRoom' = None
                     /\ foundRoom' = foundRoom \/ foundRoom' = None
  <1> USE DEF matchVars, gameVars
  <1>1. PlayerStep => Same
    BY DEF PlayerStep, EnterMatchmaking, Cancel, ShowProfile, ExitGame, LeaveResults, Reset
  <1>2. AppStep => Same \/ \E v \in Visit : OnMatchEvent(v)
    BY DEF AppStep, Subscribe, JoinFails, LeaveReplied, LeaveFails, MatchStreamFails, Navigate,
           OnRoundResult, OnQuestion, OnMatchEnd, GameStreamFails, RecordStats
  <1>3. ServerStep => Same
    BY DEF ServerStep, Added, Removed, Subscribed, Unsubscribed, Told, CreateRoomFails, Taken,
           BroadcastWaitUpdate
  <1> QED
    BY <1>1, <1>2, <1>3 DEF AppNext

LEMMA HeadIsFirst ==
  ASSUME NEW S, NEW s \in Seq(S), s # <<>>
  PROVE  Head(s) \in S /\ Head(s) = s[1] /\ 1 \in 1..Len(s)
  <1>1. Len(s) \in Nat /\ Len(s) # 0
    OBVIOUS
  <1> QED
    BY <1>1

(* ... which takes the event from its channel. *)
LEMMA EventFacts ==
  ASSUME AppInv, NEW v \in Visit, OnMatchEvent(v)
  PROVE  /\ channel[v] # <<>> /\ channel \in [Visit -> Seq(0..rooms)]
         /\ channel' = [channel EXCEPT ![v] = Tail(@)]
         /\ Head(channel[v]) \in 0..rooms /\ OnTheWay(Head(channel[v]))
         /\ \/ Head(channel[v]) = WaitUpdate /\ UNCHANGED <<status, foundRoom>>
               /\ nudged' = (nudged \/ (status = "found" /\ screen = "matchmaking"))
            \/ Head(channel[v]) \in 1..rooms /\ status' = "found"
               /\ foundRoom' = Head(channel[v]) /\ nudged' = nudged
         /\ \/ /\ screen = "matchmaking" /\ status' = "found" /\ startGame(foundRoom')
               /\ leaving' = leaving \cup {<<visits, foundRoom'>>}
            \/ ~(screen = "matchmaking" /\ status' = "found") /\ UNCHANGED <<gameVars, leaving>>
         /\ UNCHANGED <<screen, calls, leaves, hasTicket, current, listening, visits, statsVars,
                        serverVars, faults, strayed, hasty, lost>>
  <1>1. /\ channel[v] # <<>> /\ channel \in [Visit -> Seq(0..rooms)]
        /\ channel' = [channel EXCEPT ![v] = Tail(@)]
    BY DEF OnMatchEvent, AppInv, AppTypeOK
  <1>2. Head(channel[v]) \in 0..rooms /\ Head(channel[v]) = channel[v][1] /\ 1 \in 1..Len(channel[v])
    <2>1. channel[v] \in Seq(0..rooms) /\ channel[v] # <<>>
      BY <1>1
    <2> QED
      BY <2>1, HeadIsFirst
  <1>3. Head(channel[v]) # WaitUpdate => Head(channel[v]) \in 1..rooms
    BY <1>2 DEF WaitUpdate, None
  <1>4. OnTheWay(Head(channel[v]))
    BY <1>2 DEF OnTheWay
  <1>5. \/ Head(channel[v]) = WaitUpdate /\ UNCHANGED <<status, foundRoom>>
           /\ nudged' = (nudged \/ (status = "found" /\ screen = "matchmaking"))
        \/ Head(channel[v]) # WaitUpdate /\ status' = "found"
           /\ foundRoom' = Head(channel[v]) /\ nudged' = nudged
    BY Zenon DEF OnMatchEvent
  <1>6. \/ /\ screen = "matchmaking" /\ status' = "found" /\ startGame(foundRoom')
           /\ leaving' = leaving \cup {<<visits, foundRoom'>>}
        \/ ~(screen = "matchmaking" /\ status' = "found") /\ UNCHANGED <<gameVars, leaving>>
    BY Zenon DEF OnMatchEvent
  <1>7. UNCHANGED <<screen, calls, leaves, hasTicket, current, listening, visits, statsVars,
                    serverVars, faults, strayed, hasty, lost>>
    BY Zenon DEF OnMatchEvent
  <1> QED
    BY <1>1, <1>2, <1>3, <1>4, <1>5, <1>6, <1>7

LEMMA DistinctPlaces ==
  ASSUME DistinctInv, NEW v \in Visit, NEW w \in Visit,
         NEW i \in 1..Len(channel[v]), NEW j \in 1..Len(channel[w]),
         channel[v][i] = channel[w][j], channel[v][i] # WaitUpdate
  PROVE  v = w /\ i = j
  BY DEF DistinctInv

(* What is left in the channels after an event was taken. *)
LEMMA TailWay ==
  ASSUME AppInv, DistinctInv, NEW v \in Visit, OnMatchEvent(v)
  PROVE  /\ \A r \in Nat : OnTheWay(r)' => OnTheWay(r)
         /\ \A r \in Nat \ {None} : r = Head(channel[v]) => ~OnTheWay(r)'
         /\ DistinctInv'
  <1>1. /\ channel[v] # <<>> /\ channel \in [Visit -> Seq(0..rooms)]
        /\ channel' = [channel EXCEPT ![v] = Tail(@)]
    BY EventFacts
  (* The place in its channel where an event was before. *)
  <1> DEFINE was(w, i) == IF w = v THEN i + 1 ELSE i
  <1>2. ASSUME NEW w \in Visit, NEW i \in 1..Len(channel'[w])
        PROVE  was(w, i) \in 1..Len(channel[w]) /\ channel'[w][i] = channel[w][was(w, i)]
    BY <1>1, <1>2
  <1>3. \A w \in Visit : \A i, j \in Nat : was(w, i) = was(w, j) => i = j
    OBVIOUS
  <1>4. \A i \in Nat \ {0} : was(v, i) # 1
    OBVIOUS
  <1>5. 1 \in 1..Len(channel[v]) /\ Head(channel[v]) = channel[v][1]
    BY <1>1
  <1> HIDE DEF was
  <1>6. ASSUME NEW r \in Nat, OnTheWay(r)' PROVE OnTheWay(r)
    BY <1>2, <1>6 DEF OnTheWay
  <1>7. ASSUME NEW r \in Nat \ {None}, r = Head(channel[v]), OnTheWay(r)' PROVE FALSE
    <2>1. PICK w \in Visit : \E i \in 1..Len(channel'[w]) : channel'[w][i] = r
      BY <1>7 DEF OnTheWay
    <2>2. PICK i \in 1..Len(channel'[w]) : channel'[w][i] = r
      BY <2>1
    <2>3. was(w, i) \in 1..Len(channel[w]) /\ channel[w][was(w, i)] = r
      BY <1>2, <2>2
    <2>4. w = v /\ was(w, i) = 1
      BY <1>5, <1>7, <2>3 DEF DistinctInv, WaitUpdate
    <2> QED
      BY <1>4, <2>2, <2>4
  <1>8. ASSUME NEW w \in Visit, NEW x \in Visit,
               NEW i \in 1..Len(channel'[w]), NEW j \in 1..Len(channel'[x]),
               channel'[w][i] = channel'[x][j], channel'[w][i] # WaitUpdate
        PROVE  w = x /\ i = j
    <2> DEFINE k == was(w, i)
               l == was(x, j)
    <2>0. /\ k \in 1..Len(channel[w]) /\ l \in 1..Len(channel[x])
          /\ channel[w][k] = channel[x][l] /\ channel[w][k] # WaitUpdate
      BY <1>2, <1>8
    <2> HIDE DEF k, l
    <2>00. w = x /\ k = l
      BY <2>0, DistinctPlaces
    <2>1. w = x /\ was(w, i) = was(x, j)
      BY <2>00 DEF k, l
    <2> QED
      BY <1>3, <2>1
  <1>9. DistinctInv'
    BY <1>8 DEF DistinctInv, WaitUpdate, None
  <1> QED
    BY <1>6, <1>7, <1>9

(* What is in the channels after something was sent. *)
LEMMA SentWay ==
  ASSUME AppInv, DistinctInv, NEW e \in 0..rooms, Sent(e), e = WaitUpdate \/ ~OnTheWay(e)
  PROVE  /\ \A r \in Nat \ {None} : OnTheWay(r)' => OnTheWay(r) \/ r = e
         /\ DistinctInv'
  <1>1. channel \in [Visit -> Seq(0..rooms)] /\ registered \in {None} \cup Visit
    BY DEF AppInv, AppTypeOK
  <1>2. CASE channel' = channel
    BY <1>2 DEF OnTheWay, DistinctInv
  <1>3. CASE channel' # channel
    <2>1. channel' = [channel EXCEPT ![registered] = Append(@, e)] /\ registered \in Visit
      BY <1>1, <1>3 DEF Sent
    <2>2. ASSUME NEW w \in Visit, NEW i \in 1..Len(channel'[w])
          PROVE  \/ i \in 1..Len(channel[w]) /\ channel'[w][i] = channel[w][i]
                 \/ w = registered /\ i = Len(channel[w]) + 1 /\ channel'[w][i] = e
      <3>1. w # registered => channel'[w] = channel[w]
        BY <1>1, <2>1
      <3>2. CASE w = registered
        <4>1. channel'[w] = Append(channel[w], e) /\ channel[w] \in Seq(0..rooms)
          BY <1>1, <2>1, <3>2
        <4> QED
          BY <2>2, <3>2, <4>1
      <3> QED
        BY <2>2, <3>1, <3>2
    <2>3. \A r \in Nat \ {None} : OnTheWay(r)' => OnTheWay(r) \/ r = e
      BY <2>2 DEF OnTheWay
    <2>4. ASSUME NEW w \in Visit, NEW x \in Visit,
                 NEW i \in 1..Len(channel'[w]), NEW j \in 1..Len(channel'[x]),
                 channel'[w][i] = channel'[x][j], channel'[w][i] # WaitUpdate
          PROVE  w = x /\ i = j
      <3>1. CASE i \in 1..Len(channel[w]) /\ channel'[w][i] = channel[w][i]
                 /\ j \in 1..Len(channel[x]) /\ channel'[x][j] = channel[x][j]
        <4>1. channel[w][i] = channel[x][j] /\ channel[w][i] # WaitUpdate
          BY <2>4, <3>1
        <4>2. i \in 1..Len(channel[w]) /\ j \in 1..Len(channel[x])
          BY <3>1
        <4> QED
          BY <4>1, <4>2, DistinctPlaces
      <3>2. ASSUME NEW y \in Visit, NEW k \in 1..Len(channel[y]), channel[y][k] = e
            PROVE  e = WaitUpdate
        BY <3>2 DEF OnTheWay
      <3> QED
        BY <2>2, <2>4, <3>1, <3>2
    <2>5. DistinctInv'
      BY <2>4 DEF DistinctInv, WaitUpdate, None
    <2> QED
      BY <2>3, <2>5
  <1> QED
    BY <1>1, <1>2, <1>3

(* A room goes one way. *)
LEMMA WayStep ==
  ASSUME AppInv, OnceInv, AppNext
  PROVE  /\ \A r \in untold' : r \in untold \/ r = rooms + 1
         /\ \A r \in Nat \ {None} : OnTheWay(r)' => OnTheWay(r) \/ (r \in untold /\ r \notin untold')
         /\ \A r \in Nat \ {None} : Met(r)' => Met(r) \/ (OnTheWay(r) /\ ~OnTheWay(r)' /\ r \notin untold')
         /\ DistinctInv'
  <1>1. DistinctInv /\ rooms \in Nat /\ None = 0
    BY AppTypeFacts DEF OnceInv, None
  <1>2. \A r \in untold' : r \in untold \/ r = rooms + 1
    <2> USE DEF serverVars
    <2>1. PlayerStep \/ AppStep => untold' = untold
      BY DEF PlayerStep, EnterMatchmaking, Cancel, ShowProfile, ExitGame, LeaveResults,
             AppStep, Subscribe, JoinFails, LeaveReplied, LeaveFails, OnMatchEvent,
             MatchStreamFails, Navigate, OnRoundResult, OnQuestion, OnMatchEnd, GameStreamFails,
             RecordStats
    <2>2. ServerStep => \A r \in untold' : r \in untold \/ r = rooms + 1
      BY DEF ServerStep, Added, Removed, Subscribed, Unsubscribed, Told, CreateRoomFails, Taken,
             BroadcastWaitUpdate
    <2> QED
      BY <2>1, <2>2 DEF AppNext
  <1>3. ASSUME UNCHANGED channel
        PROVE  DistinctInv' /\ \A r \in Nat \ {None} : OnTheWay(r)' <=> OnTheWay(r)
    BY <1>1, <1>3 DEF DistinctInv, OnTheWay, WaitUpdate
  <1>4. ASSUME UNCHANGED games, foundRoom' = foundRoom \/ foundRoom' = None
        PROVE  \A r \in Nat \ {None} : Met(r)' => Met(r)
    BY <1>4 DEF Met, Chosen
  <1>5. ASSUME NEW v \in Visit, OnMatchEvent(v)
        PROVE  /\ \A r \in Nat \ {None} : OnTheWay(r)' => OnTheWay(r)
               /\ \A r \in Nat \ {None} :
                    Met(r)' => Met(r) \/ (OnTheWay(r) /\ ~OnTheWay(r)' /\ r \notin untold')
               /\ DistinctInv'
    <2>1. /\ \A r \in Nat : OnTheWay(r)' => OnTheWay(r)
          /\ \A r \in Nat \ {None} : r = Head(channel[v]) => ~OnTheWay(r)'
          /\ DistinctInv'
      BY <1>1, <1>5, TailWay
    <2>2. untold' = untold /\ OnTheWay(Head(channel[v]))
      BY <1>5, EventFacts DEF serverVars
    <2>3. foundRoom' = foundRoom \/ foundRoom' = Head(channel[v])
      BY <1>5, EventFacts
    <2>4. games' = games \/ games' = Append(games, foundRoom')
      BY <1>5, EventFacts DEF startGame, gameVars
    <2>5. ASSUME NEW r \in Nat \ {None}, Met(r)' PROVE Met(r) \/ r = Head(channel[v])
      <3>1. foundRoom' = r \/ Chosen(r)'
        BY <2>5 DEF Met
      <3>2. Chosen(r)' => Chosen(r) \/ foundRoom' = r
        <4>1. games \in Seq(1..rooms)
          BY AppTypeFacts
        <4> QED
          BY <2>4, <4>1 DEF Chosen
      <3> QED
        BY <2>3, <3>1, <3>2 DEF Met
    <2>6. \A r \in Nat \ {None} : r = Head(channel[v]) => r \notin untold
      BY <2>2 DEF OnceInv
    <2> QED
      BY <2>1, <2>2, <2>5, <2>6
  <1>6. ASSUME NEW r \in untold, Told(r)
        PROVE  /\ DistinctInv'
               /\ \A s \in Nat \ {None} : OnTheWay(s)' => OnTheWay(s) \/ (s \in untold /\ s \notin untold')
    <2>1. r \in 1..rooms /\ ~OnTheWay(r) /\ untold' = untold \ {r} /\ Sent(r)
      BY <1>1, <1>6 DEF Told, OnceInv, AppInv, AppTypeOK
    <2> QED
      BY <1>1, <2>1, SentWay
  <1>7. ASSUME BroadcastWaitUpdate
        PROVE  DistinctInv' /\ \A s \in Nat \ {None} : OnTheWay(s)' => OnTheWay(s)
    <2>1. Sent(WaitUpdate) /\ WaitUpdate \in 0..rooms
      BY <1>1, <1>7 DEF BroadcastWaitUpdate, WaitUpdate
    <2> QED
      BY <1>1, <2>1, SentWay DEF WaitUpdate
  <1>8. \/ \E v \in Visit : OnMatchEvent(v)
        \/ \E r \in untold : Told(r)
        \/ BroadcastWaitUpdate
        \/ UNCHANGED channel
    <2>1. PlayerStep => UNCHANGED channel
      BY DEF PlayerStep, EnterMatchmaking, Cancel, ShowProfile, ExitGame, LeaveResults
    <2>2. AppStep => UNCHANGED channel \/ \E v \in Visit : OnMatchEvent(v)
      BY DEF AppStep, Subscribe, JoinFails, LeaveReplied, LeaveFails, MatchStreamFails, Navigate,
             OnRoundResult, OnQuestion, OnMatchEnd, GameStreamFails, RecordStats
    <2>3. ServerStep => UNCHANGED channel \/ (\E r \in untold : Told(r)) \/ BroadcastWaitUpdate
      BY DEF ServerStep, Added, Removed, Subscribed, Unsubscribed, CreateRoomFails, Taken
    <2> QED
      BY <2>1, <2>2, <2>3 DEF AppNext
  <1>9. (\E v \in Visit : OnMatchEvent(v)) \/ \A r \in Nat \ {None} : Met(r)' => Met(r)
    BY <1>4, GamesStep
  <1> QED
    BY <1>2, <1>3, <1>5, <1>6, <1>7, <1>8, <1>9

LEMMA OnceStep ==
  ASSUME AppInv, OnceInv, AppNext
  PROVE  OnceInv'
  <1>1. rooms \in Nat /\ foundRoom \in 0..rooms /\ games \in Seq(1..rooms)
        /\ channel \in [Visit -> Seq(0..rooms)]
    BY AppTypeFacts DEF AppInv, AppTypeOK
  <1>2. ~Met(rooms + 1) /\ ~OnTheWay(rooms + 1)
    BY <1>1 DEF Met, Chosen, OnTheWay
  <1>3. ASSUME NEW r \in Nat \ {None}
        PROVE  /\ r \in untold' => ~OnTheWay(r)'
               /\ Met(r)' => r \notin untold' /\ ~OnTheWay(r)'
    BY <1>2, WayStep DEF OnceInv
  <1> QED
    BY <1>3, WayStep DEF OnceInv, None

-----------------------------------------------------------------------------
(* The game on the screen is the last one that was started, and a result    *)
(* stands for a match that is over.                                         *)
GameInv ==
  /\ gameRoom # None =>
       gameStream = Len(games) /\ gameStream \in DOMAIN games /\ games[gameStream] = gameRoom
  /\ result # None => result \in over /\ gameRoom # None /\ Chosen(result)

(* What is certain of a match that has been counted: it was played, cannot  *)
(* be found again, is neither the game nor the result on the screen once    *)
(* the results screen has counted it, and has no stream that could end it.  *)
Settled(r) ==
  /\ recorded[r] = 1
  /\ Chosen(r)
  /\ status = "found" /\ foundRoom = r => screen # "matchmaking"
  /\ gameRoom = r \/ result = r => screen = "results" /\ noted
  /\ \A k \in DOMAIN games : games[k] = r => ~Served(k)

CountedInv == \A r \in Visit : recorded[r] # 0 => Settled(r)

CountingInv == AppInv /\ OnceInv /\ GameInv /\ CountedInv

LEMMA ResultStep ==
  ASSUME AppNext
  PROVE  \/ UNCHANGED result /\ over \subseteq over' /\ (gameRoom' = gameRoom \/ result' = None)
         \/ result' = None
         \/ \E k \in DOMAIN games : OnMatchEnd(k)
  <1> USE DEF gameVars, serverVars
  <1>1. PlayerStep => (UNCHANGED <<result, over, gameRoom>> \/ result' = None)
    BY DEF PlayerStep, EnterMatchmaking, Cancel, ShowProfile, ExitGame, LeaveResults, Reset
  <1>2. AppStep => \/ UNCHANGED <<result, over, gameRoom>>
                   \/ result' = None
                   \/ \E k \in DOMAIN games : OnMatchEnd(k)
    BY DEF AppStep, Subscribe, JoinFails, LeaveReplied, LeaveFails, OnMatchEvent, startGame,
           MatchStreamFails, Navigate, OnRoundResult, OnQuestion, GameStreamFails, RecordStats
  <1>3. ServerStep => UNCHANGED <<result, over, gameRoom>>
    BY DEF ServerStep, Added, Removed, Subscribed, Unsubscribed, Told, CreateRoomFails, Taken,
           BroadcastWaitUpdate
  <1> QED
    BY <1>1, <1>2, <1>3 DEF AppNext

(* A game that was chosen stays in the list of games. *)
LEMMA ChosenStays ==
  ASSUME AppInv, AppNext, NEW r, Chosen(r)
  PROVE  Chosen(r)'
  <1>1. games' = games \/ games' = Append(games, foundRoom')
    BY GamesStep, EventFacts DEF startGame, gameVars
  <1>2. games \in Seq(1..rooms)
    BY AppTypeFacts
  <1> QED
    BY <1>1, <1>2 DEF Chosen

LEMMA GameStep ==
  ASSUME AppInv, GameInv, AppNext
  PROVE  GameInv'
  <1>1. games \in Seq(1..rooms) /\ rooms \in Nat /\ None = 0
    BY AppTypeFacts DEF None
  <1>2. gameRoom' # None => /\ gameStream' = Len(games') /\ gameStream' \in DOMAIN games'
                            /\ games'[gameStream'] = gameRoom'
    <2>1. CASE UNCHANGED <<games, gameStream>> /\ (gameRoom' = gameRoom \/ gameRoom' = None)
      BY <2>1 DEF GameInv
    <2>2. ASSUME NEW v \in Visit, OnMatchEvent(v), ~UNCHANGED <<games, gameStream, gameRoom>>
          PROVE  /\ gameStream' = Len(games') /\ gameStream' \in DOMAIN games'
                 /\ games'[gameStream'] = gameRoom'
      <3>1. startGame(foundRoom')
        BY <2>2, EventFacts DEF gameVars
      <3>2. games' = Append(games, gameRoom') /\ gameStream' = Len(games')
        BY <3>1 DEF startGame
      <3> QED
        BY <1>1, <3>2
    <2>3. ASSUME NEW v \in Visit, OnMatchEvent(v)
          PROVE  UNCHANGED <<games, gameStream, gameRoom>> \/ ~UNCHANGED <<games, gameStream, gameRoom>>
      OBVIOUS
    <2> QED
      BY <2>1, <2>2, GamesStep DEF GameInv
  <1>3. ASSUME NEW r, r = result', r # None
        PROVE  r \in over' /\ gameRoom' # None /\ Chosen(r)'
    <2>1. CASE UNCHANGED result /\ over \subseteq over' /\ (gameRoom' = gameRoom \/ result' = None)
      <3>1. r \in over /\ gameRoom # None /\ Chosen(r)
        BY <1>3, <2>1 DEF GameInv
      <3> QED
        BY <1>3, <2>1, <3>1, ChosenStays
    <2>2. ASSUME NEW k \in DOMAIN games, OnMatchEnd(k)
          PROVE  r \in over' /\ gameRoom' # None /\ Chosen(r)'
      <3>1. games[k] = r /\ over' = over \cup {games[k]} /\ games' = games
            /\ gameRoom' = gameRoom /\ gameRoom # None
        BY <1>3, <2>2 DEF OnMatchEnd
      <3> QED
        BY <3>1 DEF Chosen
    <2> QED
      BY <1>3, <2>1, <2>2, ResultStep
  <1>4. result' # None => result' \in over' /\ gameRoom' # None /\ Chosen(result)'
    BY <1>3 DEF Chosen
  <1> QED
    BY <1>2, <1>4 DEF GameInv, None

-----------------------------------------------------------------------------
(* A match that was counted stays settled.                                  *)

(* It cannot be started again, ... *)
LEMMA SettledNotStarted ==
  ASSUME AppInv, OnceInv, NEW r \in Visit, Settled(r), NEW v \in Visit, OnMatchEvent(v)
  PROVE  /\ Head(channel[v]) # r
         /\ screen = "matchmaking" /\ status' = "found" => foundRoom' # r
  <1>1. r \in Nat \ {None}
    BY DEF Visit, None
  <1>2. Head(channel[v]) # r
    BY <1>1, EventFacts DEF OnceInv, Met, Settled
  <1> QED
    BY <1>2, EventFacts DEF Settled

(* ... no stream of it is served again, ...                                 *)
LEMMA SettledNotServed ==
  ASSUME AppInv, OnceInv, AppNext, NEW r \in Visit, Settled(r),
         NEW k \in DOMAIN games', games'[k] = r
  PROVE  ~Served(k)'
  <1>1. games \in Seq(1..rooms)
    BY AppTypeFacts
  <1>2. over \subseteq over'
    <2> USE DEF serverVars
    <2>1. PlayerStep \/ ServerStep => over' = over
      BY DEF PlayerStep, EnterMatchmaking, Cancel, ShowProfile, ExitGame, LeaveResults,
             ServerStep, Added, Removed, Subscribed, Unsubscribed, Told, CreateRoomFails, Taken,
             BroadcastWaitUpdate
    <2>2. AppStep => over \subseteq over'
      BY DEF AppStep, Subscribe, JoinFails, LeaveReplied, LeaveFails, OnMatchEvent,
             MatchStreamFails, Navigate, OnRoundResult, OnQuestion, OnMatchEnd, GameStreamFails,
             RecordStats
    <2> QED
      BY <2>1, <2>2 DEF AppNext
  <1>3. ASSUME UNCHANGED games, playing' \subseteq playing PROVE ~Served(k)'
    <2>1. k \in DOMAIN games /\ games[k] = r /\ ~Served(k)
      BY <1>3 DEF Settled
    <2> QED
      BY <1>2, <1>3, <2>1 DEF Served
  <1>4. ASSUME NEW v \in Visit, OnMatchEvent(v), startGame(foundRoom'), foundRoom' # r
        PROVE  ~Served(k)'
    <2>1. /\ games' = Append(games, foundRoom') /\ DOMAIN games' = 1..(Len(games) + 1)
          /\ playing' = playing \cup {Len(games) + 1}
      <3>1. games' = Append(games, foundRoom') /\ gameStream' = Len(games')
            /\ playing' = playing \cup {gameStream'}
        BY <1>4 DEF startGame
      <3>2. Len(games') = Len(games) + 1 /\ DOMAIN games' = 1..(Len(games) + 1)
        BY <1>1, <3>1
      <3> QED
        BY <3>1, <3>2
    <2>2. \A j \in DOMAIN games : j \in DOMAIN games' /\ games'[j] = games[j]
      BY <1>1, <2>1
    <2>3. k \in DOMAIN games /\ games[k] = r /\ k # Len(games) + 1
      BY <1>1, <1>4, <2>1
    <2>4. ~Served(k)
      BY <2>3 DEF Settled
    <2> QED
      BY <1>2, <2>1, <2>2, <2>3, <2>4 DEF Served
  <1>5. ASSUME NEW v \in Visit, OnMatchEvent(v) PROVE ~Served(k)'
    <2>1. CASE screen = "matchmaking" /\ status' = "found"
      BY <1>4, <1>5, <2>1, EventFacts, SettledNotStarted
    <2>2. CASE ~(screen = "matchmaking" /\ status' = "found")
      BY <1>3, <1>5, <2>2, EventFacts DEF gameVars
    <2> QED
      BY <2>1, <2>2
  <1> QED
    BY <1>3, <1>5, GamesStep

(* ... and the screens do not come back to it.                              *)
LEMMA SettledStays ==
  ASSUME CountingInv, AppNext, NEW r \in Visit, Settled(r), recorded'[r] = recorded[r]
  PROVE  Settled(r)'
  <1>1. AppInv /\ OnceInv
    BY DEF CountingInv
  <1>2. Chosen(r)' /\ \A k \in DOMAIN games' : games'[k] = r => ~Served(k)'
    BY <1>1, ChosenStays, SettledNotServed DEF Settled
  <1>3. r # None
    BY DEF Visit, None
  <1> DEFINE Shows == /\ status' = "found" /\ foundRoom' = r => screen' # "matchmaking"
                      /\ gameRoom' = r \/ result' = r => screen' = "results" /\ noted'
  <1> USE DEF matchVars, gameVars, statsVars
  <1>4. /\ status = "found" /\ foundRoom = r => screen # "matchmaking"
        /\ gameRoom = r \/ result = r => screen = "results" /\ noted
    BY DEF Settled
  <1>5. PlayerStep => Shows
    <2>1. EnterMatchmaking => Shows
      BY <1>4 DEF EnterMatchmaking
    <2>2. Cancel \/ ShowProfile => Shows
      BY <1>4 DEF Cancel, ShowProfile
    <2>3. ExitGame \/ LeaveResults => Shows
      BY <1>3 DEF ExitGame, LeaveResults, Reset
    <2> QED
      BY <2>1, <2>2, <2>3 DEF PlayerStep
  <1>6. AppStep => Shows
    <2>1. ASSUME NEW v \in Visit,
                 Subscribe(v) \/ JoinFails(v) \/ LeaveReplied(v) \/ LeaveFails(v) \/ MatchStreamFails(v)
          PROVE  Shows
      BY <1>4, <2>1 DEF Subscribe, JoinFails, LeaveReplied, LeaveFails, MatchStreamFails
    <2>2. ASSUME NEW v \in Visit, OnMatchEvent(v) PROVE Shows
      <3>1. /\ screen = "matchmaking" /\ status' = "found" => foundRoom' # r
            /\ UNCHANGED <<screen, noted>>
        BY <1>1, <2>2, SettledNotStarted, EventFacts
      <3>2. \/ startGame(foundRoom') /\ screen = "matchmaking" /\ status' = "found"
            \/ UNCHANGED <<gameRoom, result>>
        BY <1>1, <2>2, EventFacts
      <3> QED
        BY <1>3, <1>4, <3>1, <3>2 DEF startGame
    <2>3. ASSUME NEW v \in Visit, NEW s \in 1..rooms, Navigate(v, s) PROVE Shows
      BY <1>4, <2>3 DEF Navigate
    <2>4. ASSUME NEW k \in DOMAIN games, OnRoundResult(k) \/ OnQuestion(k) \/ GameStreamFails(k)
          PROVE  Shows
      BY <1>4, <2>4 DEF OnRoundResult, OnQuestion, GameStreamFails
    <2>5. ASSUME NEW k \in DOMAIN games, OnMatchEnd(k) PROVE Shows
      <3>1. games[k] # r
        BY <2>5 DEF Settled, OnMatchEnd
      <3> QED
        BY <1>3, <1>4, <2>5, <3>1 DEF OnMatchEnd
    <2>6. RecordStats => Shows
      BY <1>4 DEF RecordStats
    <2> QED
      BY <2>1, <2>2, <2>3, <2>4, <2>5, <2>6 DEF AppStep
  <1>7. ServerStep => Shows
    BY <1>4 DEF ServerStep, Added, Removed, Subscribed, Unsubscribed, Told, CreateRoomFails, Taken,
           BroadcastWaitUpdate
  <1>8. recorded'[r] = 1
    BY DEF Settled
  <1> QED
    BY <1>2, <1>5, <1>6, <1>7, <1>8 DEF AppNext, Settled

(* The two steps that count a match settle it.                              *)
LEMMA ExitSettles ==
  ASSUME CountingInv, ExitGame, recorded' # recorded
  PROVE  /\ gameRoom \in Visit /\ recorded' = [recorded EXCEPT ![gameRoom] = @ + 1]
         /\ recorded[gameRoom] = 0
         /\ \A r \in Visit : r = gameRoom => Settled(r)'
  <1>1. /\ screen = "game" /\ gameRoom # None /\ screen' = "profile"
        /\ gameRoom' = None /\ result' = None /\ status' = "idle"
        /\ playing' = playing \ {gameStream} /\ games' = games
        /\ recorded' = [recorded EXCEPT ![gameRoom] = @ + 1]
    BY DEF ExitGame, Reset, recordMatch
  <1>2. gameRoom \in Visit /\ recorded \in [Visit -> Nat] /\ games \in Seq(1..rooms)
    BY <1>1, AppTypeFacts DEF CountingInv, AppInv, AppTypeOK, None
  <1>3. recorded[gameRoom] = 0
    BY <1>1, <1>2 DEF CountingInv, CountedInv, Settled
  <1>4. recorded'[gameRoom] = 1
    BY <1>1, <1>2, <1>3
  <1>5. gameStream = Len(games) /\ gameStream \in DOMAIN games /\ games[gameStream] = gameRoom
    BY <1>1 DEF CountingInv, GameInv
  <1>6. ASSUME NEW k \in DOMAIN games', games'[k] = gameRoom PROVE ~Served(k)'
    <2>1. CASE k = gameStream
      BY <1>1, <2>1 DEF Served
    <2>2. CASE k # gameStream
      <3>1. ~(gameStream <= k)
        BY <1>1, <1>2, <1>5, <2>2
      <3> QED
        BY <1>1, <1>5, <1>6, <3>1 DEF Served
    <2> QED
      BY <2>1, <2>2
  <1>7. ASSUME NEW r \in Visit, r = gameRoom PROVE Settled(r)'
    BY <1>1, <1>4, <1>5, <1>6, <1>7 DEF Settled, Chosen, None, Visit
  <1> QED
    BY <1>1, <1>2, <1>3, <1>7

LEMMA ResultsSettle ==
  ASSUME CountingInv, RecordStats
  PROVE  /\ result \in Visit /\ recorded' = [recorded EXCEPT ![result] = @ + 1]
         /\ recorded[result] = 0
         /\ \A r \in Visit : r = result => Settled(r)'
  <1>1. /\ screen = "results" /\ ~noted /\ result # None /\ noted'
        /\ UNCHANGED <<screen, matchVars, gameVars, over>>
        /\ recorded' = [recorded EXCEPT ![result] = @ + 1]
    BY DEF RecordStats, recordMatch, serverVars
  <1>2. result \in Visit /\ recorded \in [Visit -> Nat] /\ games \in Seq(1..rooms)
    <2>1. result \in 0..rooms /\ 1..rooms \subseteq Visit /\ games \in Seq(1..rooms) /\ result # 0
      BY <1>1, AppTypeFacts DEF CountingInv, None
    <2>2. recorded \in [Visit -> Nat]
      BY DEF CountingInv, AppInv, AppTypeOK
    <2> QED
      BY <2>1, <2>2
  <1>3. recorded[result] = 0
    BY <1>1, <1>2 DEF CountingInv, CountedInv, Settled
  <1>4. recorded'[result] = 1
    BY <1>1, <1>2, <1>3
  <1>5. result \in over /\ Chosen(result)
    BY <1>1 DEF CountingInv, GameInv
  <1>6. ASSUME NEW k \in DOMAIN games', games'[k] = result PROVE ~Served(k)'
    BY <1>1, <1>5, <1>6 DEF Served, gameVars
  <1>7. ASSUME NEW r \in Visit, r = result PROVE Settled(r)'
    <2>1. Chosen(r)'
      BY <1>1, <1>5, <1>7 DEF Chosen, gameVars
    <2>2. screen' = "results"
      BY <1>1
    <2> QED
      BY <1>1, <1>4, <1>6, <1>7, <2>1, <2>2 DEF Settled
  <1> QED
    BY <1>1, <1>2, <1>3, <1>7

LEMMA CountedStep ==
  ASSUME CountingInv, AppNext
  PROVE  CountedInv'
  <1>1. recorded \in [Visit -> Nat]
    BY DEF CountingInv, AppInv, AppTypeOK
  <1>2. ASSUME NEW s \in Visit, recorded' = [recorded EXCEPT ![s] = @ + 1],
               \A r \in Visit : r = s => Settled(r)'
        PROVE  CountedInv'
    <2>1. ASSUME NEW r \in Visit, recorded'[r] # 0 PROVE Settled(r)'
      <3>1. CASE r = s
        BY <1>2, <3>1
      <3>2. CASE r # s
        <4>1. recorded'[r] = recorded[r] /\ Settled(r)
          BY <1>1, <1>2, <2>1, <3>2 DEF CountingInv, CountedInv
        <4> QED
          BY <4>1, SettledStays
      <3> QED
        BY <3>1, <3>2
    <2> QED
      BY <2>1 DEF CountedInv
  <1>3. CASE recorded' = recorded
    BY <1>3, SettledStays DEF CountingInv, CountedInv
  <1>4. CASE ExitGame /\ recorded' # recorded
    BY <1>2, <1>4, ExitSettles
  <1>5. CASE RecordStats
    BY <1>2, <1>5, ResultsSettle
  <1>6. ExitGame \/ RecordStats \/ recorded' = recorded
    <2> USE DEF statsVars
    <2>1. PlayerStep => ExitGame \/ recorded' = recorded
      BY DEF PlayerStep, EnterMatchmaking, Cancel, ShowProfile, LeaveResults
    <2>2. AppStep => RecordStats \/ recorded' = recorded
      BY DEF AppStep, Subscribe, JoinFails, LeaveReplied, LeaveFails, OnMatchEvent,
             MatchStreamFails, Navigate, OnRoundResult, OnQuestion, OnMatchEnd, GameStreamFails
    <2>3. ServerStep => recorded' = recorded
      BY DEF ServerStep, Added, Removed, Subscribed, Unsubscribed, Told, CreateRoomFails, Taken,
             BroadcastWaitUpdate
    <2> QED
      BY <2>1, <2>2, <2>3 DEF AppNext
  <1> QED
    BY <1>3, <1>4, <1>5, <1>6

LEMMA CountingInvInit == AppInit => CountingInv
  <1> SUFFICES ASSUME AppInit PROVE CountingInv
    OBVIOUS
  <1>1. AppInv
    BY AppInvInit
  <1>2. /\ games = <<>> /\ untold = {} /\ foundRoom = None /\ gameRoom = None /\ result = None
        /\ \A v \in Visit : channel[v] = <<>> /\ recorded[v] = 0
    BY DEF AppInit
  <1>3. DOMAIN games = {} /\ \A v \in Visit : 1..Len(channel[v]) = {}
    BY <1>2
  <1>4. OnceInv
    BY <1>2, <1>3 DEF OnceInv, Met, Chosen, OnTheWay, DistinctInv
  <1>5. GameInv /\ CountedInv
    BY <1>2 DEF GameInv, CountedInv
  <1> QED
    BY <1>1, <1>4, <1>5 DEF CountingInv

(* Whatever screens the player goes through, and whatever fails, no match   *)
(* is counted twice in the statistics: exiting a game ends the only stream  *)
(* of it that is served, and a result is counted at the end of its match    *)
(* (user_stats_provider.dart:38-76, gameplay_screen.dart:42-60,             *)
(* results_screen.dart:25-45).                                              *)
THEOREM NoMatchIsCountedTwice == AppSpec => []CountedOnce
  <1>1. AppInit => CountingInv
    BY CountingInvInit
  <1>2. ASSUME CountingInv, [AppNext]_appVars PROVE CountingInv'
    <2>1. CASE AppNext
      <3>1. AppInv' /\ OnceInv' /\ GameInv'
        BY <1>2, <2>1, AppInvStep, OnceStep, GameStep DEF CountingInv
      <3> QED
        BY <1>2, <2>1, <3>1, CountedStep DEF CountingInv
    <2>2. CASE UNCHANGED appVars
      <3> USE <2>2 DEF appVars, matchVars, gameVars, statsVars, serverVars
      <3>1. AppInv'
        BY <1>2, AppInvStep DEF CountingInv
      <3>2. OnceInv'
        BY <1>2 DEF CountingInv, OnceInv, Met, Chosen, OnTheWay, DistinctInv, WaitUpdate
      <3>3. GameInv' /\ CountedInv'
        BY <1>2 DEF CountingInv, GameInv, CountedInv, Settled, Chosen, Served
      <3> QED
        BY <3>1, <3>2, <3>3 DEF CountingInv
    <2> QED
      BY <1>2, <2>1, <2>2
  <1>3. CountingInv => CountedOnce
    <2> SUFFICES ASSUME CountingInv, NEW r \in Visit PROVE recorded[r] <= 1
      BY DEF CountedOnce
    <2>1. recorded[r] \in Nat
      BY DEF CountingInv, AppInv, AppTypeOK
    <2>2. recorded[r] # 0 => recorded[r] = 1
      BY DEF CountingInv, CountedInv, Settled
    <2> QED
      BY <2>1, <2>2
  <1> QED
    BY <1>1, <1>2, <1>3, PTL DEF AppSpec

-----------------------------------------------------------------------------
(* The ticket of a player who goes from matchmaking to the game only.       *)

(* The screen is about to leave for a game. *)
Begun == \E p \in leaving : p[1] = visits

Coming == \E r \in Nat \ {None} : OnTheWay(r)

(* His one ticket is in a call, in the pool, in a room he is yet to be told *)
(* of, or in an event; when it has been used there is none.                 *)
TicketInv ==
  ~strayed /\ ~nudged =>
    /\ \A v \in Visit : calls[v] = "sent" => v = visits /\ ~waiting /\ untold = {} /\ ~Coming
    /\ waiting => untold = {} /\ ~Coming
    /\ untold # {} => ~Coming
    /\ \A r, s \in untold : r = s
    /\ \A r, s \in Nat \ {None} : OnTheWay(r) /\ OnTheWay(s) => r = s
    /\ screen # "matchmaking" \/ Begun =>
         (\A v \in Visit : calls[v] # "sent") /\ ~waiting /\ untold = {} /\ ~Coming

(* There is no stream of a game before the ticket is used, and then only    *)
(* that of the game that was started.                                       *)
StreamInv ==
  ~strayed /\ ~nudged =>
    /\ playing \subseteq {gameStream}
    /\ playing # {} => gameRoom # None
    /\ screen = "profile" \/ (screen = "matchmaking" /\ ~Begun) => playing = {}

SteadyInv == AppInv /\ OnceInv /\ GameInv /\ TicketInv /\ StreamInv

(* Who has not strayed yet had not strayed before. *)
LEMMA HistoryGrows ==
  ASSUME AppNext
  PROVE  /\ ~strayed' => ~strayed
         /\ ~nudged' => ~nudged
         /\ ~hasty' => ~hasty
         /\ ~lost' => ~lost
  <1> DEFINE Goal == /\ ~strayed' => ~strayed
                     /\ ~nudged' => ~nudged
                     /\ ~hasty' => ~hasty
                     /\ ~lost' => ~lost
  <1>1. ASSUME UNCHANGED historyVars PROVE Goal
    BY <1>1 DEF historyVars
  <1>2. ASSUME EnterMatchmaking PROVE Goal
    <2>1. (~strayed' => ~strayed) /\ (~nudged' => ~nudged) /\ (~lost' => ~lost)
      BY <1>2 DEF EnterMatchmaking
    <2>2. ~hasty' => ~hasty
      BY <1>2, Zenon DEF EnterMatchmaking
    <2> QED
      BY <2>1, <2>2
  <1>3. ASSUME Cancel \/ ShowProfile PROVE Goal
    <2>1. strayed' /\ (~nudged' => ~nudged) /\ (~lost' => ~lost)
      BY <1>3 DEF Cancel, ShowProfile
    <2>2. ~hasty' => ~hasty
      BY <1>3, Zenon DEF Cancel, ShowProfile
    <2> QED
      BY <2>1, <2>2
  <1>4. ASSUME NEW v \in Visit, OnMatchEvent(v) PROVE Goal
    <2>1. (~strayed' => ~strayed) /\ (~hasty' => ~hasty) /\ (~lost' => ~lost)
      BY <1>4 DEF OnMatchEvent
    <2>2. CASE Head(channel[v]) = WaitUpdate
      <3>1. nudged' = (nudged \/ (status = "found" /\ screen = "matchmaking"))
        BY <1>4, <2>2, Zenon DEF OnMatchEvent
      <3>2. ~nudged' => ~nudged
        BY <3>1, Zenon
      <3> QED
        BY <2>1, <3>2
    <2>3. CASE Head(channel[v]) # WaitUpdate
      BY <1>4, <2>1, <2>3 DEF OnMatchEvent
    <2> QED
      BY <2>2, <2>3
  <1>5. ASSUME NEW v \in Visit, JoinFails(v) PROVE Goal
    <2>1. (~strayed' => ~strayed) /\ (~nudged' => ~nudged) /\ (~hasty' => ~hasty)
      BY <1>5 DEF JoinFails
    <2>2. ~lost' => ~lost
      BY <1>5, Zenon DEF JoinFails
    <2> QED
      BY <2>1, <2>2
  <1>6. ASSUME NEW v \in Visit, MatchStreamFails(v) PROVE Goal
    BY <1>6 DEF MatchStreamFails
  <1>7. \/ EnterMatchmaking \/ Cancel \/ ShowProfile
        \/ \E v \in Visit : OnMatchEvent(v) \/ JoinFails(v) \/ MatchStreamFails(v)
        \/ UNCHANGED historyVars
    BY DEF AppNext, PlayerStep, ExitGame, LeaveResults, AppStep, Subscribe, LeaveReplied,
       LeaveFails, Navigate, OnRoundResult, OnQuestion, OnMatchEnd, GameStreamFails, RecordStats,
       ServerStep, Added, Removed, Subscribed, Unsubscribed, Told, CreateRoomFails, Taken,
       BroadcastWaitUpdate
  <1> HIDE DEF Goal
  <1>8. Goal
    BY <1>1, <1>2, <1>3, <1>4, <1>5, <1>6, <1>7
  <1> QED
    BY <1>8 DEF Goal

(* Whatever happens, the ticket has at most one place. *)
LEMMA TicketStep ==
  ASSUME AppInv, OnceInv, TicketInv, AppNext
  PROVE  TicketInv'
  <1> SUFFICES ASSUME ~strayed', ~nudged' PROVE TicketInv'
    BY DEF TicketInv
  <1>0. /\ calls \in [Visit -> {"none", "sent", "added", "done"}]
        /\ rooms \in Nat /\ None = 0 /\ untold \subseteq 1..rooms
        /\ visits \in Nat /\ leaving \subseteq Visit \X (1..rooms)
        /\ \A p \in leaving : p[1] <= visits
    BY SMTT(30), AppTypeFacts DEF AppInv, AppTypeOK, VisitsInv, None
  <1>1. /\ \A v \in Visit : calls[v] = "sent" => v = visits /\ ~waiting /\ untold = {} /\ ~Coming
        /\ waiting => untold = {} /\ ~Coming
        /\ untold # {} => ~Coming
        /\ \A r, s \in untold : r = s
        /\ \A r, s \in Nat \ {None} : OnTheWay(r) /\ OnTheWay(s) => r = s
        /\ screen # "matchmaking" \/ Begun =>
             (\A v \in Visit : calls[v] # "sent") /\ ~waiting /\ untold = {} /\ ~Coming
    BY HistoryGrows DEF TicketInv
  <1>2. \A r \in Nat \ {None} : OnTheWay(r)' => OnTheWay(r) \/ (r \in untold /\ r \notin untold')
    BY WayStep
  (* Steps in which the ticket stays where it is, or is lost. *)
  <1>3. ASSUME \A v \in Visit : calls'[v] = "sent" => calls[v] = "sent",
               visits' = visits,
               waiting' = waiting \/ waiting' = FALSE,
               untold' \subseteq untold,
               \A r \in Nat \ {None} : OnTheWay(r)' => OnTheWay(r),
               screen' # "matchmaking" \/ Begun' =>
                 screen # "matchmaking" \/ Begun
                 \/ ((\A v \in Visit : calls[v] # "sent") /\ ~waiting /\ untold = {} /\ ~Coming)
        PROVE  TicketInv'
    <2>1. Coming' => Coming
      BY <1>3 DEF Coming
    <2> QED
      BY <1>1, <1>3, <2>1 DEF TicketInv
  <1>4. ASSUME UNCHANGED <<channel, visits>>
        PROVE  (Coming' <=> Coming) /\ (\A r \in Nat \ {None} : OnTheWay(r)' <=> OnTheWay(r))
               /\ (leaving' = leaving => (Begun' <=> Begun))
    BY <1>4 DEF Coming, OnTheWay, Begun
  <1> USE DEF matchVars, gameVars, statsVars, serverVars
  <1>5. CASE EnterMatchmaking
    <2>1. visits + 1 \in Visit /\ visits' = visits + 1 /\ leaving' = leaving
          /\ calls' = [calls EXCEPT ![visits + 1] = "sent"] /\ UNCHANGED <<waiting, untold, channel>>
          /\ screen = "profile" /\ screen' = "matchmaking"
      BY <1>5, AppTypeFacts DEF EnterMatchmaking, Visit
    <2>2. ~waiting /\ untold = {} /\ ~Coming /\ \A v \in Visit : calls[v] # "sent"
      BY <1>1, <2>1
    <2>3. ~Coming' /\ \A r \in Nat \ {None} : ~OnTheWay(r)'
      BY <2>1, <2>2 DEF Coming, OnTheWay
    <2>4. ~Begun'
      BY <1>0, <2>1 DEF Begun
    <2>5. \A v \in Visit : calls'[v] = "sent" => v = visits'
      BY <1>0, <2>1, <2>2
    <2> QED
      BY <2>1, <2>2, <2>3, <2>4, <2>5 DEF TicketInv
  <1>6. Cancel \/ ShowProfile => strayed'
    BY DEF Cancel, ShowProfile
  <1>7. ASSUME ExitGame \/ LeaveResults PROVE TicketInv'
    <2>1. UNCHANGED <<channel, visits, leaving, calls, waiting, untold>> /\ screen # "matchmaking"
      BY <1>7 DEF ExitGame, LeaveResults, Reset
    <2> QED
      BY <1>3, <1>4, <2>1
  <1>8. ASSUME NEW v \in Visit,
               Subscribe(v) \/ JoinFails(v) \/ LeaveReplied(v) \/ LeaveFails(v) \/ MatchStreamFails(v)
        PROVE  TicketInv'
    <2>1. UNCHANGED <<channel, visits, leaving, waiting, untold, screen>>
      BY <1>8 DEF Subscribe, JoinFails, LeaveReplied, LeaveFails, MatchStreamFails
    <2>2. calls' = calls \/ calls' = [calls EXCEPT ![v] = "done"]
      BY <1>8 DEF Subscribe, JoinFails, LeaveReplied, LeaveFails, MatchStreamFails
    <2>3. \A w \in Visit : calls'[w] = "sent" => calls[w] = "sent"
      BY <1>0, <2>2
    <2> QED
      BY <1>3, <1>4, <2>1, <2>3
  <1>9. ASSUME NEW v \in Visit, OnMatchEvent(v) PROVE TicketInv'
    <2>1. UNCHANGED <<calls, visits, waiting, untold, screen>>
      BY <1>9, EventFacts
    <2>2. /\ \A r \in Nat : OnTheWay(r)' => OnTheWay(r)
          /\ \A r \in Nat \ {None} : r = Head(channel[v]) => ~OnTheWay(r)'
      BY <1>9, TailWay DEF OnceInv
    <2>3. CASE Head(channel[v]) = WaitUpdate
      <3>1. ~(screen = "matchmaking" /\ status' = "found")
        <4>1. UNCHANGED <<status, foundRoom>> /\ nudged' = (nudged \/ (status = "found" /\ screen = "matchmaking"))
          BY <1>9, <2>3, EventFacts DEF WaitUpdate, None
        <4> QED
          BY <4>1, Zenon
      <3>2. leaving' = leaving
        BY <1>9, <3>1, EventFacts
      <3>3. Begun' <=> Begun
        BY <2>1, <3>2 DEF Begun
      <3> QED
        BY <1>3, <2>1, <2>2, <3>3
    <2>4. CASE Head(channel[v]) \in 1..rooms
      <3> DEFINE e == Head(channel[v])
      <3>1. e \in Nat \ {None} /\ OnTheWay(e)
        BY <1>0, <1>9, <2>4, EventFacts
      <3> HIDE DEF e
      <3>2. Coming
        BY <3>1 DEF Coming
      <3>3. (\A w \in Visit : calls[w] # "sent") /\ ~waiting /\ untold = {}
        BY <1>1, <3>2
      <3>4. \A r \in Nat \ {None} : ~OnTheWay(r)'
        BY <1>1, <2>2, <3>1 DEF e
      <3>5. ~Coming'
        BY <3>4 DEF Coming
      <3> QED
        BY <2>1, <3>3, <3>4, <3>5 DEF TicketInv
    <2> QED
      BY <1>9, <2>3, <2>4, EventFacts
  <1>10. ASSUME NEW v \in Visit, NEW r \in 1..rooms, Navigate(v, r) PROVE TicketInv'
    <2>1. /\ UNCHANGED <<calls, visits, waiting, untold, channel>>
          /\ <<v, r>> \in leaving /\ leaving' = leaving \ {<<v, r>>}
          /\ screen' = IF screen = "matchmaking" /\ v = visits THEN "game" ELSE screen
      BY <1>10 DEF Navigate
    <2>2. Begun' => Begun
      BY <2>1 DEF Begun
    <2>3. screen = "matchmaking" /\ v = visits => Begun
      BY <2>1 DEF Begun
    <2> QED
      BY <1>3, <1>4, <2>1, <2>2, <2>3
  <1>11. ASSUME NEW k \in DOMAIN games,
                OnRoundResult(k) \/ OnQuestion(k) \/ OnMatchEnd(k) \/ GameStreamFails(k)
         PROVE  TicketInv'
    <2>1. UNCHANGED <<calls, visits, waiting, untold, channel, leaving>>
      BY <1>11 DEF OnRoundResult, OnQuestion, OnMatchEnd, GameStreamFails
    <2>2. screen' # "matchmaking" => screen # "matchmaking"
      BY <1>11 DEF OnRoundResult, OnQuestion, OnMatchEnd, GameStreamFails
    <2> QED
      BY <1>3, <1>4, <2>1, <2>2
  <1>12. CASE RecordStats
    <2>1. UNCHANGED <<calls, visits, waiting, untold, channel, leaving, screen>>
      BY <1>12 DEF RecordStats
    <2> QED
      BY <1>3, <1>4, <2>1
  <1>13. ASSUME NEW v \in Visit, Added(v) PROVE TicketInv'
    <2>1. /\ calls[v] = "sent" /\ calls' = [calls EXCEPT ![v] = "added"]
          /\ UNCHANGED <<visits, untold, channel, leaving, screen>>
      BY <1>13 DEF Added
    <2>2. untold = {} /\ ~Coming /\ screen = "matchmaking" /\ ~Begun
      BY <1>1, <2>1
    <2>3. \A w \in Visit : calls'[w] # "sent"
      BY <1>0, <1>1, <2>1
    <2> QED
      BY <1>1, <1>4, <2>1, <2>2, <2>3 DEF TicketInv
  <1>14. ASSUME NEW v \in Visit, Removed(v) \/ Subscribed(v) \/ Unsubscribed(v) PROVE TicketInv'
    <2>1. UNCHANGED <<calls, visits, untold, channel, leaving, screen>>
          /\ (waiting' = waiting \/ waiting' = FALSE)
      BY <1>14 DEF Removed, Subscribed, Unsubscribed
    <2> QED
      BY <1>3, <1>4, <2>1
  <1>15. ASSUME NEW r \in untold, Told(r) PROVE TicketInv'
    <2>1. UNCHANGED <<calls, visits, waiting, leaving, screen>> /\ untold' = untold \ {r}
      BY <1>15 DEF Told
    <2>2. untold = {r} /\ ~Coming /\ ~waiting /\ screen = "matchmaking" /\ ~Begun
          /\ \A v \in Visit : calls[v] # "sent"
      BY <1>1
    <2>3. untold' = {}
      BY <2>1, <2>2
    <2>4. \A s \in Nat \ {None} : OnTheWay(s)' => s = r
      BY <1>2, <2>2 DEF Coming
    <2>5. ~Begun'
      BY <2>1, <2>2 DEF Begun
    <2> QED
      BY <2>1, <2>2, <2>3, <2>4, <2>5 DEF TicketInv
  <1>16. ASSUME NEW r \in untold, CreateRoomFails(r) PROVE TicketInv'
    <2>1. UNCHANGED <<calls, visits, waiting, channel, leaving, screen>> /\ untold' \subseteq untold
      BY <1>16 DEF CreateRoomFails
    <2> QED
      BY <1>3, <1>4, <2>1
  <1>17. CASE Taken
    <2>1. /\ UNCHANGED <<calls, visits, channel, leaving, screen>>
          /\ waiting /\ untold = {} /\ waiting' = FALSE /\ untold' = untold \cup {rooms + 1}
      BY <1>17 DEF Taken
    <2>2. ~Coming' /\ ~Begun' /\ screen = "matchmaking" /\ \A v \in Visit : calls[v] # "sent"
      BY <1>1, <1>4, <2>1
    <2>3. \A r \in Nat \ {None} : ~OnTheWay(r)'
      BY <2>2 DEF Coming
    <2> QED
      BY <2>1, <2>2, <2>3 DEF TicketInv
  <1>18. CASE BroadcastWaitUpdate
    <2>1. UNCHANGED <<calls, visits, waiting, untold, leaving, screen>>
      BY <1>18 DEF BroadcastWaitUpdate
    <2>2. Begun' <=> Begun
      BY <2>1 DEF Begun
    <2>3. \A r \in Nat \ {None} : OnTheWay(r)' => OnTheWay(r)
      BY <1>2, <2>1
    <2> QED
      BY <1>3, <2>1, <2>2, <2>3
  <1> QED
    BY <1>5, <1>6, <1>7, <1>8, <1>9, <1>10, <1>11, <1>12, <1>13, <1>14, <1>15, <1>16, <1>17, <1>18
    DEF AppNext, PlayerStep, AppStep, ServerStep
(* A game that is started is the only one, ... *)
LEMMA StreamStep ==
  ASSUME SteadyInv, AppNext
  PROVE  StreamInv'
  <1> SUFFICES ASSUME ~strayed', ~nudged' PROVE StreamInv'
    BY DEF StreamInv
  <1>1. /\ playing \subseteq {gameStream}
        /\ playing # {} => gameRoom # None
        /\ screen = "profile" \/ (screen = "matchmaking" /\ ~Begun) => playing = {}
    BY HistoryGrows DEF SteadyInv, StreamInv
  <1>2. AppInv /\ OnceInv
    BY DEF SteadyInv
  (* Steps that start no game, nor leave one. *)
  <1>3. ASSUME playing' \subseteq playing, UNCHANGED <<gameStream, gameRoom>>,
               screen' = "profile" => screen = "profile",
               screen' = "matchmaking" /\ ~Begun' =>
                 screen = "profile" \/ (screen = "matchmaking" /\ ~Begun)
        PROVE  StreamInv'
    BY <1>1, <1>3 DEF StreamInv
  <1>4. leaving' = leaving /\ visits' = visits => (Begun' <=> Begun)
    BY DEF Begun
  <1> USE DEF matchVars, gameVars, statsVars, serverVars
  <1>5. CASE EnterMatchmaking
    BY <1>3, <1>5 DEF EnterMatchmaking
  <1>6. Cancel \/ ShowProfile => strayed'
    BY DEF Cancel, ShowProfile
  <1>7. ASSUME ExitGame \/ LeaveResults PROVE StreamInv'
    <2>1. playing' = playing \ {gameStream}
      BY <1>7 DEF ExitGame, LeaveResults, Reset
    <2>2. playing' = {}
      BY <1>1, <2>1
    <2> QED
      BY <2>2 DEF StreamInv
  <1>8. ASSUME NEW v \in Visit,
               \/ Subscribe(v) \/ JoinFails(v) \/ LeaveReplied(v) \/ LeaveFails(v)
               \/ MatchStreamFails(v) \/ Added(v) \/ Removed(v) \/ Subscribed(v) \/ Unsubscribed(v)
        PROVE  StreamInv'
    <2>1. UNCHANGED <<playing, gameStream, gameRoom, screen, leaving, visits>>
      BY <1>8 DEF Subscribe, JoinFails, LeaveReplied, LeaveFails, MatchStreamFails, Added, Removed,
                  Subscribed, Unsubscribed
    <2> QED
      BY <1>3, <1>4, <2>1
  <1>9. ASSUME NEW v \in Visit, OnMatchEvent(v) PROVE StreamInv'
    <2>1. CASE Head(channel[v]) = WaitUpdate
      <3>1. ~(screen = "matchmaking" /\ status' = "found")
        <4>1. /\ UNCHANGED <<status, foundRoom>>
              /\ nudged' = (nudged \/ (status = "found" /\ screen = "matchmaking"))
          BY <1>2, <1>9, <2>1, EventFacts DEF WaitUpdate, None
        <4> QED
          BY <4>1, Zenon
      <3>2. UNCHANGED <<playing, gameStream, gameRoom, screen, leaving, visits>>
        BY <1>2, <1>9, <3>1, EventFacts
      <3> QED
        BY <1>3, <1>4, <3>2
    <2>2. CASE Head(channel[v]) \in 1..rooms
      <3>1. Coming
        BY <1>2, <1>9, <2>2, EventFacts, AppTypeFacts DEF Coming, None
      <3>2. screen = "matchmaking" /\ ~Begun
        BY <3>1, HistoryGrows DEF SteadyInv, TicketInv
      <3>3. status' = "found" /\ foundRoom' # None /\ UNCHANGED <<screen, visits>>
        BY SMTT(30), <1>2, <1>9, <2>2, EventFacts, AppTypeFacts DEF WaitUpdate, None
      <3>4. startGame(foundRoom') /\ leaving' = leaving \cup {<<visits, foundRoom'>>}
        BY <1>2, <1>9, <3>2, <3>3, EventFacts
      <3>5. Begun'
        <4>1. <<visits, foundRoom'>> \in leaving' /\ <<visits, foundRoom'>>[1] = visits'
          BY <3>3, <3>4
        <4> QED
          BY <4>1 DEF Begun
      <3>6. playing' = {gameStream'} /\ gameRoom' # None
        BY <1>1, <3>2, <3>3, <3>4 DEF startGame
      <3> QED
        BY <3>2, <3>3, <3>5, <3>6 DEF StreamInv
    <2> QED
      BY <1>2, <1>9, <2>1, <2>2, EventFacts
  <1>10. ASSUME NEW v \in Visit, NEW r \in 1..rooms, Navigate(v, r) PROVE StreamInv'
    <2>1. /\ UNCHANGED <<visits, playing, gameStream, gameRoom>>
          /\ leaving' = leaving \ {<<v, r>>}
          /\ screen' = IF screen = "matchmaking" /\ v = visits THEN "game" ELSE screen
      BY <1>10 DEF Navigate
    <2>2. screen' = "profile" => screen = "profile"
      BY <2>1
    <2>3. screen' = "matchmaking" => screen = "matchmaking" /\ v # visits
      BY <2>1
    <2>4. v # visits => (Begun => Begun')
      BY <2>1 DEF Begun
    <2> QED
      BY <1>3, <2>1, <2>2, <2>3, <2>4
  <1>11. ASSUME NEW k \in DOMAIN games,
                OnRoundResult(k) \/ OnQuestion(k) \/ OnMatchEnd(k) \/ GameStreamFails(k)
         PROVE  StreamInv'
    <2>1. playing' \subseteq playing /\ UNCHANGED <<gameStream, gameRoom, leaving, visits>>
      BY <1>11 DEF OnRoundResult, OnQuestion, OnMatchEnd, GameStreamFails
    <2>2. screen' = screen \/ screen' \in {"game", "leaderboard", "results"}
      BY <1>11 DEF OnRoundResult, OnQuestion, OnMatchEnd, GameStreamFails
    <2> QED
      BY <1>3, <1>4, <2>1, <2>2
  <1>12. ASSUME RecordStats \/ Taken \/ BroadcastWaitUpdate
                \/ \E r \in untold : Told(r) \/ CreateRoomFails(r)
         PROVE  StreamInv'
    <2>1. UNCHANGED <<playing, gameStream, gameRoom, screen, leaving, visits>>
      BY <1>12 DEF RecordStats, Taken, BroadcastWaitUpdate, Told, CreateRoomFails
    <2> QED
      BY <1>3, <1>4, <2>1
  <1> QED
    BY <1>5, <1>6, <1>7, <1>8, <1>9, <1>10, <1>11, <1>12
    DEF AppNext, PlayerStep, AppStep, ServerStep

(* The app has one game stream at a time, that of the game on the screen,   *)
(* however often its player comes back, as long as he goes from matchmaking *)
(* to the game only and no WaitUpdate comes in between: his one ticket      *)
(* starts one game, although startGame cancels nothing                      *)
(* (game_provider.dart:24-56, matchmaking_screen.dart:33-51).               *)
THEOREM OneTicketOneGame == AppSpec => []OneGameStream
  <1>1. AppInit => SteadyInv
    <2> SUFFICES ASSUME AppInit PROVE SteadyInv
      OBVIOUS
    <2>1. AppInv /\ OnceInv /\ GameInv
      BY CountingInvInit DEF CountingInv
    <2>2. /\ calls = [v \in Visit |-> "none"] /\ waiting = FALSE /\ untold = {} /\ playing = {}
          /\ channel = [v \in Visit |-> <<>>]
      BY DEF AppInit
    <2>3. \A r \in Nat \ {None} : ~OnTheWay(r)
      BY <2>2 DEF OnTheWay
    <2> QED
      BY <2>1, <2>2, <2>3 DEF SteadyInv, TicketInv, StreamInv, Coming
  <1>2. ASSUME SteadyInv, [AppNext]_appVars PROVE SteadyInv'
    <2>1. CASE AppNext
      <3>1. AppInv' /\ OnceInv' /\ GameInv' /\ TicketInv'
        BY <1>2, <2>1, AppInvStep, OnceStep, GameStep, TicketStep DEF SteadyInv
      <3>2. StreamInv'
        BY <1>2, <2>1, StreamStep
      <3> QED
        BY <3>1, <3>2 DEF SteadyInv
    <2>2. CASE UNCHANGED appVars
      <3> USE <2>2 DEF appVars, matchVars, gameVars, statsVars, serverVars, historyVars
      <3>1. AppInv'
        BY <1>2, AppInvStep DEF SteadyInv
      <3>2. OnceInv'
        BY <1>2 DEF SteadyInv, OnceInv, Met, Chosen, OnTheWay, DistinctInv, WaitUpdate
      <3>3. GameInv' /\ StreamInv'
        BY <1>2 DEF SteadyInv, GameInv, Chosen, StreamInv, Begun
      <3>4. TicketInv'
        BY <1>2 DEF SteadyInv, TicketInv, Coming, OnTheWay, Begun
      <3> QED
        BY <3>1, <3>2, <3>3, <3>4 DEF SteadyInv
    <2> QED
      BY <1>2, <2>1, <2>2
  <1>3. SteadyInv => OneGameStream
    <2> SUFFICES ASSUME SteadyInv, ~strayed, ~nudged
                 PROVE  Cardinality(playing) <= 1 /\ \A k \in playing : games[k] = gameRoom
      BY DEF OneGameStream
    <2>1. playing \subseteq {gameStream} /\ (playing # {} => gameRoom # None)
      BY DEF SteadyInv, StreamInv
    <2>2. IsFiniteSet({gameStream}) /\ Cardinality({gameStream}) = 1
      BY FS_Singleton
    <2>3. Cardinality(playing) <= 1
      BY <2>1, <2>2, FS_Subset
    <2>4. \A k \in playing : games[k] = gameRoom
      BY <2>1 DEF SteadyInv, GameInv
    <2> QED
      BY <2>3, <2>4
  <1> QED
    BY <1>1, <1>2, <1>3, PTL DEF AppSpec

-----------------------------------------------------------------------------
(* The ticket of a player who does not leave while the app joins, and does  *)
(* not come back before the search is over.                                 *)

Arrived(v) == \E i \in 1..Len(channel[v]) : channel[v][i] # WaitUpdate

(* The calls and the stream of the app are those of the last visit. *)
LastVisitInv ==
  /\ \A v \in Visit : v < visits \/ (v = visits /\ screen # "matchmaking") => calls[v] = "done"
  /\ \A v \in listening : v = visits /\ v = current
  /\ \A v \in Visit : leaves[v] \in {"sent", "removed"} =>
       v = visits /\ screen = "profile" /\ listening = {}
  /\ status = "idle" => listening = {} /\ screen # "matchmaking"
  /\ hasTicket \/ listening = {}

(* The app searches as long as the service holds the player in the pool. *)
SearchInv ==
  /\ \A v \in Visit : calls[v] = "sent" => status = "searching" /\ ~waiting /\ untold = {}
  /\ waiting => /\ status = "searching"
                /\ screen \in {"matchmaking", "profile"}
                /\ hasTicket \/ \E v \in Visit : v = visits /\ calls[v] = "added"
                /\ untold = {}
                /\ \A v \in Visit : leaves[v] # "removed"
  /\ \A r, s \in untold : r = s
  /\ \A v \in Visit : v = visits /\ Arrived(v) => ~waiting /\ untold = {} /\ calls[v] # "sent"
  /\ Begun => ~waiting /\ status # "searching" /\ \A v \in Visit : v = visits => calls[v] = "done"

PatientInv == ~hasty /\ ~lost => LastVisitInv /\ SearchInv

LEMMA TailElement ==
  ASSUME NEW S, NEW s \in Seq(S), s # <<>>, NEW i \in 1..Len(Tail(s))
  PROVE  i + 1 \in 1..Len(s) /\ s[i + 1] = Tail(s)[i]
  OBVIOUS

(* A room arrives only when the service tells it. *)
LEMMA ArrivedStep ==
  ASSUME AppInv, AppNext, NEW w \in Visit, Arrived(w)'
  PROVE  Arrived(w) \/ \E r \in untold : Told(r)
  <1>0. channel \in [Visit -> Seq(0..rooms)] /\ registered \in {None} \cup Visit
    BY DEF AppInv, AppTypeOK
  <1>1. CASE channel' = channel
    BY <1>1 DEF Arrived
  <1>2. ASSUME NEW v \in Visit, OnMatchEvent(v) PROVE Arrived(w)
    <2>1. channel[v] # <<>> /\ channel' = [channel EXCEPT ![v] = Tail(@)]
      BY <1>2, EventFacts
    <2>2. PICK i \in 1..Len(channel'[w]) : channel'[w][i] # WaitUpdate
      BY DEF Arrived
    <2>3. CASE w = v
      <3>1. channel[v] \in Seq(0..rooms) /\ channel'[v] = Tail(channel[v])
        BY <1>0, <2>1
      <3>2. i + 1 \in 1..Len(channel[w]) /\ channel[w][i + 1] = channel'[w][i]
        <4>1. i \in 1..Len(Tail(channel[v])) /\ channel'[w][i] = Tail(channel[v])[i]
          BY <2>2, <2>3, <3>1
        <4>2. i + 1 \in 1..Len(channel[v]) /\ channel[v][i + 1] = Tail(channel[v])[i]
          BY <2>1, <3>1, <4>1, TailElement
        <4> QED
          BY <2>3, <4>1, <4>2
      <3> QED
        BY <2>2, <3>2 DEF Arrived
    <2>4. CASE w # v
      <3>1. channel'[w] = channel[w]
        BY <1>0, <2>1, <2>4
      <3> QED
        BY <2>2, <3>1 DEF Arrived
    <2> QED
      BY <2>3, <2>4
  <1>3. CASE BroadcastWaitUpdate /\ channel' # channel
    <2>1. registered \in Visit
          /\ channel' = [channel EXCEPT ![registered] = Append(@, WaitUpdate)]
      BY <1>0, <1>3 DEF BroadcastWaitUpdate, Sent
    <2>2. PICK i \in 1..Len(channel'[w]) : channel'[w][i] # WaitUpdate
      BY DEF Arrived
    <2>3. CASE w = registered
      <3>1. channel[w] \in Seq(0..rooms) /\ channel'[w] = Append(channel[w], WaitUpdate)
        BY <1>0, <2>1, <2>3
      <3>2. i \in 1..Len(channel[w]) /\ channel[w][i] = channel'[w][i]
        BY <2>2, <3>1
      <3> QED
        BY <2>2, <3>2 DEF Arrived
    <2>4. CASE w # registered
      <3>1. channel'[w] = channel[w]
        BY <1>0, <2>1, <2>4
      <3> QED
        BY <2>2, <3>1 DEF Arrived
    <2> QED
      BY <2>3, <2>4
  <1>4. \/ channel' = channel
        \/ \E v \in Visit : OnMatchEvent(v)
        \/ BroadcastWaitUpdate
        \/ \E r \in untold : Told(r)
    BY DEF AppNext, PlayerStep, EnterMatchmaking, Cancel, ShowProfile, ExitGame, LeaveResults,
       AppStep, Subscribe, JoinFails, LeaveReplied, LeaveFails, MatchStreamFails, Navigate,
       OnRoundResult, OnQuestion, OnMatchEnd, GameStreamFails, RecordStats, ServerStep, Added,
       Removed, Subscribed, Unsubscribed, Taken, CreateRoomFails
  <1> QED
    BY <1>1, <1>2, <1>3, <1>4

(* What a patient player knows. *)
LEMMA PatientFacts ==
  ASSUME AppInv, LastVisitInv, SearchInv
  PROVE  /\ \A v \in Visit : calls[v] \in {"sent", "added"} => v = visits /\ screen = "matchmaking"
         /\ \A v \in listening : v \in Visit /\ v = visits /\ calls[v] = "done"
         /\ listening \ {current} = {}
         /\ screen = "matchmaking" => /\ visits \in Visit /\ status # "idle"
                                      /\ \A v \in Visit : leaves[v] \notin {"sent", "removed"}
  <1>1. \A v \in Visit : v \in Nat /\ v > 0
    BY DEF Visit
  <1>2. visits \in 0..MaxJoins /\ MaxJoins \in Nat /\ listening \subseteq Visit
    BY AppTypeFacts DEF AppInv, AppTypeOK
  <1>3. \A v \in Visit : calls[v] \in {"sent", "added"} => v = visits /\ screen = "matchmaking"
    BY <1>1, <1>2 DEF AppInv, VisitsInv, LastVisitInv
  <1>4. \A v \in listening : v \in Visit /\ v = visits /\ calls[v] = "done"
    BY <1>2 DEF AppInv, VisitsInv, LastVisitInv
  <1>5. listening \ {current} = {}
    BY DEF LastVisitInv
  <1>6. screen = "matchmaking" => visits \in Visit
    BY <1>2 DEF AppInv, VisitsInv, Visit
  <1> QED
    BY <1>3, <1>4, <1>5, <1>6 DEF LastVisitInv
(* A screen of the game stays one; the matchmaking screen is left for the   *)
(* game only by a navigation, and without losing his patience.              *)
LEMMA LastVisitStep ==
  ASSUME AppInv, LastVisitInv, SearchInv, AppNext, ~hasty', ~lost'
  PROVE  LastVisitInv'
  <1>0. /\ visits \in Nat /\ \A v \in Visit : v \in Nat
        /\ calls \in [Visit -> {"none", "sent", "added", "done"}]
        /\ leaves \in [Visit -> {"none", "sent", "removed", "done"}]
    BY SMTT(30), AppTypeFacts DEF AppInv, AppTypeOK, Visit
  <1>1. /\ \A v \in Visit : v < visits \/ (v = visits /\ screen # "matchmaking") => calls[v] = "done"
        /\ \A v \in listening : v = visits /\ v = current
        /\ \A v \in Visit : leaves[v] \in {"sent", "removed"} =>
             v = visits /\ screen = "profile" /\ listening = {}
        /\ status = "idle" => listening = {} /\ screen # "matchmaking"
        /\ hasTicket \/ listening = {}
    BY DEF LastVisitInv
  <1>2. \A v \in Visit : calls[v] = "done" => calls'[v] = "done"
    BY CallsProgress DEF AppInv
  <1>3. /\ \A v \in Visit : calls[v] \in {"sent", "added"} => v = visits /\ screen = "matchmaking"
        /\ \A v \in listening : v \in Visit /\ v = visits /\ calls[v] = "done"
        /\ listening \ {current} = {}
        /\ screen = "matchmaking" => /\ visits \in Visit /\ status # "idle"
                                     /\ \A v \in Visit : leaves[v] \notin {"sent", "removed"}
    BY PatientFacts
  (* Steps in which the screens of the game follow each other. *)
  <1>4. ASSUME UNCHANGED <<visits, leaves, hasTicket, current>>,
               listening' \subseteq listening,
               status' = "idle" => status = "idle",
               \/ screen' = screen
               \/ screen' \notin {"profile", "matchmaking"} /\ screen # "profile"
                  /\ (screen = "matchmaking" => \A v \in Visit : v = visits => calls[v] = "done")
        PROVE  LastVisitInv'
    <2>1. \A v \in Visit : v < visits' \/ (v = visits' /\ screen' # "matchmaking") => calls'[v] = "done"
      BY <1>1, <1>2, <1>4
    <2>2. /\ \A v \in listening' : v = visits' /\ v = current'
          /\ hasTicket' \/ listening' = {}
      BY <1>1, <1>4
    <2>3. \A v \in Visit : leaves'[v] \in {"sent", "removed"} =>
            v = visits' /\ screen' = "profile" /\ listening' = {}
      BY <1>1, <1>3, <1>4
    <2>4. status' = "idle" => listening' = {} /\ screen' # "matchmaking"
      BY <1>1, <1>4
    <2> QED
      BY <2>1, <2>2, <2>3, <2>4 DEF LastVisitInv
  <1> USE DEF matchVars, gameVars, statsVars, serverVars
  <1>5. CASE EnterMatchmaking
    <2>1. /\ visits' = visits + 1 /\ screen' = "matchmaking" /\ status' = "searching"
          /\ calls' = [calls EXCEPT ![visits + 1] = "sent"] /\ screen = "profile"
          /\ UNCHANGED <<leaves, listening, current, hasTicket>>
      BY <1>5 DEF EnterMatchmaking
    <2>2. status = "idle" /\ \A v \in Visit : leaves[v] \notin {"sent", "removed"}
      BY <1>5, Zenon DEF EnterMatchmaking
    <2>3. listening' = {}
      BY <1>1, <2>1, <2>2
    <2>4. \A v \in Visit : v < visits' => calls'[v] = "done"
      BY <1>0, <1>1, <1>2, <2>1
    <2>5. \A v \in Visit : leaves'[v] \notin {"sent", "removed"}
      BY <2>1, <2>2
    <2> QED
      BY <2>1, <2>3, <2>4, <2>5 DEF LastVisitInv
  <1>6. CASE Cancel
    <2>1. /\ screen = "matchmaking" /\ screen' = "profile"
          /\ listening' = listening \ {current} /\ UNCHANGED <<visits, hasTicket, current, calls>>
          /\ leaves' = leaves \/ leaves' = [leaves EXCEPT ![visits] = "sent"]
      BY <1>6 DEF Cancel
    <2>2. listening' = {} /\ calls[visits] = "done"
      <3>1. calls[visits] = "done"
        BY <1>6, Zenon DEF Cancel
      <3> QED
        BY <1>3, <2>1, <3>1
    <2>3. \A v \in Visit : leaves'[v] \in {"sent", "removed"} => v = visits
      BY <1>0, <1>3, <2>1
    <2>4. \A v \in Visit : v < visits' \/ v = visits' => calls'[v] = "done"
      BY <1>1, <2>1, <2>2
    <2> QED
      BY <2>1, <2>2, <2>3, <2>4 DEF LastVisitInv
  <1>7. CASE ShowProfile
    <2>1. /\ screen = "matchmaking" /\ screen' = "profile"
          /\ UNCHANGED <<visits, hasTicket, current, calls, leaves, listening, status>>
      BY <1>7 DEF ShowProfile
    <2>2. calls[visits] = "done"
      BY <1>7, Zenon DEF ShowProfile
    <2>3. \A v \in Visit : v < visits' \/ v = visits' => calls'[v] = "done"
      BY <1>1, <2>1, <2>2
    <2>4. \A v \in Visit : leaves'[v] \notin {"sent", "removed"}
      BY <1>3, <2>1
    <2> QED
      BY <1>1, <1>3, <2>1, <2>3, <2>4 DEF LastVisitInv
  <1>8. ASSUME ExitGame \/ LeaveResults PROVE LastVisitInv'
    <2>1. /\ screen \in {"game", "results"} /\ screen' = "profile"
          /\ listening' = listening \ {current} /\ UNCHANGED <<visits, calls, leaves>>
      BY <1>8 DEF ExitGame, LeaveResults, Reset
    <2>2. listening' = {} /\ \A v \in Visit : leaves'[v] \notin {"sent", "removed"}
      BY <1>1, <1>3, <2>1
    <2>3. \A v \in Visit : v < visits' \/ v = visits' => calls'[v] = "done"
      BY <1>1, <2>1
    <2> QED
      BY <2>1, <2>2, <2>3 DEF LastVisitInv
  <1>9. ASSUME NEW v \in Visit, Subscribe(v) PROVE LastVisitInv'
    <2>1. /\ calls[v] = "added" /\ hasTicket' = TRUE /\ current' = v
          /\ listening' = listening \cup {v} /\ UNCHANGED <<visits, screen, status, leaves>>
      BY <1>9 DEF Subscribe
    <2>2. v = visits /\ screen = "matchmaking"
      BY <1>3, <2>1
    <2>3. \A w \in listening' : w = visits' /\ w = current'
      BY <1>1, <2>1, <2>2
    <2>4. status' # "idle" /\ \A w \in Visit : leaves'[w] \notin {"sent", "removed"}
      BY <1>3, <2>1, <2>2
    <2>5. \A w \in Visit : w < visits' => calls'[w] = "done"
      BY <1>1, <1>2, <2>1
    <2> QED
      BY <2>1, <2>2, <2>3, <2>4, <2>5 DEF LastVisitInv
  <1>10. ASSUME NEW v \in Visit, LeaveReplied(v) \/ LeaveFails(v) \/ Removed(v) PROVE LastVisitInv'
    <2>1. leaves[v] \in {"sent", "removed"} /\ leaves' \in {[leaves EXCEPT ![v] = "removed"], [leaves EXCEPT ![v] = "done"]}
          /\ UNCHANGED <<visits, screen, listening, current, hasTicket, calls>>
      BY <1>10 DEF LeaveReplied, LeaveFails, Removed
    <2>2. v = visits /\ screen = "profile" /\ listening = {}
      BY <1>1, <2>1
    <2>3. \A w \in Visit : leaves'[w] \in {"sent", "removed"} => w = visits
      BY <1>0, <1>1, <2>1, <2>2
    <2>4. \A w \in Visit : w < visits' \/ w = visits' => calls'[w] = "done"
      BY <1>1, <2>1, <2>2
    <2> QED
      BY <2>1, <2>2, <2>3, <2>4 DEF LastVisitInv
  <1>11. ASSUME NEW v \in Visit, MatchStreamFails(v) PROVE FALSE
    BY <1>11 DEF MatchStreamFails
  <1>12. ASSUME NEW v \in Visit, OnMatchEvent(v) PROVE LastVisitInv'
    <2>1. UNCHANGED <<visits, leaves, hasTicket, current, listening, screen>>
          /\ (status' = status \/ status' = "found")
      BY <1>12, EventFacts
    <2> QED
      BY <1>4, <2>1
  <1>13. ASSUME NEW v \in Visit, NEW r \in 1..rooms, Navigate(v, r) PROVE LastVisitInv'
    <2>1. /\ UNCHANGED <<visits, leaves, hasTicket, current, listening, status>>
          /\ <<v, r>> \in leaving
          /\ screen' = IF screen = "matchmaking" /\ v = visits THEN "game" ELSE screen
      BY <1>13 DEF Navigate
    <2>2. v = visits => Begun
      BY <2>1 DEF Begun
    <2>3. screen' # screen =>
            screen' = "game" /\ screen = "matchmaking" /\ \A w \in Visit : w = visits => calls[w] = "done"
      BY <2>1, <2>2 DEF SearchInv
    <2> QED
      BY <1>4, <2>1, <2>3
  <1>14. ASSUME NEW k \in DOMAIN games,
                OnRoundResult(k) \/ OnQuestion(k) \/ OnMatchEnd(k) \/ GameStreamFails(k)
         PROVE  LastVisitInv'
    <2>1. UNCHANGED <<visits, leaves, hasTicket, current, listening, status>>
      BY <1>14 DEF OnRoundResult, OnQuestion, OnMatchEnd, GameStreamFails
    <2>2. \/ screen' = screen
          \/ screen \in {"game", "leaderboard"} /\ screen' \in {"game", "leaderboard", "results"}
      BY <1>14 DEF OnRoundResult, OnQuestion, OnMatchEnd, GameStreamFails
    <2> QED
      BY <1>4, <2>1, <2>2
  <1>15. ASSUME NEW v \in Visit, JoinFails(v) \/ Added(v) \/ Subscribed(v) \/ Unsubscribed(v)
         PROVE  LastVisitInv'
    <2>1. /\ UNCHANGED <<visits, leaves, hasTicket, current, status, screen>>
          /\ listening' \subseteq listening
      BY <1>15 DEF JoinFails, Added, Subscribed, Unsubscribed
    <2> QED
      BY <1>4, <2>1
  <1>16. ASSUME RecordStats \/ Taken \/ BroadcastWaitUpdate
                \/ \E r \in untold : Told(r) \/ CreateRoomFails(r)
         PROVE  LastVisitInv'
    <2>1. UNCHANGED <<visits, leaves, hasTicket, current, status, screen, listening>>
      BY <1>16 DEF RecordStats, Taken, BroadcastWaitUpdate, Told, CreateRoomFails
    <2> QED
      BY <1>4, <2>1
  <1> QED
    BY <1>5, <1>6, <1>7, <1>8, <1>9, <1>10, <1>11, <1>12, <1>13, <1>14, <1>15, <1>16
    DEF AppNext, PlayerStep, AppStep, ServerStep
(* The service holds the player only while the app searches. *)
LEMMA SearchStep ==
  ASSUME AppInv, LastVisitInv, SearchInv, AppNext, ~hasty', ~lost'
  PROVE  SearchInv'
  <1>0. /\ visits \in Nat /\ \A v \in Visit : v \in Nat
        /\ calls \in [Visit -> {"none", "sent", "added", "done"}]
        /\ leaves \in [Visit -> {"none", "sent", "removed", "done"}]
        /\ waiting \in BOOLEAN
    BY AppTypeFacts DEF AppInv, AppTypeOK, Visit
  <1>1. /\ \A v \in Visit : calls[v] = "sent" => status = "searching" /\ ~waiting /\ untold = {}
        /\ waiting => /\ status = "searching"
                      /\ screen \in {"matchmaking", "profile"}
                      /\ hasTicket \/ \E v \in Visit : v = visits /\ calls[v] = "added"
                      /\ untold = {}
                      /\ \A v \in Visit : leaves[v] # "removed"
        /\ \A r, s \in untold : r = s
        /\ \A v \in Visit : v = visits /\ Arrived(v) => ~waiting /\ untold = {} /\ calls[v] # "sent"
        /\ Begun => ~waiting /\ status # "searching" /\ \A v \in Visit : v = visits => calls[v] = "done"
    BY DEF SearchInv
  <1>2. \A v \in Visit : calls[v] = "done" => calls'[v] = "done"
    BY CallsProgress DEF AppInv
  <1>3. /\ \A v \in Visit : calls[v] \in {"sent", "added"} => v = visits /\ screen = "matchmaking"
        /\ \A v \in listening : v \in Visit /\ v = visits /\ calls[v] = "done"
        /\ listening \ {current} = {}
        /\ screen = "matchmaking" => /\ visits \in Visit /\ status # "idle"
                                     /\ \A v \in Visit : leaves[v] \notin {"sent", "removed"}
    BY PatientFacts
  <1>4. \A v \in Visit : Arrived(v)' => Arrived(v) \/ \E r \in untold : Told(r)
    BY ArrivedStep
  <1>5. leaving' = leaving /\ visits' = visits => (Begun' <=> Begun)
    BY DEF Begun
  (* Steps after which the player is in the pool only if he was before. *)
  <1>6. ASSUME UNCHANGED visits,
               \A v \in Visit : calls'[v] = "sent" => calls[v] = "sent" /\ status' = status,
               waiting' => /\ waiting /\ status' = status
                           /\ screen' \in {screen, "profile"}
                           /\ hasTicket' \/ ~hasTicket
                           /\ hasTicket' \/ \A v \in Visit : calls[v] = "added" => calls'[v] = "added"
                           /\ \A v \in Visit : leaves'[v] = "removed" => leaves[v] = "removed",
               untold' \subseteq untold, untold' # untold => untold' = {},
               \A r \in untold : ~Told(r),
               Begun' => (Begun /\ status' \in {status, "idle", "found"})
                         \/ (~waiting' /\ status' # "searching" /\ \A v \in Visit : v = visits => calls[v] = "done")
        PROVE  SearchInv'
    <2>1. /\ \A v \in Visit : calls'[v] = "sent" => status' = "searching" /\ ~waiting' /\ untold' = {}
          /\ \A r, s \in untold' : r = s
      BY <1>1, <1>6
    <2>2. waiting' => /\ status' = "searching"
                      /\ screen' \in {"matchmaking", "profile"}
                      /\ hasTicket' \/ \E v \in Visit : v = visits' /\ calls'[v] = "added"
                      /\ untold' = {}
                      /\ \A v \in Visit : leaves'[v] # "removed"
      BY <1>1, <1>6
    <2>3. \A v \in Visit : v = visits' /\ Arrived(v)' => ~waiting' /\ untold' = {} /\ calls'[v] # "sent"
      BY <1>1, <1>4, <1>6
    <2>4. Begun' => ~waiting' /\ status' # "searching" /\ \A v \in Visit : v = visits' => calls'[v] = "done"
      BY <1>1, <1>2, <1>6
    <2> QED
      BY <2>1, <2>2, <2>3, <2>4 DEF SearchInv
  <1> USE DEF matchVars, gameVars, statsVars, serverVars
  <1>7. CASE EnterMatchmaking
    <2>1. /\ visits' = visits + 1 /\ screen' = "matchmaking" /\ status' = "searching"
          /\ visits + 1 \in Visit
          /\ calls' = [calls EXCEPT ![visits + 1] = "sent"]
          /\ UNCHANGED <<waiting, untold, channel, leaving>>
      BY <1>7, AppTypeFacts DEF EnterMatchmaking, Visit
    <2>2. status = "idle" /\ untold = {} /\ screen = "profile"
      BY <1>7, Zenon DEF EnterMatchmaking
    <2>3. ~waiting
      BY <1>1, <2>2
    <2>4. ~Begun'
      <3>1. \A p \in leaving : p[1] <= visits /\ p[1] \in Nat
        BY <1>0 DEF AppInv, VisitsInv, AppTypeOK
      <3> QED
        BY <1>0, <2>1, <3>1 DEF Begun
    <2>5. \A v \in Visit : v = visits' => ~Arrived(v)'
      <3>1. channel[visits + 1] = <<>>
        BY <1>0, <2>1 DEF AppInv, VisitsInv
      <3> QED
        BY <2>1, <3>1 DEF Arrived
    <2> QED
      BY <2>1, <2>2, <2>3, <2>4, <2>5 DEF SearchInv
  <1>8. CASE Cancel
    <2>1. /\ screen = "matchmaking" /\ screen' = "profile" /\ status # "found"
          /\ UNCHANGED <<visits, hasTicket, calls, waiting, untold, leaving>>
          /\ hasTicket => status' = status /\ leaves' = [leaves EXCEPT ![visits] = "sent"]
          /\ ~hasTicket => status' = "idle"
      BY <1>8 DEF Cancel
    <2>2. calls[visits] = "done"
      BY <1>8, Zenon DEF Cancel
    <2>3. \A r \in untold : ~Told(r)
      BY <2>1 DEF Told
    <2>4. waiting => hasTicket
      BY <1>1, <2>2
    <2>5. \A v \in Visit : calls[v] # "sent"
      BY <1>3, <2>2
    <2>6. waiting => \A v \in Visit : leaves'[v] # "removed"
      BY <1>0, <1>1, <2>1, <2>4
    <2>7. status \in {"idle", "searching", "found"}
      BY DEF AppInv, AppTypeOK
    <2>8. Begun' <=> Begun
      BY <1>5, <2>1
    <2>9. Begun' => Begun /\ status' \in {status, "idle", "found"}
      BY <2>1, <2>8
    <2> QED
      BY <1>0, <1>6, <2>1, <2>3, <2>4, <2>5, <2>6, <2>9
  <1>9. CASE ShowProfile
    <2>1. /\ screen' = "profile"
          /\ UNCHANGED <<visits, hasTicket, calls, waiting, untold, leaving, leaves, status>>
      BY <1>9 DEF ShowProfile
    <2>2. \A r \in untold : ~Told(r)
      BY <1>9 DEF ShowProfile, Told
    <2> QED
      BY <1>5, <1>6, <2>1, <2>2
  <1>10. ASSUME ExitGame \/ LeaveResults PROVE SearchInv'
    <2>1. /\ screen \in {"game", "results"} /\ status' = "idle"
          /\ UNCHANGED <<visits, hasTicket, calls, waiting, untold, leaving, leaves>>
      BY <1>10 DEF ExitGame, LeaveResults, Reset
    <2>2. ~waiting /\ \A v \in Visit : calls[v] # "sent"
      BY <1>1, <1>3, <2>1
    <2>3. \A r \in untold : ~Told(r)
      BY <2>1 DEF Told
    <2> QED
      BY <1>5, <1>6, <2>1, <2>2, <2>3
  <1>11. ASSUME NEW v \in Visit, Subscribe(v) \/ JoinFails(v) PROVE SearchInv'
    <2>1. /\ UNCHANGED <<visits, status, screen, waiting, untold, leaving, leaves>>
          /\ calls' = [calls EXCEPT ![v] = "done"]
          /\ (calls[v] = "sent" /\ hasTicket' = hasTicket) \/ hasTicket' = TRUE
      <3>1. CASE Subscribe(v)
        BY <3>1 DEF Subscribe
      <3>2. CASE JoinFails(v)
        <4>1. calls[v] # "added"
          BY <3>2, Zenon DEF JoinFails
        <4> QED
          BY <3>2, <4>1 DEF JoinFails
      <3> QED
        BY <1>11, <3>1, <3>2
    <2>2. \A r \in untold : ~Told(r)
      <3>1. UNCHANGED untold
        BY <2>1
      <3> QED
        BY <3>1 DEF Told
    <2>3. \A w \in Visit : calls'[w] = "sent" => calls[w] = "sent"
      BY <1>0, <2>1
    <2>4. \A w \in Visit : calls[v] = "sent" /\ calls[w] = "added" => calls'[w] = "added"
      BY <1>0, <2>1
    <2> QED
      BY <1>5, <1>6, <2>1, <2>2, <2>3, <2>4
  <1>12. ASSUME NEW v \in Visit, LeaveReplied(v) \/ LeaveFails(v) \/ Removed(v) PROVE SearchInv'
    <2>1. /\ UNCHANGED <<visits, screen, untold, leaving, calls, hasTicket>>
          /\ leaves[v] \in {"sent", "removed"}
      BY <1>12 DEF LeaveReplied, LeaveFails, Removed
    <2>2. \A r \in untold : ~Told(r)
      <3>1. UNCHANGED untold
        BY <2>1
      <3> QED
        BY <3>1 DEF Told
    <2>3. \A w \in Visit : calls[w] # "sent"
      BY <1>3, <2>1 DEF LastVisitInv
    <2>4. /\ waiting' => waiting /\ status' = status
          /\ waiting' => \A w \in Visit : leaves'[w] = "removed" => leaves[w] = "removed"
          /\ status' \in {status, "idle"}
      <3>1. CASE LeaveReplied(v)
        BY <1>1, <3>1 DEF LeaveReplied
      <3>2. CASE LeaveFails(v)
        <4>1. \A w \in Visit : leaves'[w] = "removed" => leaves[w] = "removed"
          BY <1>0, <3>2 DEF LeaveFails
        <4> QED
          BY <3>2, <4>1 DEF LeaveFails
      <3>3. CASE Removed(v)
        BY <3>3 DEF Removed
      <3> QED
        BY <1>12, <3>1, <3>2, <3>3
    <2> QED
      BY <1>5, <1>6, <2>1, <2>2, <2>3, <2>4
  <1>13. ASSUME NEW v \in Visit, OnMatchEvent(v) PROVE SearchInv'
    <2>1. UNCHANGED <<visits, calls, leaves, hasTicket, screen, waiting, untold>>
      BY <1>13, EventFacts
    <2>2. \A r \in untold : ~Told(r)
      BY <2>1 DEF Told
    <2>3. v \in listening
      BY <1>13 DEF OnMatchEvent
    <2>4. v = visits /\ calls[v] = "done" /\ \A w \in Visit : calls[w] # "sent"
      BY <1>3, <2>3
    <2>5. CASE Head(channel[v]) = WaitUpdate
      <3>1. status' = status /\ (leaving' = leaving \/ status' = "found")
        BY <1>13, <2>5, EventFacts DEF WaitUpdate, None
      <3>2. status' = "found" => ~waiting
        BY <1>1, <3>1
      <3> QED
        BY <1>5, <1>6, <2>1, <2>2, <2>4, <3>1, <3>2
    <2>6. CASE Head(channel[v]) \in 1..rooms
      <3>1. status' = "found" /\ Arrived(v)
        <4>1. channel[v] \in Seq(0..rooms) /\ channel[v] # <<>>
          BY <1>13, EventFacts
        <4>2. Head(channel[v]) = channel[v][1] /\ 1 \in 1..Len(channel[v])
          BY <4>1, HeadIsFirst
        <4>3. Head(channel[v]) # WaitUpdate
          BY <2>6, AppTypeFacts DEF WaitUpdate, None
        <4> QED
          BY <1>13, <4>2, <4>3, EventFacts DEF Arrived
      <3>2. ~waiting
        BY <1>1, <2>4, <3>1
      <3> QED
        BY <1>6, <2>1, <2>2, <2>4, <3>1, <3>2
    <2> QED
      BY <1>13, <2>5, <2>6, EventFacts
  <1>14. ASSUME NEW v \in Visit, MatchStreamFails(v) PROVE FALSE
    BY <1>14 DEF MatchStreamFails
  <1>15. ASSUME NEW v \in Visit, NEW r \in 1..rooms, Navigate(v, r) PROVE SearchInv'
    <2>1. /\ UNCHANGED <<visits, leaves, hasTicket, calls, status, waiting, untold>>
          /\ <<v, r>> \in leaving /\ leaving' = leaving \ {<<v, r>>}
          /\ screen' = IF screen = "matchmaking" /\ v = visits THEN "game" ELSE screen
      BY <1>15 DEF Navigate
    <2>2. \A s \in untold : ~Told(s)
      BY <2>1 DEF Told
    <2>3. v = visits => ~waiting
      BY <1>1, <2>1 DEF Begun
    <2>4. Begun' => Begun
      BY <2>1 DEF Begun
    <2>5. waiting' => waiting /\ screen' = screen
      BY <2>1, <2>3
    <2> QED
      BY <1>6, <2>1, <2>2, <2>4, <2>5
  <1>16. ASSUME NEW k \in DOMAIN games,
                OnRoundResult(k) \/ OnQuestion(k) \/ OnMatchEnd(k) \/ GameStreamFails(k)
         PROVE  SearchInv'
    <2>1. UNCHANGED <<visits, leaves, hasTicket, calls, status, waiting, untold, leaving>>
      BY <1>16 DEF OnRoundResult, OnQuestion, OnMatchEnd, GameStreamFails
    <2>2. \A r \in untold : ~Told(r)
      BY <2>1 DEF Told
    <2>3. screen' = screen \/ screen \in {"game", "leaderboard"}
      BY <1>16 DEF OnRoundResult, OnQuestion, OnMatchEnd, GameStreamFails
    <2>4. waiting' => waiting /\ screen' = screen
      BY <1>1, <2>1, <2>3
    <2> QED
      BY <1>5, <1>6, <2>1, <2>2, <2>4
  <1>17. ASSUME NEW v \in Visit, Added(v) PROVE SearchInv'
    <2>1. /\ calls[v] = "sent" /\ calls' = [calls EXCEPT ![v] = "added"] /\ waiting' = TRUE
          /\ UNCHANGED <<visits, screen, status, leaves, hasTicket, untold, leaving>>
      BY <1>17 DEF Added
    <2>2. v = visits /\ screen = "matchmaking" /\ status = "searching" /\ untold = {}
          /\ ~Begun /\ ~Arrived(v)
      BY <1>1, <1>3, <2>1
    <2>3. \A w \in Visit : calls'[w] # "sent"
      BY <1>0, <1>3, <2>1, <2>2
    <2>4. calls'[v] = "added" /\ \A w \in Visit : leaves'[w] # "removed"
      BY <1>0, <1>3, <2>1, <2>2
    <2>5. ~Begun' /\ \A w \in Visit : w = visits' => ~Arrived(w)'
      BY <1>4, <1>5, <2>1, <2>2
    <2> QED
      BY <2>1, <2>2, <2>3, <2>4, <2>5 DEF SearchInv
  <1>18. ASSUME NEW v \in Visit, Subscribed(v) \/ Unsubscribed(v) PROVE SearchInv'
    <2>1. UNCHANGED <<visits, leaves, hasTicket, calls, status, waiting, untold, leaving, screen>>
      BY <1>18 DEF Subscribed, Unsubscribed
    <2>2. \A r \in untold : ~Told(r)
      BY <2>1 DEF Told
    <2> QED
      BY <1>5, <1>6, <2>1, <2>2
  <1>19. ASSUME NEW r \in untold, Told(r) PROVE SearchInv'
    <2>1. /\ untold' = untold \ {r}
          /\ UNCHANGED <<visits, leaves, hasTicket, calls, status, waiting, leaving, screen>>
      BY <1>19 DEF Told
    <2>2. untold' = {} /\ ~waiting /\ \A v \in Visit : calls[v] # "sent"
      BY <1>1, <2>1
    <2>3. Begun' => Begun
      BY <1>5, <2>1
    <2>4. Begun' => status' # "searching" /\ \A v \in Visit : v = visits' => calls'[v] = "done"
      BY <1>1, <2>1, <2>3
    <2> QED
      BY <2>1, <2>2, <2>4 DEF SearchInv
  <1>20. ASSUME NEW r \in untold, CreateRoomFails(r) PROVE SearchInv'
    <2>1. /\ untold' = untold \ {r}
          /\ UNCHANGED <<visits, leaves, hasTicket, calls, status, waiting, leaving, screen, channel>>
      BY <1>20 DEF CreateRoomFails
    <2>2. untold' = {} /\ ~waiting /\ \A v \in Visit : calls[v] # "sent"
      BY <1>1, <2>1
    <2>3. Begun' => Begun
      BY <1>5, <2>1
    <2>4. Begun' => status' # "searching" /\ \A v \in Visit : v = visits' => calls'[v] = "done"
      BY <1>1, <2>1, <2>3
    <2> QED
      BY <2>1, <2>2, <2>4 DEF SearchInv
  <1>21. CASE Taken
    <2>1. /\ waiting /\ waiting' = FALSE /\ untold' = {rooms + 1}
          /\ UNCHANGED <<visits, leaves, hasTicket, calls, status, leaving, screen, channel>>
      BY <1>21 DEF Taken
    <2>2. \A v \in Visit : calls[v] # "sent" /\ (v = visits => ~Arrived(v))
      BY <1>1, <2>1
    <2>3. \A v \in Visit : v = visits' => ~Arrived(v)'
      BY <2>1, <2>2 DEF Arrived
    <2>4. ~Begun'
      BY <1>1, <1>5, <2>1
    <2> QED
      BY <2>1, <2>2, <2>3, <2>4 DEF SearchInv
  <1>22. ASSUME RecordStats \/ BroadcastWaitUpdate PROVE SearchInv'
    <2>1. UNCHANGED <<visits, leaves, hasTicket, calls, status, waiting, untold, leaving, screen>>
      BY <1>22 DEF RecordStats, BroadcastWaitUpdate
    <2>2. \A r \in untold : ~Told(r)
      BY <2>1 DEF Told
    <2> QED
      BY <1>5, <1>6, <2>1, <2>2
  <1> QED
    BY <1>7, <1>8, <1>9, <1>10, <1>11, <1>12, <1>13, <1>14, <1>15, <1>16, <1>17, <1>18, <1>19,
       <1>20, <1>21, <1>22
    DEF AppNext, PlayerStep, AppStep, ServerStep
(* A player whose app is idle is not in the pool, however often he comes    *)
(* back and whatever fails on the way, as long as he waits for the calls of *)
(* the screen before he leaves it and for the end of a search before he     *)
(* begins another, and neither a reply nor a stream is lost                 *)
(* (matchmaking_provider.dart:29-70, server.go:30-64).                      *)
THEOREM PatientPlayerIsOut == AppSpec => []IdleIsOut
  <1> DEFINE Inv == AppInv /\ PatientInv
  <1>1. AppInit => Inv
    <2> SUFFICES ASSUME AppInit PROVE Inv
      OBVIOUS
    <2>1. AppInv
      BY AppInvInit
    <2>2. /\ calls = [v \in Visit |-> "none"] /\ leaves = [v \in Visit |-> "none"]
          /\ listening = {} /\ screen = "profile" /\ visits = 0 /\ waiting = FALSE /\ untold = {}
          /\ leaving = {} /\ \A v \in Visit : v > 0 /\ v \in Nat
      BY DEF AppInit, Visit
    <2>3. LastVisitInv
      BY <2>2 DEF LastVisitInv
    <2>4. SearchInv
      BY <2>2 DEF SearchInv, Begun
    <2> QED
      BY <2>1, <2>3, <2>4 DEF PatientInv
  <1>2. Inv /\ [AppNext]_appVars => Inv'
    <2> SUFFICES ASSUME AppInv, PatientInv, [AppNext]_appVars PROVE AppInv' /\ PatientInv'
      OBVIOUS
    <2>1. AppInv'
      BY AppInvStep
    <2>2. CASE AppNext
      <3> SUFFICES ASSUME ~hasty', ~lost' PROVE LastVisitInv' /\ SearchInv'
        BY <2>1 DEF PatientInv
      <3>1. LastVisitInv /\ SearchInv
        BY <2>2, HistoryGrows DEF PatientInv
      <3> QED
        BY <2>2, <3>1, LastVisitStep, SearchStep
    <2>3. CASE UNCHANGED appVars
      <3> USE <2>3 DEF appVars, matchVars, gameVars, statsVars, serverVars, historyVars
      <3>1. LastVisitInv => LastVisitInv'
        BY DEF LastVisitInv
      <3>2. SearchInv => SearchInv'
        BY DEF SearchInv, Arrived, Begun
      <3> QED
        BY <2>1, <3>1, <3>2 DEF PatientInv
    <2> QED
      BY <2>2, <2>3
  <1>3. Inv => IdleIsOut
    BY DEF PatientInv, SearchInv, IdleIsOut
  <1> HIDE DEF Inv
  <1> QED
    BY <1>1, <1>2, <1>3, PTL DEF AppSpec
=============================================================================
