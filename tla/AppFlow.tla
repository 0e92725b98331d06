------------------------------ MODULE AppFlow ------------------------------
(***************************************************************************)
(* The Flutter app from the profile to the results of a match and back: its *)
(* screens, MatchmakingNotifier with its pending calls and its stream, the  *)
(* subscriptions of GameNotifier, and UserStatsNotifier.  The app uses      *)
(* RealMatchmakingGrpcClient and RealQuizGrpcClient.                        *)
(*                                                                         *)
(* The services are here what this one user sees of them: one instance of   *)
(* matchmaking (module Matchmaking), whose tick may find any number of      *)
(* other players, and per room a stream of rounds until MatchEnd.           *)
(***************************************************************************)
EXTENDS Naturals, Sequences, FiniteSets

CONSTANTS
  MaxJoins,   \* bound: how often the player enters the matchmaking screen
  MaxStarts,  \* bound: how often startGame is called
  Capacity,   \* how many events a channel holds (10)
  MaxWaits,   \* bound: how many WaitUpdates are sent
  MaxFaults   \* bound: how many calls fail

ASSUME AppAssumption ==
  {MaxJoins, MaxStarts, Capacity, MaxWaits, MaxFaults} \subseteq Nat

VARIABLES
  \* the app
  screen,      \* what it shows
  status,      \* MatchmakingState.status
  foundRoom,   \* MatchmakingState.roomId
  calls,       \* joinMatchmaking: how far the call of every visit has come
  leaves,      \* leaveMatchmaking: the same
  hasTicket,   \* is _ticketId set?
  current,     \* MatchmakingNotifier._subscription
  listening,   \* the match streams that are subscribed, by visit
  visits,      \* how often the matchmaking screen was entered
  leaving,     \* the rooms a visit is about to navigate to, by Future.delayed
  games,       \* the room of every startGame
  playing,     \* the game streams that are subscribed, by startGame
  gameStream,  \* GameNotifier._subscription
  gameRoom,    \* GameState.roomId
  played,      \* has GameState a round result?
  result,      \* GameState.matchResult: the room it is of
  noted,       \* _statsRecorded of the results screen
  recorded,    \* UserStats: how often the match of every room was counted
  \* the services, and the way to them
  waiting,     \* is the player in the pool?
  rooms,       \* how many rooms were made with the player
  untold,      \* the one the player is yet to be told of
  streams,     \* SubscribeToMatch: how far the call of every visit has come
  registered,  \* the stream registered for the player
  closed,      \* the streams whose channel was closed
  channel,     \* what is on the way on every stream
  over,        \* the rooms whose MatchEnd was sent
  waits,       \* how many WaitUpdates were sent
  faults,      \* how many calls have failed
  \* history
  strayed,     \* did the player leave the matchmaking screen before the game?
  hasty,       \* ... while the call of joinMatchmaking was pending, or come
               \* back before the earlier visit was over?
  lost,        \* was a reply of joinMatchmaking or a match stream lost?
  nudged       \* was a WaitUpdate handled between MatchFound and the game?

matchVars   == <<status, foundRoom, calls, leaves, hasTicket, current, listening>>
gameVars    == <<games, playing, gameStream, gameRoom, played, result>>
statsVars   == <<noted, recorded>>
serverVars  == <<waiting, rooms, untold, streams, registered, closed, over, waits>>
historyVars == <<strayed, hasty, lost, nudged>>
appVars     == <<screen, matchVars, visits, leaving, gameVars, statsVars, serverVars, channel,
                 faults, historyVars>>

Visit == 1..MaxJoins
Game  == 1..MaxStarts
None  == 0

WaitUpdate == None  \* the other events are MatchFound, with a room

(* Every variable has its type. *)
AppTypeOK ==
  /\ screen \in {"profile", "matchmaking", "game", "leaderboard", "results"}
  /\ status \in {"idle", "searching", "found"}
  /\ {foundRoom, gameRoom, result} \subseteq 0..rooms
  /\ calls \in [Visit -> {"none", "sent", "added", "done"}]
  /\ leaves \in [Visit -> {"none", "sent", "removed", "done"}]
  /\ {hasTicket, played, noted, waiting, strayed, hasty, lost, nudged} \subseteq BOOLEAN
  /\ current \in 0..visits /\ visits \in 0..MaxJoins
  /\ listening \subseteq Visit
  /\ leaving \subseteq Visit \X (1..rooms)
  /\ Len(games) <= MaxStarts /\ games \in Seq(1..rooms)
  /\ playing \subseteq DOMAIN games /\ gameStream \in {None} \cup DOMAIN games
  /\ rooms \in 0..MaxJoins
  /\ recorded \in [Visit -> Nat]
  /\ untold \cup over \subseteq 1..rooms
  /\ streams \in [Visit -> {"none", "asked", "serving", "over"}]
  /\ registered \in {None} \cup Visit
  /\ closed \subseteq Visit
  /\ channel \in [Visit -> Seq(0..rooms)]
  /\ waits \in 0..MaxWaits /\ faults \in 0..MaxFaults

AppInit ==
  /\ screen = "profile" /\ status = "idle" /\ foundRoom = None
  /\ calls = [v \in Visit |-> "none"] /\ leaves = [v \in Visit |-> "none"]
  /\ hasTicket = FALSE /\ current = None /\ listening = {}
  /\ visits = 0 /\ leaving = {}
  /\ games = <<>> /\ playing = {} /\ gameStream = None
  /\ gameRoom = None /\ played = FALSE /\ result = None
  /\ noted = FALSE /\ recorded = [v \in Visit |-> 0]
  /\ waiting = FALSE /\ rooms = 0 /\ untold = {}
  /\ streams = [v \in Visit |-> "none"]
  /\ registered = None /\ closed = {} /\ channel = [v \in Visit |-> <<>>]
  /\ over = {} /\ waits = 0 /\ faults = 0
  /\ strayed = FALSE /\ hasty = FALSE /\ lost = FALSE /\ nudged = FALSE

Fault == faults < MaxFaults /\ faults' = faults + 1

-----------------------------------------------------------------------------
(* The app.  Entering the matchmaking screen calls joinMatchmaking. *)
EnterMatchmaking ==
  /\ screen = "profile"
  /\ visits < MaxJoins
  /\ screen' = "matchmaking"
  /\ visits' = visits + 1
  /\ status' = "searching"
  /\ calls' = [calls EXCEPT ![visits + 1] = "sent"]
  /\ hasty' = (hasty \/ status # "idle" \/ untold # {}
                    \/ \E v \in Visit : leaves[v] \in {"sent", "removed"})
  /\ UNCHANGED <<foundRoom, leaves, hasTicket, current, listening, leaving, gameVars, statsVars,
                 serverVars, channel, faults, strayed, lost, nudged>>

(* The reply of joinMatchmaking: the app subscribes.  Whether the player is *)
(* still there is not asked, and an earlier subscription is not cancelled.  *)
Subscribe(v) ==
  /\ calls[v] = "added"
  /\ calls' = [calls EXCEPT ![v] = "done"]
  /\ hasTicket' = TRUE
  /\ current' = v
  /\ listening' = listening \cup {v}
  /\ streams' = [streams EXCEPT ![v] = "asked"]
  /\ UNCHANGED <<screen, status, foundRoom, leaves, visits, leaving, gameVars, statsVars, waiting,
                 rooms, untold, registered, closed, over, waits, channel, faults, historyVars>>

(* joinMatchmaking throws: the state stays as it is. *)
JoinFails(v) ==
  /\ calls[v] \in {"sent", "added"}
  /\ Fault
  /\ calls' = [calls EXCEPT ![v] = "done"]
  /\ lost' = (lost \/ calls[v] = "added")
  /\ UNCHANGED <<screen, status, foundRoom, leaves, hasTicket, current, listening, visits, leaving,
                 gameVars, statsVars, serverVars, channel, strayed, hasty, nudged>>

(* Mutant: the ticket is not looked for. *)
CancelHere ==
  /\ screen = "matchmaking"
  /\ status # "found"
  /\ screen' = "profile"
  /\ listening' = listening \ {current}
  /\ status' = "idle" /\ foundRoom' = None
  /\ strayed' = TRUE
  /\ hasty' = (hasty \/ calls[visits] # "done")
  /\ UNCHANGED <<calls, leaves, hasTicket, current, visits, leaving, gameVars, statsVars,
                 serverVars, channel, faults, lost, nudged>>

(* The cancel button: leaveMatchmaking, which calls the service if there is *)
(* a ticket, be it that of an earlier visit.                                *)
Cancel ==
  /\ screen = "matchmaking"
  /\ status # "found"
  /\ screen' = "profile"
  /\ listening' = listening \ {current}
  /\ IF hasTicket
     THEN leaves' = [leaves EXCEPT ![visits] = "sent"] /\ UNCHANGED <<status, foundRoom>>
     ELSE status' = "idle" /\ foundRoom' = None /\ UNCHANGED leaves
  /\ strayed' = TRUE
  /\ hasty' = (hasty \/ calls[visits] # "done")
  /\ UNCHANGED <<calls, hasTicket, current, visits, leaving, gameVars, statsVars, serverVars,
                 channel, faults, lost, nudged>>

(* The reply of leaveMatchmaking, or its failure. *)
LeaveReplied(v) ==
  /\ leaves[v] = "removed"
  /\ leaves' = [leaves EXCEPT ![v] = "done"]
  /\ status' = "idle" /\ foundRoom' = None
  /\ UNCHANGED <<screen, calls, hasTicket, current, listening, visits, leaving, gameVars,
                 statsVars, serverVars, channel, faults, historyVars>>

LeaveFails(v) ==
  /\ leaves[v] \in {"sent", "removed"}
  /\ Fault
  /\ leaves' = [leaves EXCEPT ![v] = "done"]
  /\ UNCHANGED <<screen, status, foundRoom, calls, hasTicket, current, listening, visits, leaving,
                 gameVars, statsVars, serverVars, channel, historyVars>>

(* The button that shows the profile leaves everything as it is. *)
ShowProfile ==
  /\ screen = "matchmaking"
  /\ screen' = "profile"
  /\ strayed' = TRUE
  /\ hasty' = (hasty \/ calls[visits] # "done")
  /\ UNCHANGED <<matchVars, visits, leaving, gameVars, statsVars, serverVars, channel, faults,
                 lost, nudged>>

(* startGame: a new state and a new subscription; an earlier one is not     *)
(* cancelled.                                                               *)
startGame(r) ==
  /\ Len(games) < MaxStarts
  /\ games' = Append(games, r)
  /\ gameStream' = Len(games')
  /\ playing' = playing \cup {gameStream'}
  /\ gameRoom' = r /\ played' = FALSE /\ result' = None

(* An event of a match stream.  The matchmaking screen, if it is shown,     *)
(* starts the game upon every change of the state that leaves a found room  *)
(* in it, and navigates after 1.5 seconds.                                  *)
OnMatchEvent(v) ==
  /\ v \in listening
  /\ channel[v] # <<>>
  /\ channel' = [channel EXCEPT ![v] = Tail(@)]
  /\ LET e == Head(channel[v])
     IN  IF e = WaitUpdate
         THEN /\ nudged' = (nudged \/ (status = "found" /\ screen = "matchmaking"))
              /\ UNCHANGED <<status, foundRoom>>
         ELSE status' = "found" /\ foundRoom' = e /\ UNCHANGED nudged
  /\ IF screen = "matchmaking" /\ status' = "found"
     THEN startGame(foundRoom') /\ leaving' = leaving \cup {<<visits, foundRoom'>>}
     ELSE UNCHANGED <<gameVars, leaving>>
  /\ UNCHANGED <<screen, calls, leaves, hasTicket, current, listening, visits, statsVars, serverVars,
                 faults, strayed, hasty, lost>>

(* A match stream fails: the player is told nothing, the search is over. *)
MatchStreamFails(v) ==
  /\ v \in listening
  /\ Fault
  /\ listening' = listening \ {v}
  /\ status' = "idle" /\ foundRoom' = None
  /\ lost' = TRUE
  /\ UNCHANGED <<screen, calls, leaves, hasTicket, current, visits, leaving, gameVars, statsVars,
                 serverVars, channel, strayed, hasty, nudged>>

(* The delayed navigation, if the same screen is still there. *)
Navigate(v, r) ==
  /\ <<v, r>> \in leaving
  /\ leaving' = leaving \ {<<v, r>>}
  /\ screen' = IF screen = "matchmaking" /\ v = visits THEN "game" ELSE screen
  /\ UNCHANGED <<matchVars, visits, gameVars, statsVars, serverVars, channel, faults, historyVars>>

-----------------------------------------------------------------------------
(* What this user sees of matchmaking.  JoinMatchmaking and                 *)
(* LeaveMatchmaking are handled.                                            *)
Unregister ==
  /\ closed' = closed \cup ({registered} \ {None})
  /\ registered' = None

Added(v) ==
  /\ calls[v] = "sent"
  /\ calls' = [calls EXCEPT ![v] = "added"]
  /\ waiting' = TRUE
  /\ UNCHANGED <<screen, status, foundRoom, leaves, hasTicket, current, listening, visits, leaving,
                 gameVars, statsVars, rooms, untold, streams, registered, closed, over, waits,
                 channel, faults, historyVars>>

Removed(v) ==
  /\ leaves[v] = "sent"
  /\ leaves' = [leaves EXCEPT ![v] = "removed"]
  /\ waiting' = FALSE
  /\ Unregister
  /\ UNCHANGED <<screen, status, foundRoom, calls, hasTicket, current, listening, visits, leaving,
                 gameVars, statsVars, rooms, untold, streams, over, waits, channel, faults,
                 historyVars>>

Subscribed(v) ==
  /\ streams[v] = "asked"
  /\ streams' = [streams EXCEPT ![v] = "serving"]
  /\ registered' = v
  /\ UNCHANGED <<screen, matchVars, visits, leaving, gameVars, statsVars, waiting, rooms, untold,
                 closed, over, waits, channel, faults, historyVars>>

(* SubscribeToMatch returns; a client that still listens sees the end.      *)
Unsubscribed(v) ==
  /\ streams[v] = "serving"
  /\ v \notin listening \/ (v \in closed /\ channel[v] = <<>>)
  /\ streams' = [streams EXCEPT ![v] = "over"]
  /\ Unregister
  /\ listening' = listening \ {v}
  /\ UNCHANGED <<screen, status, foundRoom, calls, leaves, hasTicket, current, visits, leaving,
                 gameVars, statsVars, waiting, rooms, untold, over, waits, channel, faults,
                 historyVars>>

(* Mutant: the tick leaves the player in the pool. *)
TakenAgain ==
  /\ waiting
  /\ untold = {}
  /\ rooms' = rooms + 1
  /\ untold' = untold \cup {rooms + 1}
  /\ UNCHANGED <<screen, matchVars, visits, leaving, gameVars, statsVars, waiting, streams,
                 registered, closed, over, waits, channel, faults, historyVars>>

(* A tick takes the player from the pool for a room, ...                    *)
Taken ==
  /\ waiting
  /\ untold = {}
  /\ waiting' = FALSE
  /\ rooms' = rooms + 1
  /\ untold' = untold \cup {rooms + 1}
  /\ UNCHANGED <<screen, matchVars, visits, leaving, gameVars, statsVars, streams, registered, closed,
                 over, waits, channel, faults, historyVars>>

(* ... and tells the stream that is registered by then; or it tells all     *)
(* streams, those of matched players too, that there are too few players.   *)
(* An event that finds the channel full is dropped.                         *)
Sent(e) == channel' = IF registered = None \/ Len(channel[registered]) >= Capacity THEN channel
                      ELSE [channel EXCEPT ![registered] = Append(@, e)]

Told(r) ==
  /\ r \in untold
  /\ untold' = untold \ {r}
  /\ Sent(r)
  /\ UNCHANGED <<screen, matchVars, visits, leaving, gameVars, statsVars, waiting, rooms, streams,
                 registered, closed, over, waits, faults, historyVars>>

(* The room could not be written: nobody is told. *)
CreateRoomFails(r) ==
  /\ r \in untold
  /\ Fault
  /\ untold' = untold \ {r}
  /\ UNCHANGED <<screen, matchVars, visits, leaving, gameVars, statsVars, waiting, rooms, streams,
                 registered, closed, over, waits, channel, historyVars>>

BroadcastWaitUpdate ==
  /\ untold = {}
  /\ registered # None
  /\ waits < MaxWaits
  /\ waits' = waits + 1
  /\ Sent(WaitUpdate)
  /\ UNCHANGED <<screen, matchVars, visits, leaving, gameVars, statsVars, waiting, rooms, untold,
                 streams, registered, closed, over, faults, historyVars>>

-----------------------------------------------------------------------------
(* The game.  The last stream for a room is the one that is registered.     *)
Served(k) ==
  /\ k \in playing
  /\ \A j \in DOMAIN games : games[j] = games[k] => j <= k
  /\ games[k] \notin over

(* A round result and a leaderboard, which is shown if the app has seen a   *)
(* question.                                                                *)
OnRoundResult(k) ==
  /\ Served(k)
  /\ played' = (gameRoom # None)
  /\ screen' \in {screen} \cup IF screen = "game" THEN {"leaderboard"} ELSE {}
  /\ UNCHANGED <<matchVars, visits, leaving, games, playing, gameStream, gameRoom, result, statsVars,
                 serverVars, channel, faults, historyVars>>

OnQuestion(k) ==
  /\ Served(k)
  /\ screen = "leaderboard"
  /\ screen' = "game"
  /\ UNCHANGED <<matchVars, visits, leaving, gameVars, statsVars, serverVars, channel, faults,
                 historyVars>>

(* The failure of a game stream is not handled. *)
GameStreamFails(k) ==
  /\ k \in playing
  /\ Fault
  /\ playing' = playing \ {k}
  /\ UNCHANGED <<screen, matchVars, visits, leaving, games, gameStream, gameRoom, played, result,
                 statsVars, serverVars, channel, historyVars>>

(* The state takes the result of whatever stream it comes from. *)
OnMatchEnd(k) ==
  /\ Served(k)
  /\ over' = over \cup {games[k]}
  /\ playing' = playing \ {gameStream}
  /\ result' = IF gameRoom = None THEN None ELSE games[k]
  /\ IF gameRoom # None /\ result = None /\ screen \in {"game", "leaderboard"}
     THEN screen' = "results" /\ noted' = FALSE
     ELSE UNCHANGED <<screen, noted>>
  /\ UNCHANGED <<matchVars, visits, leaving, games, gameStream, gameRoom, played, recorded, waiting,
                 rooms, untold, streams, registered, closed, waits, channel, faults, historyVars>>

(* Mutant: reset forgets the subscription of the game. *)
ForgetGame ==
  /\ gameRoom' = None /\ played' = FALSE /\ result' = None
  /\ listening' = listening \ {current}
  /\ status' = "idle" /\ foundRoom' = None
  /\ UNCHANGED <<games, gameStream, playing, calls, leaves, hasTicket, current>>

(* reset of GameNotifier and of MatchmakingNotifier. *)
Reset ==
  /\ playing' = playing \ {gameStream}
  /\ gameRoom' = None /\ played' = FALSE /\ result' = None
  /\ listening' = listening \ {current}
  /\ status' = "idle" /\ foundRoom' = None
  /\ UNCHANGED <<games, gameStream, calls, leaves, hasTicket, current>>

recordMatch(r) == recorded' = [recorded EXCEPT ![r] = @ + 1]

(* The player exits; the rounds played so far are counted. *)
ExitGame ==
  /\ screen = "game"
  /\ gameRoom # None
  /\ IF played THEN recordMatch(gameRoom) ELSE UNCHANGED recorded
  /\ Reset
  /\ screen' = "profile"
  /\ UNCHANGED <<visits, leaving, noted, serverVars, channel, faults, historyVars>>

(* Mutant: the results are counted whenever they are shown. *)
RecordAgain ==
  /\ screen = "results"
  /\ gameRoom # None /\ result # None
  /\ recordMatch(result)
  /\ noted' = TRUE
  /\ UNCHANGED <<screen, matchVars, visits, leaving, gameVars, serverVars, channel, faults,
                 historyVars>>

(* The results screen counts the match once, after its first frame. *)
RecordStats ==
  /\ screen = "results"
  /\ ~noted
  /\ gameRoom # None /\ result # None
  /\ recordMatch(result)
  /\ noted' = TRUE
  /\ UNCHANGED <<screen, matchVars, visits, leaving, gameVars, serverVars, channel, faults,
                 historyVars>>

LeaveResults ==
  /\ screen = "results"
  /\ noted
  /\ Reset
  /\ screen' = "profile"
  /\ UNCHANGED <<visits, leaving, statsVars, serverVars, channel, faults, historyVars>>

-----------------------------------------------------------------------------
PlayerStep == EnterMatchmaking \/ Cancel \/ ShowProfile \/ ExitGame \/ LeaveResults

AppStep ==
  \/ \E v \in Visit : \/ Subscribe(v) \/ JoinFails(v) \/ LeaveReplied(v) \/ LeaveFails(v)
                      \/ OnMatchEvent(v) \/ MatchStreamFails(v)
                      \/ \E r \in 1..rooms : Navigate(v, r)
  \/ \E k \in DOMAIN games : OnRoundResult(k) \/ OnQuestion(k) \/ OnMatchEnd(k)
                               \/ GameStreamFails(k)
  \/ RecordStats

ServerStep ==
  \/ \E v \in Visit : Added(v) \/ Removed(v) \/ Subscribed(v) \/ Unsubscribed(v)
  \/ \E r \in untold : Told(r) \/ CreateRoomFails(r)
  \/ Taken \/ BroadcastWaitUpdate

AppNext == PlayerStep \/ AppStep \/ ServerStep

AppSpec == AppInit /\ [][AppNext]_appVars

-----------------------------------------------------------------------------
(* The app has one game stream at a time, that of the game on the screen,   *)
(* if its player goes from matchmaking to the game only and no WaitUpdate   *)
(* comes in between: startGame does not cancel the stream it replaces       *)
(* (game_provider.dart:24-56, matchmaking_screen.dart:33-51).               *)
OneGameStream ==
  ~strayed /\ ~nudged =>
    /\ Cardinality(playing) <= 1
    /\ \A k \in playing : games[k] = gameRoom

(* The statistics of the player count no match twice, whatever screens he   *)
(* goes through: neither one he exits nor one of two streams                *)
(* (user_stats_provider.dart:38-76, gameplay_screen.dart:42-60,             *)
(* results_screen.dart:25-45).                                              *)
CountedOnce == \A r \in Visit : recorded[r] <= 1

(* A player whose app is idle, with no call pending, is not in the pool, if *)
(* he never left the screen while it joined, or came back before the search *)
(* was over, and neither a reply nor a stream was lost                      *)
(* (matchmaking_provider.dart:29-70, server.go:30-64).                      *)
IdleIsOut ==
  /\ ~hasty /\ ~lost
  /\ status = "idle"
  /\ \A v \in Visit : calls[v] \in {"none", "done"} /\ leaves[v] \in {"none", "done"}
  => ~waiting
=============================================================================
