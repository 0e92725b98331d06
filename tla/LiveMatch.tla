----------------------------- MODULE LiveMatch -----------------------------
(***************************************************************************)
(* A match as its players see it: the quiz engine, its game streams, and    *)
(* the app of one player.  What the engine broadcasts goes through the      *)
(* channel and the stream of the player to the app; the answers of the app  *)
(* are RPCs to the engine.  The app uses RealQuizGrpcClient                 *)
(* (real_quiz_client.dart); its default, QuizGrpcClient, simulates a server *)
(* and is not modelled.                                                     *)
(*                                                                         *)
(* Senders never wait for a stream, so the streams of other players change  *)
(* nothing for this one.  The counting of the 5 seconds is abstracted: a    *)
(* syncTimer may send at any time until the deadline of its round.          *)
(***************************************************************************)
EXTENDS QuizEngine, Streams, GameClient

CONSTANTS
  Me,       \* the player whose app is modelled
  Mine,     \* the connection of the app; others are opened by other clients
  MaxSyncs  \* bound: how many timerSync events are sent

(* Nothing fails here: what faults do to the engine is in QuizEngine. *)
ASSUME LiveAssumption ==
  /\ MaxFaults = 0
  /\ Mine \in Conn
  /\ Owner[Mine] = Me
  /\ Me \in Player
  /\ Round = Rounds
  /\ Event = GameEvent
  /\ MaxSyncs \in Nat

VARIABLES
  syncing,   \* the rounds whose syncTimer goroutine runs
  syncs,     \* how many timerSync events were sent
  \* history variables
  early,     \* was the stream of the app registered before round 1 began?
  dropped,   \* was an event dropped because the channel was full?
  late,      \* was a round completed, or opened, again after the next one began?
  hurried    \* was a round completed by its answers, and not by its timer?

watchVars == <<early, dropped, late, hurried>>
liveVars  == <<sharedVars, engineVars, streamVars, appVars, syncing, syncs, watchVars>>

(* Every variable of the composition has its type. *)
LiveTypeOK ==
  /\ EngineTypeOK
  /\ StreamsTypeOK
  /\ ClientTypeInv
  /\ syncing \subseteq Rounds
  /\ syncs \in 0..MaxSyncs
  /\ early \in BOOLEAN
  /\ dropped \in BOOLEAN
  /\ late \in BOOLEAN
  /\ hurried \in BOOLEAN

LiveInit ==
  /\ SharedInit
  /\ EngineInit
  /\ StreamsInit
  /\ ClientInit
  /\ syncing = {}
  /\ syncs = 0
  /\ early = FALSE
  /\ dropped = FALSE
  /\ late = FALSE
  /\ hurried = FALSE

-----------------------------------------------------------------------------
NextBegan(r) == r < TotalRounds /\ Started(r + 1)

(* What SubmitAnswer is sent. *)
AnswerRequest(r, p) == [round |-> r, player |-> Me, pts |-> p]

(* The events es are sent to the streams of the room. *)
Sent(es) ==
  /\ BroadcastToRoom(es)
  /\ dropped' = (dropped \/ \E u \in User : registered[u] # NoConn
                                /\ Len(channel[registered[u]]) + Len(es) > Capacity)

(* BeginMatch opens round 1, if there is a question for it. *)
LiveBeginMatch ==
  /\ BeginMatch
  /\ IF mc.size > 0 THEN Sent(<<QuestionBroadcast(1)>>)
                    ELSE UNCHANGED <<streamVars, dropped>>
  /\ UNCHANGED <<appVars, syncing, syncs, early, late, hurried>>

LiveWakeUp(r) ==
  /\ WakeUp(r)
  /\ Sent(<<QuestionBroadcast(r)>>)
  /\ late' = (late \/ NextBegan(r))
  /\ UNCHANGED <<appVars, syncing, syncs, early, hurried>>

(* StartRound ends with the goroutine that sends timerSync, ... *)
LiveArmFirstRound ==
  /\ ArmFirstRound
  /\ syncing' = syncing \cup {1}
  /\ UNCHANGED <<streamVars, appVars, syncs, watchVars>>

LiveArmRound(r) ==
  /\ ArmRound(r)
  /\ syncing' = syncing \cup {r}
  /\ UNCHANGED <<streamVars, appVars, syncs, watchVars>>

(* ... every 5 seconds until the deadline of the round, also when the round *)
(* has been completed and the next one is open.                             *)
SyncTimer(r) ==
  /\ r \in syncing
  /\ syncs < MaxSyncs
  /\ syncs' = syncs + 1
  /\ Sent(<<TimerSync(r)>>)
  /\ UNCHANGED <<sharedVars, engineVars, appVars, syncing, early, late, hurried>>

(* The result of the round, if its question can be read, and the            *)
(* leaderboard.                                                             *)
LiveRevealRound ==
  /\ RevealRound
  /\ LET r == Head(completedQ)
         result == IF r <= Len(questions)
                   THEN <<RoundResult(r)>> ELSE <<>>
     IN  /\ Sent(result \o <<LeaderboardUpdate(r)>>)
         /\ late' = (late \/ NextBegan(r))
  /\ UNCHANGED <<appVars, syncing, syncs, early, hurried>>

(* Mutant: MatchEnd is not sent. *)
SilentEndMatch ==
  /\ EndMatch
  /\ UNCHANGED <<streamVars, appVars, syncing, syncs, watchVars>>

LiveEndMatch ==
  /\ EndMatch
  /\ Sent(<<MatchEnd(TotalRounds)>>)
  /\ UNCHANGED <<appVars, syncing, syncs, early, late, hurried>>

(* Mutant: the syncTimer does not look at the deadline. *)
FireTimerOnly ==
  /\ FireTimer
  /\ UNCHANGED <<streamVars, appVars, syncing, syncs, watchVars>>

(* The time of a round is up: its timer fires and its syncTimer returns. *)
LiveFireTimer ==
  /\ FireTimer
  /\ syncing' = syncing \ {timer}
  /\ UNCHANGED <<streamVars, appVars, syncs, watchVars>>

(* A completed round stops the timer, but not the syncTimer. *)
LiveStopTimer(c) ==
  /\ StopTimer(c)
  /\ hurried' = TRUE
  /\ UNCHANGED <<streamVars, appVars, syncing, syncs, early, dropped, late>>

(* The steps of the engine that no stream sees. *)
QuietStep ==
  /\ \/ SelectQuestions \/ PushQuestion
     \/ ScheduleNext \/ NoNextQuestion \/ FinishMatch \/ AckCompleted
     \/ \E r \in Rounds : PublishTimeout(r)
     \/ \E c \in Call : StoreAnswer(c) \/ PublishAnswer(c) \/ CheckAllAnswered(c)
                        \/ PublishCompleted(c)
  /\ UNCHANGED <<streamVars, appVars, syncing, syncs, watchVars>>

-----------------------------------------------------------------------------
(* The app starts the game and its stream is registered; other clients of   *)
(* the player may open streams, too.                                        *)
Subscribe(c) ==
  /\ IF c = Mine THEN startGame /\ early' = ~Started(1) ELSE UNCHANGED <<appVars, early>>
  /\ Register(c)
  /\ UNCHANGED <<sharedVars, engineVars, syncing, syncs, dropped, late, hurried>>

(* A client goes away, or has cancelled its stream after MatchEnd. *)
ClientGone(c) ==
  /\ HangUp(c)
  /\ UNCHANGED <<sharedVars, engineVars, appVars, syncing, syncs, watchVars>>

(* The handler of a stream passes an event on; the app handles it.          *)
Deliver(c) ==
  /\ \E e \in Event :
       /\ Receive(c, e)
       /\ IF c = Mine /\ c \notin hungUp /\ ~matchResult THEN OnEvent(e) ELSE UNCHANGED appVars
  /\ UNCHANGED <<sharedVars, engineVars, syncing, syncs, watchVars>>

EndStream(c) ==
  /\ Return(c)
  /\ UNCHANGED <<sharedVars, engineVars, appVars, syncing, syncs, watchVars>>

(* The player selects an answer, and the app calls SubmitAnswer for the     *)
(* round on the screen.  The engine takes the call if that round is still   *)
(* current; a call that it refuses, or that is lost, changes nothing there. *)
Answers(r) ==
  /\ selectAnswer(r)
  /\ \/ \E c \in Call, p \in Points : ValidateAnswer(c, AnswerRequest(r, p))
     \/ UNCHANGED <<sharedVars, engineVars>>
  /\ UNCHANGED <<streamVars, syncing, syncs, watchVars>>

(* Another player answers.  What his app knows of the rounds is what its    *)
(* stream has told it, so that he may answer any round at any time.         *)
OthersAnswer(c) ==
  /\ \E a \in Answer : a.player # Me /\ ValidateAnswer(c, a)
  /\ UNCHANGED <<streamVars, appVars, syncing, syncs, watchVars>>

-----------------------------------------------------------------------------
HandlerStep ==
  \/ QuietStep
  \/ LiveBeginMatch
  \/ LiveArmFirstRound
  \/ LiveRevealRound
  \/ LiveEndMatch
  \/ LiveFireTimer
  \/ \E c \in Call : LiveStopTimer(c)
  \/ \E r \in Rounds : LiveWakeUp(r) \/ LiveArmRound(r)

LiveNext ==
  \/ HandlerStep
  \/ \E r \in Rounds : SyncTimer(r) \/ Answers(r)
  \/ \E c \in Call : OthersAnswer(c)
  \/ \E c \in Conn : Subscribe(c) \/ ClientGone(c) \/ Deliver(c) \/ EndStream(c)

(* The goroutines of the engine and the handlers of the streams run. *)
LiveSpec ==
  /\ LiveInit
  /\ [][LiveNext]_liveVars
  /\ EngineFairness
  /\ \A c \in Conn : WF_liveVars(Deliver(c)) /\ WF_liveVars(EndStream(c))

-----------------------------------------------------------------------------
(* The app books the result of a round for that round if its stream was     *)
(* there before round 1, no event was dropped, and no round was completed   *)
(* or opened again after the next one began: the app does not look at the   *)
(* round of the event (game_provider.dart:78-97, streamer.go:48-60).        *)
BookedUnderItsRound ==
  early /\ ~dropped /\ ~late =>
    /\ roundResults[NoRound] = NoRound
    /\ \A r \in Rounds : roundResults[r] \in {NoRound, r}

(* The countdown on the screen is that of the round on the screen, for such *)
(* an app, as long as every round lasts until its time is up.  The          *)
(* syncTimer of a round that all players answered outlives it               *)
(* (round.go:80, 87-112, game_provider.dart:72-76).                         *)
CountdownOfTheRound ==
  early /\ ~dropped /\ ~late /\ ~hurried => clock = currentRound

(* An app whose stream is there before the match ends sees the final        *)
(* result, if the player stays, no event is dropped and nobody else opens a *)
(* stream under its name (round_completed.go:95-98, streamer.go:48-60).     *)
EndIsSeen ==
  Mine \in serving /\ ~ended ~>
    matchResult \/ Mine \in hungUp \/ dropped \/ (serving \cup served) \ {Mine} # {}
=============================================================================
