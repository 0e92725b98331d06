----------------------------- MODULE GameClient -----------------------------
(***************************************************************************)
(* GameNotifier, the state of a match in the Flutter app: what one client   *)
(* makes of the events of its stream, and the answers it gives.  It knows   *)
(* of the match only what the events tell.                                  *)
(***************************************************************************)
EXTENDS Naturals

CONSTANT Round  \* the rounds of the match; 0 stands for none

VARIABLES
  playing,       \* has startGame been called?
  currentRound,  \* the round on the screen
  clock,         \* the round whose remaining seconds the countdown shows
  selected,      \* has the player selected an answer?
  roundResults,  \* the round whose result was booked for every round
  matchResult    \* is the final result on the screen?

appVars == <<playing, currentRound, clock, selected, roundResults, matchResult>>

NoRound == 0

(* What the stream carries.  Of their fields the events keep the round;     *)
(* MatchEnd has none, and comes after the last.                             *)
QuestionBroadcast(r) == [kind |-> "question", round |-> r]
TimerSync(r)         == [kind |-> "timerSync", round |-> r]
RoundResult(r)       == [kind |-> "roundResult", round |-> r]
LeaderboardUpdate(r) == [kind |-> "leaderboard", round |-> r]
MatchEnd(r)          == [kind |-> "matchEnd", round |-> r]

GameEvent == [kind : {"question", "timerSync", "roundResult", "leaderboard", "matchEnd"},
              round : Round]

(* Every variable has its type. *)
ClientTypeInv ==
  /\ playing \in BOOLEAN
  /\ currentRound \in Round \cup {NoRound}
  /\ clock \in Round \cup {NoRound}
  /\ selected \in BOOLEAN
  /\ roundResults \in [Round \cup {NoRound} -> Round \cup {NoRound}]
  /\ matchResult \in BOOLEAN

ClientInit ==
  /\ playing = FALSE
  /\ currentRound = NoRound
  /\ clock = NoRound
  /\ selected = FALSE
  /\ roundResults = [r \in Round \cup {NoRound} |-> NoRound]
  /\ matchResult = FALSE

-----------------------------------------------------------------------------
startGame ==
  /\ ~playing
  /\ playing' = TRUE
  /\ UNCHANGED <<currentRound, clock, selected, roundResults, matchResult>>

(* A question clears the selected answer and restarts the countdown. *)
onQuestionBroadcast(e) ==
  /\ currentRound' = e.round
  /\ clock' = e.round
  /\ selected' = FALSE
  /\ UNCHANGED <<playing, roundResults, matchResult>>

(* The countdown continues from the seconds of the event, whatever round    *)
(* they are for.                                                            *)
onTimerSync(e) ==
  /\ clock' = e.round
  /\ UNCHANGED <<playing, currentRound, selected, roundResults, matchResult>>

(* The result is booked for the round on the screen. *)
onRoundResult(e) ==
  /\ roundResults' = [roundResults EXCEPT ![currentRound] = e.round]
  /\ UNCHANGED <<playing, currentRound, clock, selected, matchResult>>

onLeaderboardUpdate == UNCHANGED appVars

(* The final result; the client cancels its stream. *)
onMatchEnd ==
  /\ matchResult' = TRUE
  /\ UNCHANGED <<playing, currentRound, clock, selected, roundResults>>

OnEvent(e) ==
  \/ e.kind = "question" /\ onQuestionBroadcast(e)
  \/ e.kind = "timerSync" /\ onTimerSync(e)
  \/ e.kind = "roundResult" /\ onRoundResult(e)
  \/ e.kind = "leaderboard" /\ onLeaderboardUpdate
  \/ e.kind = "matchEnd" /\ onMatchEnd

(* One answer for a question; its RPC carries the round on the screen. *)
selectAnswer(r) ==
  /\ ~selected
  /\ currentRound # NoRound
  /\ r = currentRound
  /\ selected' = TRUE
  /\ UNCHANGED <<playing, currentRound, clock, roundResults, matchResult>>

=============================================================================
