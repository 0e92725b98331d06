------------------------------- MODULE Room -------------------------------
(***************************************************************************)
(* What the quiz engine and the scoring service share about one room: the  *)
(* Redis leaderboard, the two RabbitMQ queues that lead from the engine to  *)
(* the scoring service, and the count of the faults that happened so far.   *)
(*                                                                         *)
(* Every key, queue message and timer of the program is qualified by its   *)
(* room, so one room is the unit of the model.                             *)
(***************************************************************************)
EXTENDS Integers, Sequences, FiniteSets

CONSTANTS
  Player,       \* the users of the room, as numbers: Redis breaks ties by id
  TotalRounds,  \* rounds of the match (5 in matcher.go)
  Points,       \* the values CalculatePoints can give one answer; negative
                \* only after a response time of some -10^11 ms, which the
                \* models leave out
  MaxFaults     \* bound: how many faults (crash, lost publish, ...) may occur

ASSUME RoomAssumption ==
  /\ Player \subseteq Nat
  /\ IsFiniteSet(Player)
  /\ TotalRounds \in Nat \ {0}
  /\ Points \subseteq Nat
  /\ MaxFaults \in Nat

VARIABLES
  leaderboard,  \* room:{id}:leaderboard, the score of every player
  answerQ,      \* answer-processing-queue: answers waiting to be scored
  finishedQ,    \* match-finished-queue: match.finished waiting to be handled
  faults        \* how many faults have happened

sharedVars == <<leaderboard, answerQ, finishedQ, faults>>

Rounds == 1..TotalRounds

(* An answer, as the answers hash and the answer.submitted event carry it.  *)
(* pts is what CalculatePoints makes of its correctness, its response time  *)
(* and the difficulty of its question.                                      *)
Answer == [round : Rounds, player : Player, pts : Points]

(* match.finished names its room and nothing else. *)
MatchFinished == "match.finished"

SharedTypeOK ==
  /\ leaderboard \in [Player -> Nat]
  /\ answerQ \in Seq(Answer)
  /\ finishedQ \in Seq({MatchFinished})
  /\ faults \in 0..MaxFaults

SharedInit ==
  /\ leaderboard = [u \in Player |-> 0]
  /\ answerQ = <<>>
  /\ finishedQ = <<>>
  /\ faults = 0

(* One more fault, within the bound. *)
Fault ==
  /\ faults < MaxFaults
  /\ faults' = faults + 1

(* What a publish makes of the queue q: the message is appended, or the     *)
(* call fails, which the callers only log, and the message is lost.         *)
Published(q, newq, m) ==
  \/ newq = Append(q, m) /\ UNCHANGED faults
  \/ newq = q /\ Fault

(* ZREVRANGE over the leaderboard: higher scores first, equal scores in     *)
(* descending order of the member.                                          *)
Outranks(board, u, v) ==
  board[u] > board[v] \/ (board[u] = board[v] /\ u > v)

(* The first entry of the standings. *)
Winner(board) ==
  CHOOSE u \in Player : \A v \in Player \ {u} : Outranks(board, u, v)

=============================================================================
