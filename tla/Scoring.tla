------------------------------ MODULE Scoring ------------------------------
(***************************************************************************)
(* The scoring service for one room: the consumer of answer-processing-     *)
(* queue, which marks an answer and adds its points to the leaderboard, and *)
(* the consumer of match-finished-queue, which writes the match history and *)
(* the statistics of the players to MongoDB.                                *)
(*                                                                         *)
(* Each consumer handles its queue one message at a time; a message stays   *)
(* on the queue until its handler returns.  One action per access to Redis  *)
(* or MongoDB.  The Redis client sends a command whose reply it did not get *)
(* again, on its own; where that can be told from a single send, it is an   *)
(* action (AddResent).                                                      *)
(***************************************************************************)
EXTENDS Room

VARIABLES
  \* Redis
  scored,    \* room:{id}:scored:{round} for all rounds
  \* MongoDB
  history,   \* the final scores in each match_history document of this room
  played,    \* users.matchesPlayed, the increments this room gave every player
  wins,      \* users.wins, likewise
  \* memory of the process
  ansPc,     \* the answer.submitted handler
  finPc,     \* the match.finished handler
  snapshot,  \* the leaderboard the match.finished handler has read
  finLeft,   \* the players whose statistics it has yet to update
  \* history variable
  awards,    \* how often the answer of a player to a round was added
  resent     \* how often the client sent its script again unasked

scoringVars ==
  <<scored, history, played, wins, ansPc, finPc, snapshot, finLeft, awards, resent>>

-----------------------------------------------------------------------------
Slot == Rounds \X Player

SlotOf(a) == <<a.round, a.player>>

Board == [Player -> Nat]

NoBoard == [u \in Player |-> 0]

ScoringTypeOK ==
  /\ scored \subseteq Slot
  /\ history \in Seq(Board)
  /\ played \in [Player -> Nat]
  /\ wins \in [Player -> Nat]
  /\ ansPc \in {"idle", "marked", "added"}
  /\ finPc \in {"idle", "read", "inserted"}
  /\ snapshot \in Board
  /\ finLeft \subseteq Player
  /\ awards \in [Slot -> Nat]
  /\ resent \in [Slot -> Nat]

ScoringInit ==
  /\ scored = {}
  /\ history = <<>>
  /\ played = [u \in Player |-> 0]
  /\ wins = [u \in Player |-> 0]
  /\ ansPc = "idle"
  /\ finPc = "idle"
  /\ snapshot = NoBoard
  /\ finLeft = {}
  /\ awards = [s \in Slot |-> 0]
  /\ resent = [s \in Slot |-> 0]

-----------------------------------------------------------------------------
(* Mutant: HSET instead of HSETNX. *)
MarkAlways ==
  /\ answerQ # <<>>
  /\ ansPc = "idle"
  /\ scored' = scored \cup {SlotOf(Head(answerQ))}
  /\ ansPc' = "marked"
  /\ UNCHANGED <<sharedVars, history, played, wins, finPc, snapshot, finLeft, awards, resent>>

(* Mutant: one mark per round instead of one per round and player. *)
MarkRound ==
  /\ answerQ # <<>>
  /\ ansPc = "idle"
  /\ LET s == SlotOf(Head(answerQ))
     IN  IF \E u \in Player : <<s[1], u>> \in scored
         THEN /\ answerQ' = Tail(answerQ)
              /\ UNCHANGED <<scored, ansPc>>
         ELSE /\ scored' = scored \cup {s}
              /\ ansPc' = "marked"
              /\ UNCHANGED answerQ
  /\ UNCHANGED <<leaderboard, finishedQ, faults, history, played, wins, finPc, snapshot,
                 finLeft, awards, resent>>

(* The answer.submitted handler.  HSETNX on the idempotency key: the first  *)
(* to set it goes on, a message that finds it set is acknowledged.          *)
MarkScored ==
  /\ answerQ # <<>>
  /\ ansPc = "idle"
  /\ LET s == SlotOf(Head(answerQ))
     IN  IF s \in scored
         THEN /\ answerQ' = Tail(answerQ)
              /\ UNCHANGED <<scored, ansPc>>
         ELSE /\ scored' = scored \cup {s}
              /\ ansPc' = "marked"
              /\ UNCHANGED answerQ
  /\ UNCHANGED <<leaderboard, finishedQ, faults, history, played, wins, finPc, snapshot,
                 finLeft, awards, resent>>

(* Redis does not reply: the message goes to the dead-letter queue, whether *)
(* or not HSETNX took place.  When the client then sends HSETNX again and   *)
(* finds the mark it set itself, the message is acknowledged instead, and   *)
(* the state is the same.                                                   *)
MarkFails ==
  /\ answerQ # <<>>
  /\ ansPc = "idle"
  /\ Fault
  /\ scored' \in {scored, scored \cup {SlotOf(Head(answerQ))}}
  /\ answerQ' = Tail(answerQ)
  /\ UNCHANGED <<leaderboard, finishedQ, history, played, wins, ansPc, finPc, snapshot,
                 finLeft, awards, resent>>

(* Mutant: the points are taken away. *)
LowerScore(a) ==
  /\ leaderboard' = [leaderboard EXCEPT ![a.player] = @ - a.pts]
  /\ awards' = [awards EXCEPT ![SlotOf(a)] = @ + 1]

(* One run of the Lua script of UpdateScore, a single step of Redis. *)
UpdateScore(a) ==
  /\ leaderboard' = [leaderboard EXCEPT ![a.player] = @ + a.pts]
  /\ awards' = [awards EXCEPT ![SlotOf(a)] = @ + 1]

AddPoints ==
  /\ ansPc = "marked"
  /\ UpdateScore(Head(answerQ))
  /\ ansPc' = "added"
  /\ UNCHANGED <<answerQ, finishedQ, faults, scored, history, played, wins, finPc, snapshot,
                 finLeft, resent>>

(* Redis does not reply in time, whether or not the script ran, and the     *)
(* client sends EVAL again: the options leave MaxRetries at its default of  *)
(* three.  MaxFaults bounds the resends.                                    *)
AddResent ==
  /\ ansPc = "marked"
  /\ Fault
  /\ \/ UpdateScore(Head(answerQ))
     \/ UNCHANGED <<leaderboard, awards>>
  /\ resent' = [resent EXCEPT ![SlotOf(Head(answerQ))] = @ + 1]
  /\ UNCHANGED <<answerQ, finishedQ, scored, history, played, wins, ansPc, finPc, snapshot,
                 finLeft>>

(* The last send, too, remains without a reply: dead-lettered, whether or   *)
(* not the script ran.                                                      *)
AddFails ==
  /\ ansPc = "marked"
  /\ Fault
  /\ \/ UpdateScore(Head(answerQ))
     \/ UNCHANGED <<leaderboard, awards, resent>>
  /\ answerQ' = Tail(answerQ)
  /\ ansPc' = "idle"
  /\ UNCHANGED <<finishedQ, scored, history, played, wins, finPc, snapshot, finLeft, resent>>

AckAnswer ==
  /\ ansPc = "added"
  /\ answerQ' = Tail(answerQ)
  /\ ansPc' = "idle"
  /\ UNCHANGED <<leaderboard, finishedQ, faults, scored, history, played, wins, finPc,
                 snapshot, finLeft, awards, resent>>

-----------------------------------------------------------------------------
(* Mutant: a room already in the history gets no second document, but its   *)
(* players' statistics are updated all the same.                            *)
ReadUnlessRecorded ==
  /\ finishedQ # <<>>
  /\ finPc = "idle"
  /\ snapshot' = leaderboard
  /\ finPc' = IF history = <<>> THEN "read" ELSE "inserted"
  /\ finLeft' = IF history = <<>> THEN finLeft ELSE Player
  /\ UNCHANGED <<sharedVars, scored, history, played, wins, ansPc, awards, resent>>

(* The match.finished handler reads the leaderboard, ...                    *)
ReadLeaderboard ==
  /\ finishedQ # <<>>
  /\ finPc = "idle"
  /\ snapshot' = leaderboard
  /\ finPc' = "read"
  /\ UNCHANGED <<sharedVars, scored, history, played, wins, ansPc, finLeft, awards, resent>>

(* ... inserts the document; its ranks and its winner follow from its       *)
(* scores, see Winner, ...                                                  *)
InsertHistory ==
  /\ finPc = "read"
  /\ history' = Append(history, snapshot)
  /\ finLeft' = Player
  /\ finPc' = "inserted"
  /\ UNCHANGED <<sharedVars, scored, played, wins, ansPc, snapshot, awards, resent>>

(* ... counts the match for one player after the other (an error of         *)
(* UpdateOne is ignored) ...                                                *)
UpdateStats(u) ==
  /\ finPc = "inserted"
  /\ u \in finLeft
  /\ \A v \in finLeft \ {u} : Outranks(snapshot, u, v)
  /\ finLeft' = finLeft \ {u}
  /\ \/ /\ played' = [played EXCEPT ![u] = @ + 1]
        /\ wins' = IF u = Winner(snapshot) THEN [wins EXCEPT ![u] = @ + 1] ELSE wins
        /\ UNCHANGED faults
     \/ /\ Fault
        /\ UNCHANGED <<played, wins>>
  /\ UNCHANGED <<leaderboard, answerQ, finishedQ, scored, history, ansPc, finPc, snapshot,
                 awards, resent>>

(* ... and acknowledges the message. *)
AckFinished ==
  /\ finPc = "inserted"
  /\ finLeft = {}
  /\ finishedQ' = Tail(finishedQ)
  /\ finPc' = "idle"
  /\ snapshot' = NoBoard
  /\ UNCHANGED <<leaderboard, answerQ, faults, scored, history, played, wins, ansPc, finLeft,
                 awards, resent>>

(* A read or the insertion fails: dead-lettered.  The document of an        *)
(* insertion that got no reply may be there nevertheless.                   *)
FinishFails ==
  /\ finishedQ # <<>>
  /\ finPc \in {"idle", "read"}
  /\ Fault
  /\ \/ UNCHANGED history
     \/ /\ finPc = "read"
        /\ history' = Append(history, snapshot)
  /\ finishedQ' = Tail(finishedQ)
  /\ finPc' = "idle"
  /\ snapshot' = NoBoard
  /\ UNCHANGED <<leaderboard, answerQ, scored, played, wins, ansPc, finLeft, awards, resent>>

-----------------------------------------------------------------------------
(* Mutant: the marks are kept in memory. *)
CrashForgetsMarks ==
  /\ Fault
  /\ scored' = {}
  /\ ansPc' = "idle"
  /\ finPc' = "idle"
  /\ snapshot' = NoBoard
  /\ finLeft' = {}
  /\ UNCHANGED <<leaderboard, answerQ, finishedQ, history, played, wins, awards, resent>>

(* The service dies and restarts: the messages it was handling are          *)
(* delivered again.                                                         *)
ScoringCrash ==
  /\ Fault
  /\ ansPc' = "idle"
  /\ finPc' = "idle"
  /\ snapshot' = NoBoard
  /\ finLeft' = {}
  /\ UNCHANGED <<leaderboard, answerQ, finishedQ, scored, history, played, wins, awards, resent>>

-----------------------------------------------------------------------------
AnswerWorkerStep == MarkScored \/ AddPoints \/ AckAnswer

MatchFinishedStep ==
  ReadLeaderboard \/ InsertHistory \/ (\E u \in Player : UpdateStats(u)) \/ AckFinished

ScoringFaultStep == MarkFails \/ AddResent \/ AddFails \/ FinishFails \/ ScoringCrash

ScoringNext == AnswerWorkerStep \/ MatchFinishedStep \/ ScoringFaultStep

(* Both consumers run; faults need not happen. *)
ScoringFairness ==
  /\ WF_<<sharedVars, scoringVars>>(AnswerWorkerStep)
  /\ WF_<<sharedVars, scoringVars>>(MatchFinishedStep)
=============================================================================
