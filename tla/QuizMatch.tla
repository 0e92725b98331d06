----------------------------- MODULE QuizMatch -----------------------------
(***************************************************************************)
(* One match from match.created to match_history: the quiz engine and the   *)
(* scoring service, two processes that share the leaderboard in Redis and   *)
(* the queues answer-processing-queue and match-finished-queue.  Either     *)
(* may crash without the other.                                             *)
(***************************************************************************)
EXTENDS QuizEngine, Scoring, Functions

vars == <<sharedVars, engineVars, scoringVars>>

Init == SharedInit /\ EngineInit /\ ScoringInit

Next ==
  \/ EngineNext /\ UNCHANGED scoringVars
  \/ ScoringNext /\ UNCHANGED engineVars

Fairness == EngineFairness /\ ScoringFairness

Spec == Init /\ [][Next]_vars /\ Fairness

(* Every variable has its type. *)
TypeOK == EngineTypeOK /\ ScoringTypeOK

-----------------------------------------------------------------------------
(* The promises that this system implements.                               *)

Progress ==
  INSTANCE MatchProgress WITH reached <- Reached, over <- ended, recorded <- history # <<>>

Ledger ==
  INSTANCE ScoreLedger WITH
    accepted <- answers,
    awarded <- {a \in answers : awards[SlotOf(a)] > 0},
    unsure <- {a \in answers : resent[SlotOf(a)] > 0},
    total <- leaderboard

(* Through crashes, lost messages and failing stores the engine opens the   *)
(* rounds in order, ends the match only after the last round was opened and *)
(* records no result before that (round_completed.go:102-123).              *)
ImplementsProgressSafety == Progress!ProgressSafety

(* When nothing fails every match runs to its end and is recorded, whatever *)
(* the players do: timers, not answers, drive it (round.go:71-79).          *)
ImplementsProgress == Progress!ProgressSpec

(* Through crashes, redeliveries and failing stores the leaderboard changes *)
(* only by the points of an accepted answer, once per player and round, and *)
(* again only when an addition got no reply and the Redis client sent it    *)
(* again (round.go:176-191, answer_worker.go:51-69, client.go:11-13).       *)
ImplementsLedgerSafety == Ledger!LedgerSafety

(* When nothing fails every accepted answer is paid for in the end.         *)
ImplementsLedger == Ledger!LedgerSpec

-----------------------------------------------------------------------------
(* The call that stored an answer has yet to publish it. *)
Held(a) == \E c \in Call : call[c] = [pc |-> "stored", ans |-> a]

Queued(a) == \E i \in 1..Len(answerQ) : answerQ[i] = a

(* When nothing fails an accepted answer is never dropped between the RPC,  *)
(* the queue and the leaderboard (server.go:127-142, answer_worker.go).     *)
NoAnswerLost ==
  faults = 0 =>
    \A a \in answers : Held(a) \/ Queued(a) \/ awards[SlotOf(a)] = 1

(* The points of a player for a round are added at most once for every time *)
(* the client sends the script, although answer.submitted is delivered      *)
(* again after a crash at any point of its handler: redeliveries never add  *)
(* points, only resends do (answer_worker.go:51-69).                        *)
AwardedOncePerSend == \A s \in Slot : awards[s] <= 1 + resent[s]

AnswersOf(u) == {a \in answers : a.player = u}

(* What an answer is worth, ... *)
FullPoints == [a \in answers |-> a.pts]

(* ... and when every send of its script has run. *)
PointsSent == [a \in answers |-> a.pts * (1 + resent[SlotOf(a)])]

(* However calls, deliveries, crashes and errors interleave, a player never *)
(* has more than the points of his accepted answers, each counted as often  *)
(* as its script was sent; and when nothing failed he has at least those of *)
(* the answers that no call holds and no queue carries any more, thus       *)
(* exactly the sum of his points once nothing is under way (server.go:114-  *)
(* 142, answer_worker.go:51-69, leaderboard.go:10-32).                      *)
LeaderboardAddsUp ==
  \A u \in Player :
    /\ leaderboard[u] <= SumFunctionOnSet(PointsSent, AnswersOf(u))
    /\ faults = 0 =>
         SumFunctionOnSet(FullPoints, {a \in AnswersOf(u) : ~Held(a) /\ ~Queued(a)})
           <= leaderboard[u]

(* The documents whose winner is u. *)
Documents(u) == {i \in 1..Len(history) : Winner(history[i]) = u}

(* The statistics of a player never count a match that is not in the        *)
(* history, nor a win that no document names, whatever fails or is          *)
(* delivered again; when nothing fails and no update is under way they      *)
(* agree with the history (match_finished.go:103-127).                      *)
StatsMatchHistory ==
  \A u \in Player :
    /\ played[u] <= Len(history) /\ wins[u] <= Cardinality(Documents(u))
    /\ faults = 0 /\ finPc # "inserted" =>
         played[u] = Len(history) /\ wins[u] = Cardinality(Documents(u))

-----------------------------------------------------------------------------
(* A claim of the documentation that the code does not keep.                *)

(* README.md:64: MatchEnd carries the final standings.                      *)
StandingsAreFinal == [][ended => leaderboard' = leaderboard]_vars
=============================================================================
