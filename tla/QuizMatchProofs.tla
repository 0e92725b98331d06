--------------------------- MODULE QuizMatchProofs ---------------------------
(***************************************************************************)
(* Proofs about a whole match, the engine and the scoring service together. *)
(***************************************************************************)
EXTENDS QuizMatch, EngineProgressProofs, FiniteSetTheorems, WellFoundedInduction

-----------------------------------------------------------------------------
(* The inductive invariant.                                                *)

(* Each consumer works on a message that is still on its queue.  A slot     *)
(* that was awarded is marked, and while the handler stands between the     *)
(* mark and the leaderboard the slot of its answer is marked and has been   *)
(* awarded at most as often as the client has sent the script again.        *)
WorkersInv ==
  /\ ansPc # "idle" => answerQ # <<>>
  /\ finPc # "idle" => finishedQ # <<>>

AwardsInv ==
  /\ \A s \in Slot : awards[s] > 0 => s \in scored
  /\ faults = 0 => \A s \in Slot : resent[s] = 0
  /\ ansPc = "marked" =>
       /\ SlotOf(Head(answerQ)) \in scored
       /\ awards[SlotOf(Head(answerQ))] <= resent[SlotOf(Head(answerQ))]

MatchInv ==
  /\ EngineInv
  /\ ScoringTypeOK
  /\ WorkersInv
  /\ AwardsInv
  /\ AwardedOncePerSend

-----------------------------------------------------------------------------
LEMMA SlotFacts == \A a \in Answer : SlotOf(a) \in Slot /\ a.player \in Player /\ a.pts \in Nat
  BY RoomAssumption DEF Answer, SlotOf, Slot

LEMMA HeadFacts ==
  ASSUME NEW S, NEW q \in Seq(S), q # <<>>
  PROVE  Head(q) \in S /\ Tail(q) \in Seq(S)
  OBVIOUS

LEMMA Tally ==
  ASSUME NEW S, NEW f \in [S -> Nat], NEW x \in S
  PROVE  [f EXCEPT ![x] = @ + 1] \in [S -> Nat]
  OBVIOUS

(* What the scoring service does to the shared variables keeps their types. *)
LEMMA ScoringSharedType ==
  ASSUME MatchInv, ScoringNext
  PROVE  SharedTypeOK' /\ faults' >= faults
  <1>1. /\ leaderboard \in [Player -> Nat]
        /\ answerQ \in Seq(Answer)
        /\ finishedQ \in Seq({MatchFinished})
        /\ faults \in 0..MaxFaults
    BY DEF MatchInv, EngineInv, EngineTypeOK, SharedTypeOK
  <1>2. faults' = faults \/ Fault
    <2>1. AnswerWorkerStep => faults' = faults
      BY DEF AnswerWorkerStep, MarkScored, AddPoints, AckAnswer
    <2>2. MatchFinishedStep => faults' = faults \/ Fault
      BY DEF MatchFinishedStep, ReadLeaderboard, InsertHistory, UpdateStats, AckFinished,
         sharedVars
    <2>3. ScoringFaultStep => Fault
      BY DEF ScoringFaultStep, MarkFails, AddResent, AddFails, FinishFails, ScoringCrash
    <2> QED
      BY <2>1, <2>2, <2>3 DEF ScoringNext
  <1>3. faults' \in 0..MaxFaults /\ faults' >= faults
    BY <1>1, <1>2, RoomAssumption DEF Fault
  <1>4. answerQ' = answerQ \/ (answerQ # <<>> /\ answerQ' = Tail(answerQ))
    BY DEF ScoringNext, AnswerWorkerStep, MarkScored, AddPoints, AckAnswer, MatchFinishedStep,
       ReadLeaderboard, InsertHistory, UpdateStats, AckFinished, ScoringFaultStep, MarkFails,
       AddResent, AddFails, FinishFails, ScoringCrash, sharedVars, MatchInv, WorkersInv
  <1>5. finishedQ' = finishedQ \/ (finishedQ # <<>> /\ finishedQ' = Tail(finishedQ))
    BY DEF ScoringNext, AnswerWorkerStep, MarkScored, AddPoints, AckAnswer, MatchFinishedStep,
       ReadLeaderboard, InsertHistory, UpdateStats, AckFinished, ScoringFaultStep, MarkFails,
       AddResent, AddFails, FinishFails, ScoringCrash, sharedVars, MatchInv, WorkersInv
  <1>6. \/ leaderboard' = leaderboard
        \/ answerQ # <<>> /\ UpdateScore(Head(answerQ))
    BY DEF ScoringNext, AnswerWorkerStep, MarkScored, AddPoints, AckAnswer, MatchFinishedStep,
       ReadLeaderboard, InsertHistory, UpdateStats, AckFinished, ScoringFaultStep, MarkFails,
       AddResent, AddFails, FinishFails, ScoringCrash, sharedVars, MatchInv, WorkersInv
  <1>7. leaderboard' \in [Player -> Nat]
    <2>1. CASE answerQ # <<>> /\ UpdateScore(Head(answerQ))
      <3>1. Head(answerQ).player \in Player /\ Head(answerQ).pts \in Nat
        BY <1>1, <2>1, HeadFacts, SlotFacts
      <3> QED
        BY <1>1, <2>1, <3>1 DEF UpdateScore
    <2> QED
      BY <1>1, <1>6, <2>1
  <1>8. answerQ' \in Seq(Answer) /\ finishedQ' \in Seq({MatchFinished})
    BY <1>1, <1>4, <1>5, HeadFacts
  <1> QED
    BY <1>3, <1>7, <1>8 DEF SharedTypeOK

(* The scoring service does not disturb the engine. *)
LEMMA ScoringKeepsEngineInv ==
  ASSUME MatchInv, ScoringNext, UNCHANGED engineVars
  PROVE  EngineInv'
  <1> USE DEF engineVars, redisVars, clientVars, timerVars, mcVars
  <1>1. EngineTypeOK'
    BY ScoringSharedType, Untouched DEF MatchInv, EngineInv, EngineTypeOK
  <1>2. PrefixInv' /\ EndInv'
    BY DEF MatchInv, EngineInv, PrefixInv, EndInv, Started
  <1>3. RoundsInv'
    BY DEF MatchInv, EngineInv, RoundsInv, Started
  <1>4. HandlersInv'
    <2>1. selections' <= faults' + (IF createdQ' /\ mc'.pc = "idle" THEN 0 ELSE 1)
      <3>1. selections <= faults + (IF createdQ /\ mc.pc = "idle" THEN 0 ELSE 1)
        BY DEF MatchInv, EngineInv, HandlersInv
      <3>2. selections \in Nat /\ faults \in Nat /\ faults' \in Nat /\ faults' >= faults
        BY ScoringSharedType, RoomAssumption
        DEF MatchInv, EngineInv, EngineTypeOK, SharedTypeOK, MatchCreatedTypeOK
      <3>3. PICK n \in Nat : n = IF createdQ /\ mc.pc = "idle" THEN 0 ELSE 1
        OBVIOUS
      <3>4. n = IF createdQ' /\ mc'.pc = "idle" THEN 0 ELSE 1
        BY <3>3
      <3>5. n \in Nat /\ selections <= faults + n /\ selections' = selections
        BY <3>1, <3>3
      <3>6. selections' <= faults' + n
        <4>1. \A a, b, c \in Nat : a <= b + n /\ c >= b => a <= c + n
          BY <3>5
        <4>2. selections <= faults' + n
          BY <3>2, <3>5, <4>1
        <4> QED
          BY <3>5, <4>2
      <3> QED
        BY <3>4, <3>6
    <2> QED
      BY <2>1 DEF MatchInv, EngineInv, HandlersInv, Started
  <1> QED
    BY <1>1, <1>2, <1>3, <1>4 DEF EngineInv

-----------------------------------------------------------------------------
(* Every action of the scoring service preserves its types. *)
LEMMA ScoringTypeStep ==
  ASSUME MatchInv, ScoringNext
  PROVE  ScoringTypeOK'
  <1> USE DEF ScoringTypeOK, MatchInv
  <1>1. answerQ # <<>> => Head(answerQ) \in Answer /\ SlotOf(Head(answerQ)) \in Slot
    BY HeadFacts, SlotFacts DEF EngineInv, EngineTypeOK, SharedTypeOK
  <1>2. leaderboard \in Board /\ NoBoard \in Board
    BY DEF EngineInv, EngineTypeOK, SharedTypeOK, Board, NoBoard
  <1>3. CASE MarkScored
    BY <1>1, <1>3 DEF MarkScored, sharedVars
  <1>4. CASE AddPoints
    <2>1. answerQ # <<>>
      BY <1>4 DEF AddPoints, WorkersInv
    <2> QED
      BY <1>1, <1>4, <2>1 DEF AddPoints, UpdateScore
  <1>5. CASE AckAnswer
    BY <1>5 DEF AckAnswer
  <1>6. CASE ReadLeaderboard
    BY <1>2, <1>6 DEF ReadLeaderboard
  <1>7. CASE InsertHistory
    BY <1>7 DEF InsertHistory
  <1>8. ASSUME NEW u \in Player, UpdateStats(u) PROVE ScoringTypeOK'
    <2>1. played' \in [Player -> Nat]
      BY <1>8, Tally DEF UpdateStats
    <2>3. wins' = wins \/ wins' = [wins EXCEPT ![u] = @ + 1]
      BY <1>8 DEF UpdateStats
    <2>4. wins \in [Player -> Nat]
      OBVIOUS
    <2>2. wins' \in [Player -> Nat]
      BY ONLY <2>3, <2>4, u \in Player, Tally
    <2> QED
      BY <1>8, <2>1, <2>2 DEF UpdateStats
  <1>9. CASE AckFinished
    BY <1>2, <1>9 DEF AckFinished
  <1>10. CASE MarkFails
    BY <1>1, <1>10 DEF MarkFails
  <1>11. CASE AddFails
    <2>1. SlotOf(Head(answerQ)) \in Slot
      BY <1>1, <1>11 DEF AddFails, WorkersInv
    <2>3. /\ resent' = resent
          /\ awards' = awards \/ awards' = [awards EXCEPT ![SlotOf(Head(answerQ))] = @ + 1]
      BY <1>11 DEF AddFails, UpdateScore
    <2>4. awards \in [Slot -> Nat] /\ resent \in [Slot -> Nat]
      OBVIOUS
    <2>2. awards' \in [Slot -> Nat] /\ resent' \in [Slot -> Nat]
      BY ONLY <2>1, <2>3, <2>4, Tally
    <2> QED
      BY <1>11, <2>2 DEF AddFails
  <1>14. CASE AddResent
    <2>1. SlotOf(Head(answerQ)) \in Slot
      BY <1>1, <1>14 DEF AddResent, WorkersInv
    <2>2. awards' \in [Slot -> Nat] /\ resent' \in [Slot -> Nat]
      BY <1>14, <2>1, Tally DEF AddResent, UpdateScore
    <2> QED
      BY <1>14, <2>2 DEF AddResent
  <1>12. CASE FinishFails
    <2>1. history' = history \/ history' = Append(history, snapshot)
      BY <1>12 DEF FinishFails
    <2>2. history \in Seq(Board) /\ snapshot \in Board
      OBVIOUS
    <2>3. history' \in Seq(Board)
      <3> HIDE DEF ScoringTypeOK, MatchInv
      <3> QED
        BY <2>1, <2>2
    <2> QED
      BY <1>2, <1>12, <2>3 DEF FinishFails
  <1>13. CASE ScoringCrash
    BY <1>2, <1>13 DEF ScoringCrash
  <1> QED
    BY <1>3, <1>4, <1>5, <1>6, <1>7, <1>8, <1>9, <1>10, <1>11, <1>12, <1>13,
       <1>14
    DEF ScoringNext, AnswerWorkerStep, MatchFinishedStep, ScoringFaultStep

(* A consumer becomes idle when its message is taken off the queue. *)
LEMMA WorkersStep ==
  ASSUME MatchInv, ScoringNext
  PROVE  WorkersInv'
  <1> USE DEF MatchInv, WorkersInv, sharedVars
  <1>1. AnswerWorkerStep => WorkersInv'
    BY DEF AnswerWorkerStep, MarkScored, AddPoints, AckAnswer, ScoringTypeOK
  <1>2. MatchFinishedStep => WorkersInv'
    BY DEF MatchFinishedStep, ReadLeaderboard, InsertHistory, UpdateStats, AckFinished
  <1>3. ScoringFaultStep => WorkersInv'
    BY DEF ScoringFaultStep, MarkFails, AddResent, AddFails, FinishFails, ScoringCrash
  <1> QED
    BY <1>1, <1>2, <1>3 DEF ScoringNext

(* Only the handler that set the mark of a slot adds its points, and it     *)
(* adds them once for every send: a redelivered message finds the mark.     *)
LEMMA AwardsStep ==
  ASSUME MatchInv, ScoringNext
  PROVE  AwardsInv' /\ AwardedOncePerSend'
  <1> USE DEF MatchInv
  <1> DEFINE h == SlotOf(Head(answerQ))
  <1>1. answerQ # <<>> => h \in Slot
    BY HeadFacts, SlotFacts DEF EngineInv, EngineTypeOK, SharedTypeOK
  <1>2. /\ awards \in [Slot -> Nat] /\ resent \in [Slot -> Nat] /\ scored \subseteq Slot
        /\ faults \in Nat /\ faults' \in Nat /\ faults' >= faults
    BY SMTT(30), ScoringSharedType, RoomAssumption
    DEF ScoringTypeOK, EngineInv, EngineTypeOK, SharedTypeOK
  <1>3. \A s \in Slot : /\ awards[s] > 0 => s \in scored
                        /\ faults' = 0 => resent[s] = 0
                        /\ awards[s] <= 1 + resent[s]
    BY <1>2 DEF AwardsInv, AwardedOncePerSend
  <1>4. CASE UNCHANGED <<awards, resent, scored, answerQ, ansPc>>
    BY <1>3, <1>4 DEF AwardsInv, AwardedOncePerSend
  <1>5. ASSUME awards' = awards, resent' = resent, scored \subseteq scored', ansPc' # "marked"
        PROVE  AwardsInv' /\ AwardedOncePerSend'
    BY <1>3, <1>5 DEF AwardsInv, AwardedOncePerSend
  <1>6. CASE MarkScored
    <2>1. CASE h \in scored
      BY <1>5, <1>6, <2>1 DEF MarkScored
    <2>2. CASE h \notin scored
      <3>1. /\ answerQ # <<>> /\ answerQ' = answerQ /\ awards' = awards /\ resent' = resent
            /\ scored' = scored \cup {h}
        BY <1>6, <2>2 DEF MarkScored
      <3>2. awards[h] <= resent[h]
        BY <1>1, <1>2, <1>3, <2>2, <3>1
      <3> QED
        BY <1>3, <3>1, <3>2 DEF AwardsInv, AwardedOncePerSend
    <2> QED
      BY <2>1, <2>2
  (* The script runs, and the reply is lost or not. *)
  <1>7. ASSUME ansPc = "marked", scored' = scored,
               UpdateScore(Head(answerQ)) \/ awards' = awards,
               \/ resent' = resent /\ ansPc' # "marked"
               \/ /\ resent' = [resent EXCEPT ![h] = @ + 1]
                  /\ answerQ' = answerQ /\ faults' > faults
        PROVE  AwardsInv' /\ AwardedOncePerSend'
    <2>1. h \in Slot /\ h \in scored /\ awards[h] <= resent[h]
      BY <1>1, <1>7 DEF WorkersInv, AwardsInv
    <2>2. awards' = [awards EXCEPT ![h] = @ + 1] \/ awards' = awards
      BY <1>7 DEF UpdateScore
    <2>3. answerQ' = answerQ => SlotOf(Head(answerQ))' = h
      BY DEF SlotOf
    <2> HIDE DEF h
    <2>4. /\ awards'[h] \in Nat /\ awards'[h] <= awards[h] + 1
          /\ \A s \in Slot : s # h => awards'[s] = awards[s]
      BY <1>2, <2>1, <2>2
    <2>5. CASE resent' = resent /\ ansPc' # "marked"
      <3>1. awards'[h] <= 1 + resent[h]
        BY <1>2, <2>1, <2>4
      <3> QED
        BY <1>3, <1>7, <2>1, <2>4, <2>5, <3>1 DEF AwardsInv, AwardedOncePerSend
    <2>6. CASE /\ resent' = [resent EXCEPT ![h] = @ + 1]
               /\ answerQ' = answerQ /\ faults' > faults
      <3>1. resent'[h] = resent[h] + 1 /\ \A s \in Slot : s # h => resent'[s] = resent[s]
        BY <1>2, <2>1, <2>6
      <3>2. awards'[h] <= resent'[h] /\ awards'[h] <= 1 + resent'[h] /\ faults' > 0
        BY <1>2, <2>1, <2>4, <2>6, <3>1
      <3>3. AwardedOncePerSend'
        BY <1>3, <2>4, <3>1, <3>2 DEF AwardedOncePerSend
      <3>4. \A s \in Slot : /\ awards'[s] > 0 => s \in scored'
                            /\ faults' = 0 => resent'[s] = 0
        BY <1>3, <1>7, <2>1, <2>4, <3>1, <3>2
      <3> QED
        BY <1>7, <2>1, <2>3, <2>6, <3>2, <3>3, <3>4 DEF AwardsInv
    <2> QED
      BY <1>7, <2>5, <2>6
  <1>8. CASE AddPoints
    BY <1>7, <1>8 DEF AddPoints
  <1>9. CASE AddFails
    BY <1>7, <1>9 DEF AddFails
  <1>15. CASE AddResent
    <2>1. faults' > faults
      BY <1>2, <1>15 DEF AddResent, Fault
    <2> QED
      BY <1>7, <1>15, <2>1 DEF AddResent
  <1>10. CASE AckAnswer
    BY <1>5, <1>10 DEF AckAnswer
  <1>11. CASE MarkFails
    BY <1>5, <1>11 DEF MarkFails
  <1>12. CASE ScoringCrash
    BY <1>5, <1>12 DEF ScoringCrash
  <1>13. CASE MatchFinishedStep
    BY <1>4, <1>13 DEF MatchFinishedStep, ReadLeaderboard, InsertHistory, UpdateStats,
       AckFinished, sharedVars
  <1>14. CASE FinishFails
    BY <1>4, <1>14 DEF FinishFails
  <1> QED
    BY <1>6, <1>8, <1>9, <1>10, <1>11, <1>12, <1>13, <1>14, <1>15
    DEF ScoringNext, AnswerWorkerStep, ScoringFaultStep

-----------------------------------------------------------------------------
(* The engine publishes to the ends of the queues the scoring service       *)
(* consumes: the message a consumer works on stays at the head.             *)
LEMMA QueuesGrow ==
  ASSUME MatchInv, EngineNext
  PROVE  /\ answerQ # <<>> => answerQ' # <<>> /\ Head(answerQ') = Head(answerQ)
         /\ finishedQ # <<>> => finishedQ' # <<>>
  <1> USE DEF sharedVars
  <1>1. answerQ \in Seq(Answer) /\ finishedQ \in Seq({MatchFinished})
    BY DEF MatchInv, EngineInv, EngineTypeOK, SharedTypeOK
  <1>2. CASE UNCHANGED <<answerQ, finishedQ>>
    BY <1>2
  <1>3. CASE FinishMatch
    <2>1. answerQ' = answerQ /\ (finishedQ' = finishedQ \/ finishedQ' = Append(finishedQ, MatchFinished))
      BY <1>3 DEF FinishMatch, Published
    <2> QED
      BY <1>1, <2>1
  <1>4. ASSUME NEW c \in Call, PublishAnswer(c)
        PROVE  /\ answerQ # <<>> => answerQ' # <<>> /\ Head(answerQ') = Head(answerQ)
               /\ finishedQ # <<>> => finishedQ' # <<>>
    <2>1. call[c] \in InFlight
      BY <1>4, CallFacts DEF PublishAnswer, MatchInv, EngineInv, EngineTypeOK, CallTypeOK
    <2>2. call[c].ans \in Answer
      BY <2>1, CallFacts
    <2>3. finishedQ' = finishedQ /\ (answerQ' = answerQ \/ answerQ' = Append(answerQ, call[c].ans))
      BY <1>4 DEF PublishAnswer, Published
    <2> QED
      BY <1>1, <2>2, <2>3
  <1>5. MatchCreatedStep => UNCHANGED <<answerQ, finishedQ>>
    BY DEF MatchCreatedStep, SelectQuestions, PushQuestion, BeginMatch, ArmFirstRound
  <1>6. RoundCompletedStep /\ ~FinishMatch => UNCHANGED <<answerQ, finishedQ>>
    BY DEF RoundCompletedStep, RevealRound, ScheduleNext, NoNextQuestion, EndMatch, AckCompleted
  <1>7. TimerStep => UNCHANGED <<answerQ, finishedQ>>
    BY DEF TimerStep, FireTimer, PublishTimeout, WakeUp, ArmRound
  <1>8. ASSUME NEW c \in Call, ~PublishAnswer(c),
               CallStep(c) \/ \E a \in Answer : ValidateAnswer(c, a)
        PROVE  UNCHANGED <<answerQ, finishedQ>>
    BY <1>8 DEF CallStep, StoreAnswer, CheckAllAnswered, StopTimer, PublishCompleted,
       ValidateAnswer
  <1>9. EngineFaultStep => UNCHANGED <<answerQ, finishedQ>>
    BY DEF EngineFaultStep, SelectFails, PushResent, NextQuestionFails, StoreFails, CheckFails, EngineCrash
  <1> QED
    BY <1>2, <1>3, <1>4, <1>5, <1>6, <1>7, <1>8, <1>9 DEF EngineNext

-----------------------------------------------------------------------------
LEMMA MatchInvInit ==
  ASSUME Init
  PROVE  MatchInv
  <1>1. EngineInv
    BY EngineInvInit DEF Init
  <1>2. ScoringTypeOK
    BY DEF Init, ScoringInit, ScoringTypeOK, Board, NoBoard
  <1>3. WorkersInv /\ AwardsInv /\ AwardedOncePerSend
    BY DEF Init, ScoringInit, WorkersInv, AwardsInv, AwardedOncePerSend
  <1> QED
    BY <1>1, <1>2, <1>3 DEF MatchInv

LEMMA MatchInvStep ==
  ASSUME MatchInv, [Next]_vars
  PROVE  MatchInv'
  <1>1. CASE EngineNext /\ UNCHANGED scoringVars
    <2> USE <1>1 DEF scoringVars
    <2>1. EngineInv'
      BY EngineInvStep DEF MatchInv
    <2>2. ScoringTypeOK'
      BY DEF MatchInv, ScoringTypeOK
    <2>3. WorkersInv'
      BY QueuesGrow DEF MatchInv, WorkersInv
    <2>4. AwardsInv' /\ AwardedOncePerSend'
      <3>1. /\ \A s \in Slot : awards[s] > 0 => s \in scored
            /\ faults' = 0 => \A s \in Slot : resent[s] = 0
        BY CalmFacts DEF MatchInv, AwardsInv
      <3>2. ansPc = "marked" => SlotOf(Head(answerQ))' = SlotOf(Head(answerQ))
        BY QueuesGrow DEF MatchInv, WorkersInv, SlotOf
      <3> QED
        BY <3>1, <3>2 DEF MatchInv, AwardsInv, AwardedOncePerSend
    <2> QED
      BY <2>1, <2>2, <2>3, <2>4 DEF MatchInv
  <1>2. CASE ScoringNext /\ UNCHANGED engineVars
    BY <1>2, ScoringKeepsEngineInv, ScoringTypeStep, WorkersStep, AwardsStep DEF MatchInv
  <1>3. CASE UNCHANGED vars
    <2> USE <1>3 DEF vars, scoringVars, sharedVars
    <2>1. EngineInv'
      BY EngineInvStutter DEF MatchInv
    <2>2. ScoringTypeOK' /\ WorkersInv'
      BY DEF MatchInv, ScoringTypeOK, WorkersInv
    <2>3. AwardsInv' /\ AwardedOncePerSend'
      BY DEF MatchInv, AwardsInv, AwardedOncePerSend
    <2> QED
      BY <2>1, <2>2, <2>3 DEF MatchInv
  <1> QED
    BY <1>1, <1>2, <1>3 DEF Next

LEMMA MatchInvariance == Spec => []MatchInv
  <1> QED
    BY MatchInvInit, MatchInvStep, PTL DEF Spec

-----------------------------------------------------------------------------
(* Engine and scoring service together, whatever fails on either side, keep *)
(* every variable of the match in its type.                                 *)
THEOREM TypeCorrect == Spec => []TypeOK
  <1>1. MatchInv => TypeOK
    BY DEF MatchInv, EngineInv, TypeOK
  <1> QED
    BY <1>1, MatchInvariance, PTL

(* The order of the rounds does not depend on what the scoring service does *)
(* to the leaderboard and the queues, or on when it crashes.                *)
THEOREM MatchRoundsInOrder == Spec => []NoRoundSkipped
  <1>1. MatchInv => NoRoundSkipped
    BY InvRoundsInOrder DEF MatchInv
  <1> QED
    BY <1>1, MatchInvariance, PTL

(* For any number of players, rounds, answers, redeliveries and faults the  *)
(* points of a player for a round are added at most once: the mark in Redis *)
(* is set before the points are added and outlives every crash              *)
(* (answer_worker.go:51-69).                                                *)
THEOREM AwardsFollowSends == Spec => []AwardedOncePerSend
  <1>1. MatchInv => AwardedOncePerSend
    BY DEF MatchInv
  <1> QED
    BY <1>1, MatchInvariance, PTL

-----------------------------------------------------------------------------
(* Answers, from the call that stores one to the points it brings.          *)

(* A player has one accepted answer to a round; what a call publishes, what *)
(* the queue holds and what a script was sent for are accepted answers.     *)
AcceptedInv ==
  /\ \A a, b \in answers : SlotOf(a) = SlotOf(b) => a = b
  /\ \A c \in Call : call[c].pc = "stored" => call[c].ans \in answers
  /\ \A i \in 1..Len(answerQ) : answerQ[i] \in answers
  /\ \A s \in Slot : awards[s] > 0 \/ resent[s] > 0 => \E a \in answers : SlotOf(a) = s

(* The message that is acknowledged was paid for, and until something fails *)
(* so was every marked slot but the one the handler stands at.              *)
PaidInv ==
  /\ ansPc = "added" => awards[SlotOf(Head(answerQ))] > 0
  /\ faults = 0 =>
       \A s \in scored : awards[s] > 0 \/ (ansPc = "marked" /\ s = SlotOf(Head(answerQ)))

LedgerInv == MatchInv /\ AcceptedInv /\ PaidInv /\ NoAnswerLost

-----------------------------------------------------------------------------
(* What a step of the engine does to the answers and to their calls.  An    *)
(* answer is added only for a slot that has none, and only its call holds   *)
(* it until it is published.                                                *)
CallsKept(S) == \A c \in S : call'[c] = call[c] \/ call'[c].pc # "stored"

AcceptStep(a) ==
  /\ a \in Answer
  /\ \A b \in answers : SlotOf(b) # SlotOf(a)
  /\ answers' = answers \cup {a}

LEMMA StoreEffect ==
  ASSUME EngineInv, NEW c \in Call, StoreAnswer(c)
  PROVE  /\ UNCHANGED <<answerQ, faults>>
         /\ \A d \in Call : d # c => call'[d] = call[d]
         /\ \/ answers' = answers /\ call'[c] = NoCall
            \/ /\ AcceptStep(call[c].ans)
               /\ call'[c] = [pc |-> "stored", ans |-> call[c].ans]
  <1> DEFINE a == call[c].ans
  <1>1. call \in [Call -> InFlight \cup {NoCall}] /\ call[c] \in InFlight /\ a \in Answer
    BY CallFacts DEF EngineInv, EngineTypeOK, CallTypeOK, StoreAnswer
  <1>2. UNCHANGED <<answerQ, faults>>
    BY DEF StoreAnswer, sharedVars
  <1>3. CASE HasAnswered(a.player, a.round)
    <2>1. answers' = answers /\ call' = [call EXCEPT ![c] = NoCall]
      BY <1>3 DEF StoreAnswer, WithAnswer
    <2> QED
      BY <1>1, <1>2, <2>1
  <1>4. CASE ~HasAnswered(a.player, a.round)
    <2>1. answers' = answers \cup {a} /\ call' = [call EXCEPT ![c].pc = "stored"]
      BY <1>4 DEF StoreAnswer, WithAnswer
    <2>2. \A b \in answers : SlotOf(b) # SlotOf(a)
      BY <1>4 DEF HasAnswered, SlotOf
    <2>3. call'[c] = [pc |-> "stored", ans |-> a]
      BY <1>1, <2>1 DEF InFlight
    <2> QED
      BY <1>1, <1>2, <2>1, <2>2, <2>3 DEF AcceptStep
  <1> QED
    BY <1>3, <1>4

LEMMA StoreFailsEffect ==
  ASSUME EngineInv, NEW c \in Call, StoreFails(c)
  PROVE  /\ Fault
         /\ UNCHANGED answerQ
         /\ CallsKept(Call)
         /\ answers' = answers \/ AcceptStep(call[c].ans)
  <1>1. call \in [Call -> InFlight \cup {NoCall}] /\ call[c].ans \in Answer
    BY CallFacts DEF EngineInv, EngineTypeOK, CallTypeOK, StoreFails
  <1>2. Fault /\ UNCHANGED answerQ /\ call' = [call EXCEPT ![c] = NoCall]
    BY DEF StoreFails
  <1>3. CallsKept(Call)
    BY <1>1, <1>2, CallFacts DEF CallsKept
  <1>4. answers' = answers \/ AcceptStep(call[c].ans)
    BY <1>1 DEF StoreFails, WithAnswer, HasAnswered, AcceptStep, SlotOf
  <1> QED
    BY <1>2, <1>3, <1>4

LEMMA PublishEffect ==
  ASSUME EngineInv, NEW c \in Call, PublishAnswer(c)
  PROVE  /\ answers' = answers
         /\ call[c] = [pc |-> "stored", ans |-> call[c].ans] /\ call[c].ans \in Answer
         /\ CallsKept(Call)
         /\ \A d \in Call : d # c => call'[d] = call[d]
         /\ \/ answerQ' = Append(answerQ, call[c].ans) /\ UNCHANGED faults
            \/ answerQ' = answerQ /\ Fault
  <1>1. call \in [Call -> InFlight \cup {NoCall}] /\ call[c] \in InFlight /\ call[c].ans \in Answer
    BY CallFacts DEF EngineInv, EngineTypeOK, CallTypeOK, PublishAnswer
  <1>2. call[c] = [pc |-> "stored", ans |-> call[c].ans]
    BY <1>1 DEF InFlight, PublishAnswer
  <1>3. call' = [call EXCEPT ![c].pc = "published"]
    BY DEF PublishAnswer
  <1>4. \A d \in Call : d # c => call'[d] = call[d]
    BY <1>1, <1>3
  <1>5. call'[c].pc = "published"
    BY <1>1, <1>3 DEF InFlight
  <1>6. CallsKept(Call)
    BY <1>4, <1>5 DEF CallsKept
  <1> QED
    BY <1>1, <1>2, <1>4, <1>6 DEF PublishAnswer, Published, redisVars

(* All other steps leave the accepted and the queued answers alone, and, if *)
(* nothing fails, the calls that hold an answer, too.                       *)
LEMMA OtherEffect ==
  ASSUME EngineInv, EngineNext,
         ~ \E c \in Call : StoreAnswer(c) \/ StoreFails(c) \/ PublishAnswer(c)
  PROVE  /\ UNCHANGED <<answers, answerQ>>
         /\ CallsKept(Call)
         /\ faults' = faults =>
              \A c \in Call : call[c].pc = "stored" => call'[c] = call[c]
  <1> DEFINE Goal == /\ UNCHANGED <<answers, answerQ>>
                     /\ CallsKept(Call)
                     /\ faults' = faults =>
                          \A c \in Call : call[c].pc = "stored" => call'[c] = call[c]
  <1>1. call \in [Call -> InFlight \cup {NoCall}] /\ faults \in Nat
    BY RoomAssumption DEF EngineInv, EngineTypeOK, CallTypeOK, SharedTypeOK
  <1>2. ASSUME UNCHANGED <<answers, answerQ, call>> PROVE Goal
    BY <1>2 DEF CallsKept
  <1> USE DEF sharedVars, redisVars
  <1>3. MatchCreatedStep \/ RoundCompletedStep \/ TimerStep => UNCHANGED <<answers, answerQ, call>>
    BY DEF MatchCreatedStep, SelectQuestions, PushQuestion, BeginMatch, ArmFirstRound,
       RoundCompletedStep, RevealRound, ScheduleNext, NoNextQuestion, EndMatch, FinishMatch,
       AckCompleted, TimerStep, FireTimer, PublishTimeout, WakeUp, ArmRound
  (* A call that does not hold its answer goes on or ends. *)
  <1>4. ASSUME NEW c \in Call, call[c].pc # "stored", call'[c].pc # "stored",
               \A d \in Call : d # c => call'[d] = call[d],
               UNCHANGED <<answers, answerQ>>
        PROVE  Goal
    BY <1>4 DEF CallsKept
  <1>5. ASSUME NEW c \in Call, NEW a \in Answer, ValidateAnswer(c, a) PROVE Goal
    <2>1. /\ call[c].pc # "stored" /\ UNCHANGED <<answers, answerQ>>
          /\ call' = [call EXCEPT ![c] = [pc |-> "validated", ans |-> a]]
      BY <1>5, CallFacts DEF ValidateAnswer
    <2> QED
      BY <1>1, <1>4, <2>1
  <1>6. ASSUME NEW c \in Call, CheckAllAnswered(c) PROVE Goal
    <2>1. /\ call[c].pc # "stored" /\ UNCHANGED <<answers, answerQ>>
          /\ \/ call' = [call EXCEPT ![c] = [@ EXCEPT !.pc = "completing"]]
             \/ call' = [call EXCEPT ![c] = NoCall]
      BY <1>6 DEF CheckAllAnswered
    <2>2. call[c] \in InFlight
      BY <1>1, <1>6, CallFacts DEF CheckAllAnswered
    <2>3. call'[c].pc # "stored" /\ \A d \in Call : d # c => call'[d] = call[d]
      BY <1>1, <2>1, <2>2, CallFacts DEF InFlight
    <2> QED
      BY <1>4, <2>1, <2>3
  <1>7. ASSUME NEW c \in Call, StopTimer(c) PROVE Goal
    <2>1. /\ call[c].pc # "stored" /\ UNCHANGED <<answers, answerQ>>
          /\ call' = [call EXCEPT ![c].pc = "stopped"]
      BY <1>7 DEF StopTimer
    <2>2. call[c] \in InFlight
      BY <1>1, <1>7, CallFacts DEF StopTimer
    <2>3. call'[c].pc # "stored" /\ \A d \in Call : d # c => call'[d] = call[d]
      BY <1>1, <2>1, <2>2 DEF InFlight
    <2> QED
      BY <1>4, <2>1, <2>3
  <1>8. ASSUME NEW c \in Call, PublishCompleted(c) \/ CheckFails(c) PROVE Goal
    <2>1. /\ call[c].pc # "stored" /\ UNCHANGED <<answers, answerQ>>
          /\ call' = [call EXCEPT ![c] = NoCall]
      BY <1>8 DEF PublishCompleted, CheckFails
    <2>2. call'[c].pc # "stored" /\ \A d \in Call : d # c => call'[d] = call[d]
      BY <1>1, <2>1, CallFacts
    <2> QED
      BY <1>4, <2>1, <2>2
  <1>9. CASE SelectFails \/ PushResent \/ NextQuestionFails
    BY <1>2, <1>9 DEF SelectFails, PushResent, NextQuestionFails
  <1>10. CASE EngineCrash
    <2>1. UNCHANGED <<answers, answerQ>> /\ \A c \in Call : call'[c].pc # "stored"
      BY <1>10, CallFacts DEF EngineCrash
    <2>2. faults' # faults
      BY <1>1, <1>10 DEF EngineCrash, Fault
    <2> QED
      BY <2>1, <2>2 DEF CallsKept
  <1> QED
    BY <1>2, <1>3, <1>5, <1>6, <1>7, <1>8, <1>9, <1>10 DEF EngineNext, CallStep, EngineFaultStep

-----------------------------------------------------------------------------
(* An answer that is accepted has nothing in its slot yet, so it was never  *)
(* paid for.                                                                *)
LEMMA AcceptKeepsAccepted ==
  ASSUME AcceptedInv, NEW a, AcceptStep(a), awards' = awards, resent' = resent,
         answerQ' = answerQ,
         \A c \in Call : call'[c].pc = "stored" =>
           call'[c].ans = a \/ (call[c].pc = "stored" /\ call'[c].ans = call[c].ans)
  PROVE  AcceptedInv' /\ SlotOf(a) \in Slot /\ ~(awards[SlotOf(a)] > 0)
  <1>1. SlotOf(a) \in Slot
    BY SlotFacts DEF AcceptStep
  <1>2. ~(awards[SlotOf(a)] > 0)
    BY <1>1 DEF AcceptedInv, AcceptStep
  <1>3. \A b, d \in answers' : SlotOf(b) = SlotOf(d) => b = d
    BY DEF AcceptedInv, AcceptStep
  <1>4. \A s \in Slot : awards'[s] > 0 \/ resent'[s] > 0 => \E b \in answers' : SlotOf(b) = s
    BY DEF AcceptedInv, AcceptStep
  <1>5. /\ \A c \in Call : call'[c].pc = "stored" => call'[c].ans \in answers'
        /\ \A i \in 1..Len(answerQ') : answerQ'[i] \in answers'
    BY DEF AcceptedInv, AcceptStep
  <1> QED
    BY <1>1, <1>2, <1>3, <1>4, <1>5 DEF AcceptedInv, SlotOf

LEMMA EngineKeepsAccepted ==
  ASSUME MatchInv, AcceptedInv, EngineNext, UNCHANGED scoringVars
  PROVE  AcceptedInv'
  <1>1. awards' = awards /\ resent' = resent /\ EngineInv
    BY DEF scoringVars, MatchInv
  <1>2. ASSUME answers' = answers, CallsKept(Call), answerQ' = answerQ PROVE AcceptedInv'
    BY <1>1, <1>2 DEF AcceptedInv, CallsKept
  <1>3. ASSUME NEW c \in Call, StoreAnswer(c) PROVE AcceptedInv'
    <2>1. CASE answers' = answers /\ call'[c] = NoCall
      BY <1>1, <1>2, <1>3, <2>1, StoreEffect, CallFacts DEF CallsKept
    <2>2. CASE AcceptStep(call[c].ans) /\ call'[c] = [pc |-> "stored", ans |-> call[c].ans]
      BY <1>1, <1>3, <2>2, StoreEffect, AcceptKeepsAccepted
    <2> QED
      BY <1>1, <1>3, <2>1, <2>2, StoreEffect
  <1>4. ASSUME NEW c \in Call, StoreFails(c) PROVE AcceptedInv'
    <2>1. CallsKept(Call) /\ answerQ' = answerQ
      BY <1>1, <1>4, StoreFailsEffect
    <2>2. CASE AcceptStep(call[c].ans)
      BY <1>1, <2>1, <2>2, AcceptKeepsAccepted DEF CallsKept
    <2> QED
      BY <1>1, <1>2, <1>4, <2>1, <2>2, StoreFailsEffect
  <1>5. ASSUME NEW c \in Call, PublishAnswer(c) PROVE AcceptedInv'
    <2>1. /\ answers' = answers /\ CallsKept(Call)
          /\ call[c].pc = "stored" /\ call[c].ans \in Answer
          /\ answerQ' = Append(answerQ, call[c].ans) \/ answerQ' = answerQ
      <3>1. call[c].pc = "stored"
        BY <1>5 DEF PublishAnswer
      <3> QED
        BY <1>1, <1>5, <3>1, PublishEffect
    <2>2. call[c].ans \in answers /\ answerQ \in Seq(Answer)
      BY <2>1 DEF AcceptedInv, MatchInv, EngineInv, EngineTypeOK, SharedTypeOK
    <2>3. \A i \in 1..Len(answerQ') : answerQ'[i] \in answers
      <3>1. PICK a \in answers : a = call[c].ans /\ a \in Answer
        BY <2>1, <2>2
      <3>2. answerQ' = Append(answerQ, a) \/ answerQ' = answerQ
        BY <2>1, <3>1
      <3>3. \A i \in 1..Len(answerQ) : answerQ[i] \in answers
        BY DEF AcceptedInv
      <3> QED
        BY <2>2, <3>1, <3>2, <3>3
    <2> QED
      BY <1>1, <2>1, <2>3 DEF AcceptedInv, CallsKept
  <1> QED
    BY <1>1, <1>2, <1>3, <1>4, <1>5, OtherEffect

(* Whatever the engine does, no accepted answer is dropped until something  *)
(* fails: a call holds it, then the queue, then it is paid for.             *)
LEMMA EngineLosesNoAnswer ==
  ASSUME LedgerInv, EngineNext, UNCHANGED scoringVars
  PROVE  NoAnswerLost'
  <1> SUFFICES ASSUME faults' = 0, NEW x \in answers'
               PROVE  Held(x)' \/ Queued(x)' \/ awards'[SlotOf(x)] = 1
    BY DEF NoAnswerLost
  <1>1. awards' = awards /\ EngineInv
    BY DEF scoringVars, LedgerInv, MatchInv
  <1>2. faults = 0 /\ faults' = faults /\ ~Fault /\ ~EngineFaultStep
    BY <1>1, CalmFacts
  <1>3. x \in answers => Held(x) \/ Queued(x) \/ awards[SlotOf(x)] = 1
    BY <1>2 DEF LedgerInv, NoAnswerLost
  <1>4. ASSUME answerQ' = answerQ, x \in answers,
               \A d \in Call : call[d].pc = "stored" => call'[d] = call[d]
        PROVE  Held(x)' \/ Queued(x)' \/ awards'[SlotOf(x)] = 1
    <2>1. Held(x) => Held(x)'
      BY <1>4 DEF Held
    <2>2. Queued(x) => Queued(x)'
      BY <1>4 DEF Queued
    <2> QED
      BY <1>1, <1>3, <1>4, <2>1, <2>2
  <1>5. ASSUME NEW c \in Call, StoreAnswer(c)
        PROVE  Held(x)' \/ Queued(x)' \/ awards'[SlotOf(x)] = 1
    <2>1. x \in answers \/ (x = call[c].ans /\ call'[c] = [pc |-> "stored", ans |-> x])
      BY ZenonT(40), <1>1, <1>5, StoreEffect DEF AcceptStep
    <2>2. \A d \in Call : call[d].pc = "stored" => call'[d] = call[d]
      <3>1. call[c].pc # "stored"
        BY <1>5 DEF StoreAnswer
      <3> QED
        BY <1>1, <1>5, <3>1, StoreEffect
    <2> QED
      BY <1>1, <1>4, <1>5, <2>1, <2>2, StoreEffect DEF Held
  <1>6. ASSUME NEW c \in Call, PublishAnswer(c)
        PROVE  Held(x)' \/ Queued(x)' \/ awards'[SlotOf(x)] = 1
    <2>1. /\ answers' = answers /\ answerQ' = Append(answerQ, call[c].ans)
          /\ call[c].ans \in Answer /\ \A d \in Call : d # c => call'[d] = call[d]
          /\ call[c] = [pc |-> "stored", ans |-> call[c].ans]
      BY <1>1, <1>2, <1>6, PublishEffect
    <2>2. answerQ \in Seq(Answer)
      BY <1>1 DEF EngineInv, EngineTypeOK, SharedTypeOK
    <2>3. PICK a \in Answer : a = call[c].ans
      BY <2>1
    <2>4. /\ Len(answerQ') = Len(answerQ) + 1 /\ Len(answerQ) \in Nat /\ answerQ'[Len(answerQ) + 1] = a
          /\ \A i \in 1..Len(answerQ) : answerQ'[i] = answerQ[i]
      BY <2>1, <2>2, <2>3
    <2>5. Queued(x) \/ x = a => Queued(x)'
      BY <2>4 DEF Queued
    <2>6. Held(x) => x = a \/ Held(x)'
      <3>1. ASSUME NEW d \in Call, call[d] = [pc |-> "stored", ans |-> x], d # c
            PROVE  Held(x)'
        BY <2>1, <3>1 DEF Held
      <3>2. call[c] = [pc |-> "stored", ans |-> x] => x = a
        BY <2>3
      <3> QED
        BY <3>1, <3>2 DEF Held
    <2> QED
      BY <1>1, <1>3, <2>1, <2>5, <2>6
  <1>7. ~ \E c \in Call : StoreFails(c)
    BY <1>2 DEF StoreFails
  <1> QED
    BY <1>1, <1>2, <1>4, <1>5, <1>6, <1>7, OtherEffect

-----------------------------------------------------------------------------
(* What a step of the scoring service does to the ledger: the script of the *)
(* accepted answer at the head of the queue runs or it does not, and the    *)
(* client sends it again or it does not.                                    *)
PayStep ==
  /\ ansPc = "marked"
  /\ answerQ # <<>>
  /\ UpdateScore(Head(answerQ))

ResendStep ==
  /\ ansPc = "marked"
  /\ answerQ # <<>>
  /\ resent' = [resent EXCEPT ![SlotOf(Head(answerQ))] = @ + 1]

LEMMA ScoringPays ==
  ASSUME ScoringNext, WorkersInv
  PROVE  /\ UNCHANGED <<leaderboard, awards>> \/ PayStep
         /\ resent' = resent \/ ResendStep
  <1> USE DEF sharedVars, WorkersInv
  <1> DEFINE Goal == /\ UNCHANGED <<leaderboard, awards>> \/ PayStep
                     /\ resent' = resent \/ ResendStep
  <1>1. AnswerWorkerStep => Goal
    BY DEF AnswerWorkerStep, MarkScored, AddPoints, AckAnswer, PayStep
  <1>2. MatchFinishedStep => Goal
    BY DEF MatchFinishedStep, ReadLeaderboard, InsertHistory, UpdateStats, AckFinished
  <1>3. ScoringFaultStep => Goal
    BY DEF ScoringFaultStep, MarkFails, AddResent, AddFails, FinishFails, ScoringCrash, PayStep,
       ResendStep
  <1> QED
    BY <1>1, <1>2, <1>3 DEF ScoringNext

(* The handler that stands at a mark works for an accepted answer. *)
LEMMA HeadIsAccepted ==
  ASSUME MatchInv, AcceptedInv, ansPc = "marked", answerQ # <<>>
  PROVE  /\ Head(answerQ) \in answers /\ Head(answerQ) \in Answer
         /\ SlotOf(Head(answerQ)) \in Slot
         /\ awards[SlotOf(Head(answerQ))] <= resent[SlotOf(Head(answerQ))]
  <1>1. answerQ \in Seq(Answer)
    BY DEF MatchInv, EngineInv, EngineTypeOK, SharedTypeOK
  <1>2. Head(answerQ) \in Answer /\ Head(answerQ) \in answers
    <2>1. Head(answerQ) = answerQ[1] /\ 1 \in 1..Len(answerQ)
      BY <1>1
    <2> QED
      BY <1>1, <2>1, HeadFacts DEF AcceptedInv
  <1> QED
    BY <1>2, SlotFacts DEF MatchInv, AwardsInv

LEMMA PayEffect ==
  ASSUME MatchInv, AcceptedInv, PayStep
  PROVE  /\ Head(answerQ) \in answers /\ Head(answerQ) \in Answer
         /\ SlotOf(Head(answerQ)) \in Slot
         /\ awards[SlotOf(Head(answerQ))] <= resent[SlotOf(Head(answerQ))]
         /\ awards'[SlotOf(Head(answerQ))] = awards[SlotOf(Head(answerQ))] + 1
         /\ \A s \in Slot : s # SlotOf(Head(answerQ)) => awards'[s] = awards[s]
         /\ leaderboard' = [leaderboard EXCEPT ![Head(answerQ).player] = @ + Head(answerQ).pts]
  <1> DEFINE h == SlotOf(Head(answerQ))
  <1>1. awards \in [Slot -> Nat]
    BY DEF MatchInv, ScoringTypeOK
  <1>2. /\ Head(answerQ) \in answers /\ Head(answerQ) \in Answer
        /\ h \in Slot /\ awards[h] <= resent[h]
    BY HeadIsAccepted DEF PayStep
  <1>3. /\ awards' = [awards EXCEPT ![h] = @ + 1]
        /\ leaderboard' = [leaderboard EXCEPT ![Head(answerQ).player] = @ + Head(answerQ).pts]
    BY DEF PayStep, UpdateScore
  <1> HIDE DEF h
  <1>4. awards'[h] = awards[h] + 1 /\ \A s \in Slot : s # h => awards'[s] = awards[s]
    BY <1>1, <1>2, <1>3
  <1> QED
    BY <1>2, <1>3, <1>4 DEF h

LEMMA ResendEffect ==
  ASSUME MatchInv, AcceptedInv, ResendStep
  PROVE  /\ Head(answerQ) \in answers /\ Head(answerQ) \in Answer
         /\ SlotOf(Head(answerQ)) \in Slot
         /\ resent'[SlotOf(Head(answerQ))] > 0
         /\ \A s \in Slot : s # SlotOf(Head(answerQ)) => resent'[s] = resent[s]
  <1> DEFINE h == SlotOf(Head(answerQ))
  <1>1. resent \in [Slot -> Nat]
    BY DEF MatchInv, ScoringTypeOK
  <1>2. /\ Head(answerQ) \in answers /\ Head(answerQ) \in Answer /\ h \in Slot
        /\ resent' = [resent EXCEPT ![h] = @ + 1]
    BY HeadIsAccepted DEF ResendStep
  <1> HIDE DEF h
  <1>3. resent'[h] > 0 /\ \A s \in Slot : s # h => resent'[s] = resent[s]
    BY <1>1, <1>2
  <1> QED
    BY <1>2, <1>3 DEF h

LEMMA ScoringQueue ==
  ASSUME ScoringNext, WorkersInv
  PROVE  answerQ' = answerQ \/ (answerQ # <<>> /\ answerQ' = Tail(answerQ))
  BY DEF ScoringNext, AnswerWorkerStep, MarkScored, AddPoints, AckAnswer, MatchFinishedStep,
     ReadLeaderboard, InsertHistory, UpdateStats, AckFinished, ScoringFaultStep, MarkFails,
     AddResent, AddFails, FinishFails, ScoringCrash, sharedVars, WorkersInv

LEMMA ScoringKeepsAccepted ==
  ASSUME MatchInv, AcceptedInv, ScoringNext, UNCHANGED engineVars
  PROVE  AcceptedInv'
  <1>1. answers' = answers /\ call' = call
    BY DEF engineVars, redisVars
  <1>2. answerQ \in Seq(Answer)
    BY DEF MatchInv, EngineInv, EngineTypeOK, SharedTypeOK
  <1>3. \A i \in 1..Len(answerQ') : answerQ'[i] \in answers
    <2>1. \A i \in 1..Len(answerQ) : answerQ[i] \in answers
      BY DEF AcceptedInv
    <2>2. CASE answerQ # <<>> /\ answerQ' = Tail(answerQ)
      <3>1. \A i \in 1..Len(answerQ') : answerQ'[i] = answerQ[i + 1] /\ i + 1 \in 1..Len(answerQ)
        BY <1>2, <2>2
      <3> QED
        BY <2>1, <3>1
    <2> QED
      BY <2>1, <2>2, ScoringQueue DEF MatchInv
  <1>4. ASSUME NEW s \in Slot, awards'[s] > 0 \/ resent'[s] > 0
        PROVE  \E a \in answers : SlotOf(a) = s
    <2>1. awards'[s] = awards[s] \/ \E a \in answers : SlotOf(a) = s
      BY ScoringPays, PayEffect DEF MatchInv
    <2>2. resent'[s] = resent[s] \/ \E a \in answers : SlotOf(a) = s
      BY ScoringPays, ResendEffect DEF MatchInv
    <2> QED
      BY <1>4, <2>1, <2>2 DEF AcceptedInv
  <1> QED
    BY <1>1, <1>3, <1>4 DEF AcceptedInv, SlotOf

LEMMA ScoringCalm ==
  ASSUME MatchInv, ScoringNext, faults' = 0
  PROVE  faults = 0 /\ ~ScoringFaultStep
  <1>1. faults \in Nat /\ faults' >= faults
    BY ScoringSharedType, RoomAssumption DEF MatchInv, EngineInv, EngineTypeOK, SharedTypeOK
  <1>2. ~Fault
    BY <1>1 DEF Fault
  <1> QED
    BY <1>1, <1>2 DEF ScoringFaultStep, MarkFails, AddResent, AddFails, FinishFails, ScoringCrash

-----------------------------------------------------------------------------
(* The engine does not touch the message the handler stands at. *)
LEMMA EngineKeepsPaid ==
  ASSUME MatchInv, PaidInv, EngineNext, UNCHANGED scoringVars
  PROVE  PaidInv'
  <1>1. faults' = 0 => faults = 0
    BY CalmFacts DEF MatchInv
  <1>2. ansPc # "idle" => Head(answerQ') = Head(answerQ)
    BY QueuesGrow DEF MatchInv, WorkersInv
  <1>3. ansPc' = ansPc /\ awards' = awards /\ scored' = scored
    BY DEF scoringVars
  <1> QED
    BY <1>1, <1>2, <1>3 DEF PaidInv

(* A slot is marked for the points that the handler adds next. *)
LEMMA ScoringKeepsPaid ==
  ASSUME MatchInv, AcceptedInv, PaidInv, ScoringNext
  PROVE  PaidInv'
  <1> DEFINE h == SlotOf(Head(answerQ))
  <1> USE DEF sharedVars
  <1>1. faults' = 0 => faults = 0 /\ ~ScoringFaultStep
    BY ScoringCalm
  <1>2. /\ ansPc = "added" => awards[h] > 0
        /\ faults = 0 => \A s \in scored : awards[s] > 0 \/ (ansPc = "marked" /\ s = h)
    BY DEF PaidInv
  <1>3. CASE MarkScored
    <2>1. CASE h \in scored
      <3>1. ansPc = "idle" /\ ansPc' = "idle" /\ scored' = scored /\ awards' = awards
        BY <1>3, <2>1 DEF MarkScored
      <3> QED
        BY <1>1, <1>2, <3>1 DEF PaidInv
    <2>2. CASE h \notin scored
      <3>1. /\ ansPc = "idle" /\ ansPc' = "marked" /\ scored' = scored \cup {h}
            /\ awards' = awards /\ answerQ' = answerQ
        BY <1>3, <2>2 DEF MarkScored
      <3> QED
        BY <1>1, <1>2, <3>1 DEF PaidInv
    <2> QED
      BY <2>1, <2>2
  <1>4. CASE AddPoints
    <2>1. PayStep /\ ansPc' = "added" /\ answerQ' = answerQ /\ scored' = scored
      BY <1>4 DEF AddPoints, PayStep, MatchInv, WorkersInv
    <2>3. scored \subseteq Slot /\ awards \in [Slot -> Nat]
      BY DEF MatchInv, ScoringTypeOK
    <2>2. awards'[h] > 0 /\ \A s \in Slot : s # h => awards'[s] = awards[s]
      BY <2>1, <2>3, PayEffect
    <2>4. faults' = 0 => \A s \in scored : awards'[s] > 0
      BY <1>1, <1>2, <2>2, <2>3
    <2> QED
      BY <2>1, <2>2, <2>4 DEF PaidInv
  <1>5. CASE AckAnswer
    BY <1>1, <1>2, <1>5 DEF AckAnswer, PaidInv
  <1>6. CASE MatchFinishedStep
    <2>1. UNCHANGED <<ansPc, answerQ, awards, scored>>
      BY <1>6 DEF MatchFinishedStep, ReadLeaderboard, InsertHistory, UpdateStats, AckFinished
    <2> QED
      BY <1>1, <1>2, <2>1 DEF PaidInv
  <1>7. CASE ScoringFaultStep
    <2>1. ansPc' = "added" => UNCHANGED <<ansPc, answerQ, awards>>
      BY <1>7 DEF ScoringFaultStep, MarkFails, AddResent, AddFails, FinishFails, ScoringCrash
    <2> QED
      BY <1>1, <1>2, <1>7, <2>1 DEF PaidInv
  <1> QED
    BY <1>3, <1>4, <1>5, <1>6, <1>7 DEF ScoringNext, AnswerWorkerStep

(* The message at the head is dropped only when its slot was paid for. *)
LEMMA ScoringLosesNoAnswer ==
  ASSUME LedgerInv, ScoringNext, UNCHANGED engineVars
  PROVE  NoAnswerLost'
  <1> SUFFICES ASSUME faults' = 0, NEW x \in answers'
               PROVE  Held(x)' \/ Queued(x)' \/ awards'[SlotOf(x)] = 1
    BY DEF NoAnswerLost
  <1> DEFINE h == SlotOf(Head(answerQ))
  <1>1. faults = 0 /\ ~ScoringFaultStep /\ answers' = answers /\ call' = call
    BY ScoringCalm DEF LedgerInv, engineVars, redisVars
  <1>2. Held(x) \/ Queued(x) \/ awards[SlotOf(x)] = 1
    BY <1>1 DEF LedgerInv, NoAnswerLost
  <1>3. Held(x) => Held(x)'
    BY <1>1 DEF Held
  <1>4. x \in Answer /\ SlotOf(x) \in Slot /\ answerQ \in Seq(Answer) /\ awards \in [Slot -> Nat]
    BY <1>1, SlotFacts
    DEF LedgerInv, MatchInv, EngineInv, EngineTypeOK, RedisTypeOK, SharedTypeOK, ScoringTypeOK
  <1>8. \A s \in Slot : resent[s] = 0
    BY <1>1 DEF LedgerInv, MatchInv, AwardsInv
  <1>5. awards[SlotOf(x)] = 1 => awards'[SlotOf(x)] = 1
    <2>1. CASE PayStep
      <3>1. h \in Slot /\ awards[h] <= 0
            /\ \A s \in Slot : s # h => awards'[s] = awards[s]
        BY <1>8, <2>1, PayEffect DEF LedgerInv
      <3>2. awards[SlotOf(x)] = 1 => SlotOf(x) # h
        BY <3>1
      <3> QED
        BY <1>4, <3>1, <3>2
    <2> QED
      BY <2>1, ScoringPays DEF LedgerInv, MatchInv
  <1>6. CASE answerQ' = answerQ
    <2>1. Queued(x) => Queued(x)'
      BY <1>6 DEF Queued
    <2> QED
      BY <1>2, <1>3, <1>5, <2>1
  <1>7. CASE answerQ # <<>> /\ answerQ' = Tail(answerQ) /\ answerQ' # answerQ
    <2>1. Queued(x) => Queued(x)' \/ x = Head(answerQ)
      <3>1. ASSUME NEW i \in 1..Len(answerQ), answerQ[i] = x, i # 1 PROVE Queued(x)'
        <4>1. i - 1 \in 1..Len(answerQ') /\ answerQ'[i - 1] = x
          BY <1>4, <1>7, <3>1
        <4> QED
          BY <4>1 DEF Queued
      <3>2. answerQ[1] = Head(answerQ)
        BY <1>4, <1>7
      <3> QED
        BY <3>1, <3>2 DEF Queued
    <2>2. awards[h] > 0
      <3>1. MarkScored \/ AckAnswer
        BY <1>1, <1>7
        DEF ScoringNext, AnswerWorkerStep, AddPoints, MatchFinishedStep, ReadLeaderboard,
            InsertHistory, UpdateStats, AckFinished, sharedVars
      <3>2. CASE MarkScored
        <4>1. ansPc = "idle" /\ h \in scored
          BY <1>7, <3>2 DEF MarkScored
        <4> QED
          BY <1>1, <4>1 DEF LedgerInv, PaidInv
      <3>3. CASE AckAnswer
        BY <3>3 DEF AckAnswer, LedgerInv, PaidInv
      <3> QED
        BY <3>1, <3>2, <3>3
    <2>3. x = Head(answerQ) => awards[SlotOf(x)] = 1
      <3>1. awards[SlotOf(x)] <= 1 + resent[SlotOf(x)]
        BY <1>4 DEF LedgerInv, MatchInv, AwardedOncePerSend
      <3> QED
        BY <1>4, <1>8, <2>2, <3>1
    <2> QED
      BY <1>2, <1>3, <1>5, <2>1, <2>3
  <1> QED
    BY <1>6, <1>7, ScoringQueue DEF LedgerInv, MatchInv

-----------------------------------------------------------------------------
LEMMA LedgerInvInit ==
  ASSUME Init
  PROVE  LedgerInv
  <1>1. MatchInv
    BY MatchInvInit
  <1>2. AcceptedInv
    BY DEF Init, SharedInit, EngineInit, ScoringInit, AcceptedInv, NoCall
  <1>3. PaidInv /\ NoAnswerLost
    BY DEF Init, EngineInit, ScoringInit, PaidInv, NoAnswerLost
  <1> QED
    BY <1>1, <1>2, <1>3 DEF LedgerInv

LEMMA LedgerInvStep ==
  ASSUME LedgerInv, [Next]_vars
  PROVE  LedgerInv'
  <1>1. MatchInv'
    BY MatchInvStep DEF LedgerInv
  <1>2. CASE EngineNext /\ UNCHANGED scoringVars
    BY <1>1, <1>2, EngineKeepsAccepted, EngineKeepsPaid, EngineLosesNoAnswer DEF LedgerInv
  <1>3. CASE ScoringNext /\ UNCHANGED engineVars
    BY <1>1, <1>3, ScoringKeepsAccepted, ScoringKeepsPaid, ScoringLosesNoAnswer DEF LedgerInv
  <1>4. CASE UNCHANGED vars
    <2> USE <1>4 DEF vars, sharedVars, engineVars, redisVars, scoringVars
    <2>1. AcceptedInv'
      BY DEF LedgerInv, AcceptedInv
    <2>2. PaidInv'
      BY DEF LedgerInv, PaidInv
    <2>3. NoAnswerLost'
      BY DEF LedgerInv, NoAnswerLost, Held, Queued
    <2> QED
      BY <1>1, <2>1, <2>2, <2>3 DEF LedgerInv
  <1> QED
    BY <1>2, <1>3, <1>4 DEF Next

LEMMA LedgerInvariance == Spec => []LedgerInv
  <1> QED
    BY LedgerInvInit, LedgerInvStep, PTL DEF Spec

(* As long as nothing has failed an accepted answer is held by its call,    *)
(* waits in the queue or was paid for exactly once, whatever the order in   *)
(* which calls store and publish and the worker marks, pays and             *)
(* acknowledges (server.go:127-142, answer_worker.go:51-69).                *)
THEOREM NoAnswerIsLost == Spec => []NoAnswerLost
  <1>1. LedgerInv => NoAnswerLost
    BY DEF LedgerInv
  <1> QED
    BY <1>1, LedgerInvariance, PTL

-----------------------------------------------------------------------------
(* The match implements ScoreLedger.                                        *)

(* The mapped values of awarded and of unsure. *)
Paid == {a \in answers : awards[SlotOf(a)] > 0}

Unsure == {a \in answers : resent[SlotOf(a)] > 0}

LEMMA EngineAccepts ==
  ASSUME EngineInv, EngineNext
  PROVE  leaderboard' = leaderboard /\ (answers' = answers \/ \E a : AcceptStep(a))
  <1>1. leaderboard' = leaderboard
    <2> USE DEF sharedVars
    <2>1. MatchCreatedStep \/ RoundCompletedStep => leaderboard' = leaderboard
      BY DEF MatchCreatedStep, SelectQuestions, PushQuestion, BeginMatch, ArmFirstRound,
         RoundCompletedStep, RevealRound, ScheduleNext, NoNextQuestion, EndMatch, FinishMatch,
         AckCompleted
    <2>2. TimerStep => leaderboard' = leaderboard
      BY DEF TimerStep, FireTimer, PublishTimeout, WakeUp, ArmRound
    <2>3. ASSUME NEW c \in Call, CallStep(c) \/ \E a \in Answer : ValidateAnswer(c, a)
          PROVE  leaderboard' = leaderboard
      BY <2>3 DEF CallStep, StoreAnswer, PublishAnswer, CheckAllAnswered, StopTimer,
         PublishCompleted, ValidateAnswer
    <2>4. EngineFaultStep => leaderboard' = leaderboard
      BY DEF EngineFaultStep, SelectFails, PushResent, NextQuestionFails, StoreFails, CheckFails, EngineCrash
    <2> QED
      BY <2>1, <2>2, <2>3, <2>4 DEF EngineNext
  <1>2. answers' = answers \/ \E a : AcceptStep(a)
    BY StoreEffect, StoreFailsEffect, PublishEffect, OtherEffect
  <1> QED
    BY <1>1, <1>2

(* StoreAnswer, and StoreFails when HSETNX took place, are Accept; the      *)
(* first run of the script is Award, a later one AddAgain; a script that is *)
(* sent again without having run is Doubt; all other steps stutter.         *)
LEMMA LedgerStep ==
  ASSUME LedgerInv, Next
  PROVE  [Ledger!LedgerNext]_Ledger!ledgerVars
  <1> USE DEF Ledger!LedgerNext, Ledger!ledgerVars
  <1>1. answers \subseteq Answer /\ \A a \in answers : SlotOf(a) \in Slot
    BY SlotFacts DEF LedgerInv, MatchInv, EngineInv, EngineTypeOK, RedisTypeOK
  <1>4. awards \in [Slot -> Nat] /\ resent \in [Slot -> Nat]
    BY DEF LedgerInv, MatchInv, ScoringTypeOK
  <1>2. CASE EngineNext /\ UNCHANGED scoringVars
    <2>1. leaderboard' = leaderboard /\ awards' = awards /\ resent' = resent
      BY <1>2, EngineAccepts DEF LedgerInv, MatchInv, scoringVars
    <2>2. CASE answers' = answers
      <3>1. Paid' = Paid /\ Unsure' = Unsure
        BY <2>1, <2>2 DEF Paid, Unsure, SlotOf
      <3> QED
        BY <2>1, <2>2, <3>1 DEF Paid, Unsure
    <2>3. ASSUME NEW a, AcceptStep(a) PROVE Ledger!LedgerNext
      <3>1. a \in Answer /\ SlotOf(a) \in Slot /\ answers' = answers \cup {a}
        BY <2>3, SlotFacts DEF AcceptStep
      <3>2. ~(awards[SlotOf(a)] > 0) /\ ~(resent[SlotOf(a)] > 0)
        BY <2>3, <3>1 DEF LedgerInv, AcceptedInv, AcceptStep
      <3>3. Paid' = Paid /\ Unsure' = Unsure
        BY <2>1, <3>1, <3>2 DEF Paid, Unsure, SlotOf
      <3>4. \A b \in answers : b.round # a.round \/ b.player # a.player
        BY <2>3 DEF AcceptStep, SlotOf
      <3> QED
        BY <2>1, <3>1, <3>3, <3>4 DEF Ledger!Accept, Paid, Unsure
    <2> QED
      BY <1>2, <2>2, <2>3, EngineAccepts DEF LedgerInv, MatchInv
  <1>3. CASE ScoringNext /\ UNCHANGED engineVars
    <2> DEFINE a == Head(answerQ)
    <2>1. answers' = answers
      BY <1>3 DEF engineVars, redisVars
    <2>2. /\ UNCHANGED <<leaderboard, awards>> \/ PayStep
          /\ resent' = resent \/ ResendStep
      BY <1>3, ScoringPays DEF LedgerInv, MatchInv
    <2>3. /\ Paid' = {b \in answers : awards'[SlotOf(b)] > 0}
          /\ Unsure' = {b \in answers : resent'[SlotOf(b)] > 0}
      BY <2>1 DEF Paid, Unsure, SlotOf
    <2>4. resent' = resent => Unsure' = Unsure
      BY <2>3 DEF Unsure
    <2>5. ASSUME ResendStep PROVE a \in answers /\ a \in Answer /\ Unsure' = Unsure \cup {a}
      <3>1. /\ a \in answers /\ a \in Answer /\ resent'[SlotOf(a)] > 0
            /\ \A s \in Slot : s # SlotOf(a) => resent'[s] = resent[s]
        BY <2>5, ResendEffect DEF LedgerInv
      <3> HIDE DEF a
      <3>2. \A b \in answers : SlotOf(b) = SlotOf(a) => b = a
        BY <3>1 DEF LedgerInv, AcceptedInv
      <3> QED
        BY <1>1, <2>3, <3>1, <3>2 DEF Unsure
    <2>6. CASE UNCHANGED <<leaderboard, awards>>
      <3>1. Paid' = Paid
        BY <2>3, <2>6 DEF Paid
      <3>2. CASE resent' = resent
        BY <2>1, <2>4, <2>6, <3>1, <3>2 DEF Paid, Unsure
      <3>3. CASE ResendStep
        BY <2>1, <2>5, <2>6, <3>1, <3>3 DEF Ledger!Doubt, Paid, Unsure
      <3> QED
        BY <2>2, <3>2, <3>3
    <2>7. CASE PayStep
      <3>1. /\ a \in answers /\ a \in Answer /\ SlotOf(a) \in Slot
            /\ awards[SlotOf(a)] <= resent[SlotOf(a)]
            /\ awards'[SlotOf(a)] = awards[SlotOf(a)] + 1
            /\ \A s \in Slot : s # SlotOf(a) => awards'[s] = awards[s]
            /\ leaderboard' = [leaderboard EXCEPT ![a.player] = @ + a.pts]
        BY <2>7, PayEffect DEF LedgerInv
      <3>2. Unsure' = Unsure \/ Unsure' = Unsure \cup {a}
        BY <2>2, <2>4, <2>5
      <3> HIDE DEF a
      <3>3. \A b \in answers : SlotOf(b) = SlotOf(a) => b = a
        BY <3>1 DEF LedgerInv, AcceptedInv
      <3>4. Paid' = Paid \cup {a}
        <4>1. awards'[SlotOf(a)] > 0
          BY <1>4, <3>1
        <4> QED
          BY <1>1, <2>3, <3>1, <3>3, <4>1 DEF Paid
      <3>5. Ledger!Add(a)
        BY <3>1 DEF Ledger!Add
      <3>6. CASE awards[SlotOf(a)] > 0
        <4>1. a \in Paid /\ a \in Unsure
          BY <1>4, <3>1, <3>6 DEF Paid, Unsure
        <4>2. Paid' = Paid /\ Unsure' = Unsure
          BY <3>2, <3>4, <4>1
        <4> QED
          BY <2>1, <3>1, <3>5, <4>1, <4>2 DEF Ledger!AddAgain, Paid, Unsure
      <3>7. CASE ~(awards[SlotOf(a)] > 0)
        <4>1. a \notin Paid
          BY <3>7 DEF Paid
        <4> QED
          BY <2>1, <3>1, <3>2, <3>4, <3>5, <4>1 DEF Ledger!Award, Paid, Unsure
      <3> QED
        BY <3>6, <3>7
    <2> QED
      BY <2>2, <2>6, <2>7
  <1> QED
    BY <1>2, <1>3 DEF Next

(* The match implements the ledger, for any number of players, rounds,      *)
(* concurrent calls and faults: through crashes, redeliveries, resends and  *)
(* failing stores a player has at most one accepted answer to each round,   *)
(* and a score changes only by the points of an accepted answer, added once *)
(* and again only after an addition that got no reply (round.go:176-191,    *)
(* answer_worker.go:51-69, leaderboard.go:10-32, client.go:11-13).          *)
THEOREM MatchKeepsLedger == Spec => ImplementsLedgerSafety
  <1>1. Init => LedgerInv /\ Ledger!LedgerInit
    <2>1. Init => Ledger!LedgerInit
      BY DEF Init, SharedInit, EngineInit, Ledger!LedgerInit
    <2> QED
      BY <2>1, LedgerInvInit
  <1>2. LedgerInv /\ [Next]_vars => LedgerInv' /\ [Ledger!LedgerNext]_Ledger!ledgerVars
    <2>1. ASSUME UNCHANGED vars PROVE UNCHANGED Ledger!ledgerVars
      <3>1. UNCHANGED <<answers, awards, resent, leaderboard>>
        BY <2>1 DEF vars, sharedVars, engineVars, redisVars, scoringVars
      <3>2. Paid' = Paid /\ Unsure' = Unsure
        BY <3>1 DEF Paid, Unsure, SlotOf
      <3> QED
        BY <3>1, <3>2 DEF Paid, Unsure, Ledger!ledgerVars
    <2> QED
      BY <2>1, LedgerInvStep, LedgerStep
  <1> QED
    BY <1>1, <1>2, PTL DEF Spec, ImplementsLedgerSafety, Ledger!LedgerSafety

-----------------------------------------------------------------------------
(* Statistics and history.                                                  *)

(* What the handler of match.finished has yet to add for the document it    *)
(* has inserted.                                                            *)
Pending(u) == IF finPc = "inserted" /\ u \in finLeft THEN 1 ELSE 0

PendingWin(u) ==
  IF finPc = "inserted" /\ u \in finLeft /\ Winner(snapshot) = u THEN 1 ELSE 0

(* A player's statistics and what is pending never exceed the history, and  *)
(* until something fails they add up to it.                                 *)
StatsInv ==
  \A u \in Player :
    /\ played[u] + Pending(u) <= Len(history)
    /\ wins[u] + PendingWin(u) <= Cardinality(Documents(u))
    /\ faults = 0 =>
         /\ played[u] + Pending(u) = Len(history)
         /\ wins[u] + PendingWin(u) = Cardinality(Documents(u))

LEMMA DocumentsFinite ==
  ASSUME ScoringTypeOK, NEW u
  PROVE  /\ IsFiniteSet(Documents(u)) /\ Cardinality(Documents(u)) \in Nat
         /\ Documents(u) \subseteq 1..Len(history) /\ Len(history) \in Nat
  <1>1. Len(history) \in Nat /\ Documents(u) \subseteq 1..Len(history)
    BY DEF ScoringTypeOK, Documents
  <1>2. IsFiniteSet(1..Len(history))
    BY <1>1, FS_Interval
  <1> QED
    BY <1>1, <1>2, FS_Subset, FS_CardinalityType

(* A new document counts for its winner and for nobody else. *)
LEMMA DocumentsGrow ==
  ASSUME ScoringTypeOK, NEW b \in Board, history' = Append(history, b), NEW u
  PROVE  /\ Len(history') = Len(history) + 1
         /\ Cardinality(Documents(u)') =
              IF Winner(b) = u THEN Cardinality(Documents(u)) + 1 ELSE Cardinality(Documents(u))
  <1> DEFINE n == Len(history) + 1
  <1>1. history \in Seq(Board) /\ Len(history) \in Nat
    BY DEF ScoringTypeOK
  <1>2. /\ Len(history') = n /\ history'[n] = b
        /\ \A i \in 1..Len(history) : history'[i] = history[i]
    BY <1>1
  <1>3. n \notin Documents(u) /\ IsFiniteSet(Documents(u))
    BY <1>1, DocumentsFinite
  <1>4. Documents(u)' = {i \in 1..Len(history') : Winner(history'[i]) = u}
    BY DEF Documents, Winner, Outranks
  <1>5. \A i : i \in 1..Len(history') <=> i \in 1..Len(history) \/ i = n
    BY <1>1, <1>2
  <1>6. \A i : i \in Documents(u)' <=> i \in Documents(u) \/ (i = n /\ Winner(b) = u)
    <2>1. \A i : i \in Documents(u) <=> i \in 1..Len(history) /\ Winner(history[i]) = u
      BY DEF Documents
    <2>2. \A i : i \in Documents(u)' <=> i \in 1..Len(history') /\ Winner(history'[i]) = u
      BY <1>4
    <2> HIDE DEF n
    <2>3. \A i \in 1..Len(history) : i # n
      BY <1>1 DEF n
    <2> QED
      BY <1>2, <1>5, <2>1, <2>2, <2>3
  <1>7. CASE Winner(b) = u
    <2>1. Documents(u)' = Documents(u) \cup {n}
      BY <1>6, <1>7
    <2> QED
      BY <1>2, <1>3, <1>7, <2>1, FS_AddElement
  <1>8. CASE Winner(b) # u
    <2>1. Documents(u)' = Documents(u)
      BY <1>6, <1>8
    <2> QED
      BY <1>2, <1>8, <2>1
  <1> QED
    BY <1>7, <1>8

LEMMA ScoringKeepsStats ==
  ASSUME MatchInv, StatsInv, ScoringNext
  PROVE  StatsInv'
  <1> SUFFICES ASSUME NEW u \in Player
               PROVE  /\ played'[u] + Pending(u)' <= Len(history')
                      /\ wins'[u] + PendingWin(u)' <= Cardinality(Documents(u)')
                      /\ faults' = 0 =>
                           /\ played'[u] + Pending(u)' = Len(history')
                           /\ wins'[u] + PendingWin(u)' = Cardinality(Documents(u)')
    BY DEF StatsInv, Documents, Pending, PendingWin, Winner, Outranks
  <1> DEFINE Goal == /\ played'[u] + Pending(u)' <= Len(history')
                     /\ wins'[u] + PendingWin(u)' <= Cardinality(Documents(u)')
                     /\ faults' = 0 =>
                          /\ played'[u] + Pending(u)' = Len(history')
                          /\ wins'[u] + PendingWin(u)' = Cardinality(Documents(u)')
  <1>1. ScoringTypeOK
    BY DEF MatchInv
  <1>2. /\ played \in [Player -> Nat] /\ wins \in [Player -> Nat]
        /\ played[u] \in Nat /\ wins[u] \in Nat /\ snapshot \in Board
        /\ Pending(u) \in {0, 1} /\ PendingWin(u) \in {0, 1}
        /\ Len(history) \in Nat /\ Cardinality(Documents(u)) \in Nat
    BY <1>1, DocumentsFinite DEF ScoringTypeOK, Pending, PendingWin
  <1>3. faults' = 0 => faults = 0 /\ ~ScoringFaultStep /\ ~Fault
    BY ScoringCalm DEF ScoringFaultStep, Fault, MatchInv, EngineInv, EngineTypeOK, SharedTypeOK
  <1>4. /\ played[u] + Pending(u) <= Len(history)
        /\ wins[u] + PendingWin(u) <= Cardinality(Documents(u))
        /\ faults = 0 =>
             /\ played[u] + Pending(u) = Len(history)
             /\ wins[u] + PendingWin(u) = Cardinality(Documents(u))
    BY DEF StatsInv
  (* Nothing that StatsInv speaks of changes, or nothing becomes pending. *)
  <1>5. ASSUME UNCHANGED <<history, played, wins>>, Pending(u)' = Pending(u),
               PendingWin(u)' = PendingWin(u)
        PROVE  Goal
    <2>1. Documents(u)' = Documents(u)
      BY <1>5 DEF Documents, Winner, Outranks
    <2> QED
      BY <1>3, <1>4, <1>5, <2>1
  <1>6. CASE AnswerWorkerStep \/ MarkFails \/ AddResent \/ AddFails
    <2>1. UNCHANGED <<history, played, wins, finPc, finLeft, snapshot>>
      BY <1>6 DEF AnswerWorkerStep, MarkScored, AddPoints, AckAnswer, MarkFails, AddResent,
         AddFails
    <2>2. Pending(u)' = Pending(u) /\ PendingWin(u)' = PendingWin(u)
      BY <2>1 DEF Pending, PendingWin, Winner, Outranks
    <2> QED
      BY <1>5, <2>1, <2>2
  <1>7. CASE ReadLeaderboard
    <2>1. UNCHANGED <<history, played, wins>> /\ finPc = "idle" /\ finPc' = "read"
      BY <1>7 DEF ReadLeaderboard
    <2>2. Pending(u)' = Pending(u) /\ PendingWin(u)' = PendingWin(u)
      BY <2>1 DEF Pending, PendingWin
    <2> QED
      BY <1>5, <2>1, <2>2
  <1>8. CASE AckFinished
    <2>1. UNCHANGED <<history, played, wins>> /\ finLeft = {} /\ finPc' = "idle"
      BY <1>8 DEF AckFinished
    <2>2. Pending(u)' = Pending(u) /\ PendingWin(u)' = PendingWin(u)
      BY <2>1 DEF Pending, PendingWin
    <2> QED
      BY <1>5, <2>1, <2>2
  <1>9. CASE InsertHistory
    <2>1. /\ history' = Append(history, snapshot) /\ finLeft' = Player /\ finPc' = "inserted"
          /\ finPc = "read" /\ UNCHANGED <<played, wins, snapshot>>
      BY <1>9 DEF InsertHistory
    <2>2. Pending(u) = 0 /\ PendingWin(u) = 0
      BY <2>1 DEF Pending, PendingWin
    <2>3. Winner(snapshot)' = Winner(snapshot)
      BY <2>1 DEF Winner, Outranks
    <2>4. Pending(u)' = 1 /\ PendingWin(u)' = IF Winner(snapshot) = u THEN 1 ELSE 0
      BY <2>1, <2>3 DEF Pending, PendingWin
    <2>5. /\ Len(history') = Len(history) + 1
          /\ Cardinality(Documents(u)') =
               IF Winner(snapshot) = u THEN Cardinality(Documents(u)) + 1
                                       ELSE Cardinality(Documents(u))
      BY <1>1, <1>2, <2>1, DocumentsGrow
    <2>6. played' = played /\ wins' = wins
      BY <2>1
    <2> QED
      BY SMTT(30), <1>2, <1>3, <1>4, <2>2, <2>4, <2>5, <2>6
  <1>10. ASSUME NEW v \in Player, UpdateStats(v) PROVE Goal
    <2>1. /\ finPc = "inserted" /\ v \in finLeft /\ finLeft' = finLeft \ {v}
          /\ history' = history /\ finPc' = finPc /\ snapshot' = snapshot
      BY <1>10 DEF UpdateStats
    <2>2. Documents(u)' = Documents(u) /\ Winner(snapshot)' = Winner(snapshot)
      BY <2>1 DEF Documents, Winner, Outranks
    <2>3. CASE u # v
      <3>1. Pending(u)' = Pending(u) /\ PendingWin(u)' = PendingWin(u)
        BY <2>1, <2>2, <2>3 DEF Pending, PendingWin
      <3>2. played'[u] = played[u] /\ wins'[u] = wins[u]
        BY <1>2, <1>10, <2>3 DEF UpdateStats
      <3>3. history' = history
        BY <2>1
      <3> QED
        BY <1>3, <1>4, <2>2, <3>1, <3>2, <3>3
    <2>4. CASE u = v
      <3>1. /\ Pending(u) = 1 /\ PendingWin(u) = IF Winner(snapshot) = u THEN 1 ELSE 0
            /\ Pending(u)' = 0 /\ PendingWin(u)' = 0
        BY <2>1, <2>4 DEF Pending, PendingWin
      <3>2. CASE Fault /\ UNCHANGED <<played, wins>>
        BY <1>2, <1>3, <1>4, <2>1, <2>2, <3>1, <3>2
      <3>3. CASE /\ played' = [played EXCEPT ![u] = @ + 1]
                 /\ wins' = IF u = Winner(snapshot) THEN [wins EXCEPT ![u] = @ + 1] ELSE wins
        <4>1. /\ played'[u] = played[u] + 1
              /\ wins'[u] = IF Winner(snapshot) = u THEN wins[u] + 1 ELSE wins[u]
          BY <1>2, <3>3
        <4> QED
          BY <1>2, <1>3, <1>4, <2>1, <2>2, <3>1, <4>1
      <3> QED
        BY <1>10, <2>4, <3>2, <3>3 DEF UpdateStats
    <2> QED
      BY <2>3, <2>4
  <1>11. CASE FinishFails \/ ScoringCrash
    <2>1. /\ faults' # 0 /\ UNCHANGED <<played, wins>> /\ finPc' = "idle"
          /\ history' = history \/ history' = Append(history, snapshot)
      BY <1>3, <1>11 DEF FinishFails, ScoringCrash, ScoringFaultStep
    <2>2. Pending(u)' = 0 /\ PendingWin(u)' = 0
      BY <2>1 DEF Pending, PendingWin
    <2>3. /\ Len(history') >= Len(history) /\ Len(history') \in Nat
          /\ Cardinality(Documents(u)') >= Cardinality(Documents(u))
          /\ Cardinality(Documents(u)') \in Nat
      <3>1. CASE history' = history
        <4>1. Documents(u)' = Documents(u)
          BY <3>1 DEF Documents, Winner, Outranks
        <4> QED
          BY <1>2, <3>1, <4>1
      <3>2. CASE history' = Append(history, snapshot)
        <4>1. /\ Len(history') = Len(history) + 1
              /\ Cardinality(Documents(u)') =
                   IF Winner(snapshot) = u THEN Cardinality(Documents(u)) + 1
                                           ELSE Cardinality(Documents(u))
          BY <1>1, <1>2, <3>2, DocumentsGrow
        <4> QED
          BY <1>2, <4>1
      <3> QED
        BY <2>1, <3>1, <3>2
    <2>4. played'[u] = played[u] /\ wins'[u] = wins[u]
      BY <2>1
    <2> QED
      BY <1>2, <1>4, <2>1, <2>2, <2>3, <2>4
  <1> QED
    BY <1>6, <1>7, <1>8, <1>9, <1>10, <1>11
    DEF ScoringNext, MatchFinishedStep, ScoringFaultStep

LEMMA StatsInvariance == Spec => [](MatchInv /\ StatsInv)
  <1>1. ASSUME Init PROVE StatsInv
    <2>1. \A u \in Player : Documents(u) = {}
      BY <1>1 DEF Init, ScoringInit, Documents
    <2>2. \A u \in Player : Pending(u) = 0 /\ PendingWin(u) = 0
      BY <1>1 DEF Init, ScoringInit, Pending, PendingWin
    <2>3. ASSUME NEW u \in Player
          PROVE  played[u] = 0 /\ wins[u] = 0 /\ Len(history) = 0 /\ Cardinality(Documents(u)) = 0
      BY <1>1, <2>1, FS_EmptySet DEF Init, ScoringInit
    <2>4. ASSUME NEW u \in Player
          PROVE  /\ played[u] + Pending(u) = 0 /\ wins[u] + PendingWin(u) = 0
                 /\ Len(history) = 0 /\ Cardinality(Documents(u)) = 0
      BY <2>2, <2>3
    <2> QED
      BY <2>4 DEF StatsInv
  <1>2. ASSUME MatchInv, StatsInv, [Next]_vars PROVE StatsInv'
    <2>1. CASE ScoringNext
      BY <1>2, <2>1, ScoringKeepsStats
    <2>2. CASE \/ EngineNext /\ UNCHANGED scoringVars
               \/ UNCHANGED vars
      <3>1. UNCHANGED <<history, played, wins, finPc, finLeft, snapshot>>
        BY <2>2 DEF vars, scoringVars
      <3>2. faults' = 0 => faults = 0
        BY <1>2, <2>2, CalmFacts DEF MatchInv, vars, sharedVars
      <3>3. ASSUME NEW u \in Player
            PROVE  /\ Pending(u)' = Pending(u) /\ PendingWin(u)' = PendingWin(u)
                   /\ Documents(u)' = Documents(u)
        BY <3>1 DEF Pending, PendingWin, Documents, Winner, Outranks
      <3> QED
        BY <1>2, <3>1, <3>2, <3>3 DEF StatsInv
    <2> QED
      BY <1>2, <2>1, <2>2 DEF Next
  <1> QED
    BY <1>1, <1>2, MatchInvInit, MatchInvStep, PTL DEF Spec

(* For any number of players, redeliveries and faults the statistics of a   *)
(* player never count a match that is not in the history or a win that no   *)
(* document names, and as long as nothing has failed and no update is under *)
(* way they agree with the history, however often match.finished is         *)
(* published for the room (match_finished.go:103-127).                      *)
THEOREM StatsFollowHistory == Spec => []StatsMatchHistory
  <1>1. ASSUME MatchInv, StatsInv PROVE StatsMatchHistory
    <2> SUFFICES ASSUME NEW u \in Player
                 PROVE  /\ played[u] <= Len(history) /\ wins[u] <= Cardinality(Documents(u))
                        /\ faults = 0 /\ finPc # "inserted" =>
                             played[u] = Len(history) /\ wins[u] = Cardinality(Documents(u))
      BY DEF StatsMatchHistory
    <2>1. /\ played[u] \in Nat /\ wins[u] \in Nat /\ Len(history) \in Nat
          /\ Cardinality(Documents(u)) \in Nat
      BY <1>1, DocumentsFinite DEF MatchInv, ScoringTypeOK
    <2>2. /\ Pending(u) \in {0, 1} /\ PendingWin(u) \in {0, 1}
          /\ finPc # "inserted" => Pending(u) = 0 /\ PendingWin(u) = 0
      BY DEF Pending, PendingWin
    <2> QED
      BY <1>1, <2>1, <2>2 DEF StatsInv
  <1> QED
    BY <1>1, StatsInvariance, PTL

-----------------------------------------------------------------------------
(* The match implements MatchProgress.                                      *)

(* match.finished is published, and a document written for it, only after   *)
(* the last round was opened.                                               *)
RecordInv == finishedQ # <<>> \/ history # <<>> => Started(TotalRounds)

MatchProgressInv == MatchInv /\ ProgressInv /\ RecordInv

LEMMA ProgressStep ==
  ASSUME MatchProgressInv, Next
  PROVE  MatchProgressInv' /\ [Progress!ProgressNext]_Progress!progressVars
  <1> USE DEF Progress!ProgressNext, Progress!progressVars
  <1>1. MatchInv'
    BY MatchInvStep DEF MatchProgressInv
  <1>2. TotalRounds \in Rounds
    BY RoomAssumption DEF Rounds
  <1>3. CASE EngineNext /\ UNCHANGED scoringVars
    <2>1. ProgressInv'
      BY <1>3, ProgressInvStep DEF MatchProgressInv
    <2>2. history' = history
      BY <1>3 DEF scoringVars
    <2>3. Started(TotalRounds) => Started(TotalRounds)'
      BY <1>2, <1>3, StaysStarted DEF MatchProgressInv, MatchInv
    <2>4. CASE UNCHANGED <<ended, finishedQ>>
      <3>1. Reached' = Reached \/ (Reached < TotalRounds /\ Reached' = Reached + 1)
        BY <1>3, ReachedStep DEF MatchProgressInv, ProgressInv
      <3>2. RecordInv'
        BY <2>2, <2>3, <2>4 DEF MatchProgressInv, RecordInv
      <3> QED
        BY <1>1, <2>1, <2>2, <2>4, <3>1, <3>2 DEF MatchProgressInv, Progress!Advance
    <2>5. CASE EndMatch \/ FinishMatch
      <3>1. Started(TotalRounds)
        BY <2>5, EndedRoundIsLast DEF FinishMatch, MatchProgressInv, ProgressInv, ReportInv
      <3>2. Reached = TotalRounds /\ Reached' = Reached
        BY <1>3, <3>1, AllReached DEF MatchProgressInv, ProgressInv
      <3>3. ended' = TRUE \/ ended' = ended
        BY <2>5 DEF EndMatch, FinishMatch, clientVars
      <3>4. RecordInv'
        BY <2>3, <3>1 DEF RecordInv
      <3> QED
        BY <1>1, <2>1, <2>2, <3>2, <3>3, <3>4 DEF MatchProgressInv, Progress!Finish
    <2> QED
      BY <1>3, <2>4, <2>5, EndIsTold
  <1>4. CASE ScoringNext /\ UNCHANGED engineVars
    <2>1. asked' = asked /\ ended' = ended /\ rcPc' = rcPc
      BY <1>4 DEF engineVars, clientVars
    <2>2. \A r \in Rounds : Started(r)' <=> Started(r)
      BY <2>1 DEF Started
    <2>3. Reached' = Reached
      BY <2>2, ReachedFacts, ReachedNextIs DEF MatchProgressInv, ProgressInv
    <2>4. ProgressInv'
      BY <1>1, <2>1 DEF MatchInv, MatchProgressInv, ProgressInv, ReachedInv, ReportInv, Started
    <2>5. \/ history' = history
          \/ finishedQ # <<>> /\ history' = Append(history, snapshot)
      BY <1>4
      DEF ScoringNext, AnswerWorkerStep, MarkScored, AddPoints, AckAnswer, MatchFinishedStep,
          ReadLeaderboard, InsertHistory, UpdateStats, AckFinished, ScoringFaultStep, MarkFails,
          AddResent, AddFails, FinishFails, ScoringCrash, MatchProgressInv, MatchInv, WorkersInv
    <2>6. finishedQ' = finishedQ \/ finishedQ # <<>>
      BY <1>4
      DEF ScoringNext, AnswerWorkerStep, MarkScored, AddPoints, AckAnswer, MatchFinishedStep,
          ReadLeaderboard, InsertHistory, UpdateStats, AckFinished, ScoringFaultStep, MarkFails,
          AddResent, AddFails, FinishFails, ScoringCrash, MatchProgressInv, MatchInv, WorkersInv, sharedVars
    <2>7. RecordInv'
      BY <1>2, <2>2, <2>5, <2>6 DEF MatchProgressInv, RecordInv
    <2>8. CASE history' = history
      BY <1>1, <2>1, <2>3, <2>4, <2>7, <2>8 DEF MatchProgressInv
    <2>9. CASE finishedQ # <<>> /\ history' = Append(history, snapshot)
      <3>1. Reached = TotalRounds
        BY <1>2, <2>9, ReachedFacts, RoomAssumption
        DEF MatchProgressInv, ProgressInv, RecordInv
      <3>2. history \in Seq(Board) /\ snapshot \in Board
        BY DEF MatchProgressInv, MatchInv, ScoringTypeOK
      <3>3. (history # <<>>)' = TRUE
        BY <2>9, <3>2
      <3> QED
        BY <1>1, <2>1, <2>3, <2>4, <2>7, <3>1, <3>3 DEF MatchProgressInv, Progress!Record
    <2> QED
      BY <2>5, <2>8, <2>9
  <1> QED
    BY <1>3, <1>4 DEF Next

(* The match keeps the promise made to the players whatever fails in the    *)
(* engine or in the scoring service: no result is recorded before the last  *)
(* round was opened and match.finished published                            *)
(* (round_completed.go:102-123, match_finished.go:74-101).                  *)
THEOREM MatchKeepsProgress == Spec => ImplementsProgressSafety
  <1>1. Init => MatchProgressInv /\ Progress!ProgressInit
    <2> SUFFICES ASSUME Init PROVE MatchProgressInv /\ Progress!ProgressInit
      OBVIOUS
    <2>1. EngineAloneInit
      BY DEF Init, EngineAloneInit
    <2>2. ProgressInv /\ Reached = 0 /\ ended = FALSE
      BY <2>1, ProgressInvInit DEF EngineProgress!ProgressInit
    <2>3. history = <<>> /\ finishedQ = <<>>
      BY DEF Init, SharedInit, ScoringInit
    <2> QED
      BY <2>2, <2>3, MatchInvInit DEF MatchProgressInv, RecordInv, Progress!ProgressInit
  <1>2. ASSUME MatchProgressInv, [Next]_vars
        PROVE  MatchProgressInv' /\ [Progress!ProgressNext]_Progress!progressVars
    <2>1. CASE UNCHANGED vars
      <3>1. /\ asked' = asked /\ ended' = ended /\ finishedQ' = finishedQ /\ rcPc' = rcPc
            /\ history' = history
        BY <2>1 DEF vars, sharedVars, engineVars, clientVars, scoringVars
      <3>2. \A r \in Rounds : Started(r)' <=> Started(r)
        BY <3>1 DEF Started
      <3>3. Reached' = Reached
        BY <1>2, <3>2, ReachedFacts, ReachedNextIs DEF MatchProgressInv, ProgressInv
      <3>4. MatchInv'
        BY <1>2, MatchInvStep DEF MatchProgressInv
      <3>5. ProgressInv' /\ RecordInv'
        BY <1>2, <3>1, <3>4
        DEF MatchProgressInv, MatchInv, ProgressInv, ReachedInv, ReportInv, RecordInv, Started
      <3> QED
        BY <3>1, <3>3, <3>4, <3>5 DEF MatchProgressInv, Progress!progressVars
    <2> QED
      BY <1>2, <2>1, ProgressStep
  <1> QED
    BY <1>1, <1>2, PTL DEF Spec, ImplementsProgressSafety, Progress!ProgressSafety

-----------------------------------------------------------------------------
(* Sums over finite sets.  What a recursive definition says of a finite set *)
(* is shown of a least subset it would be wrong for.                        *)

(* A set of finite subsets of S has a least one. *)
LEMMA LeastSubset ==
  ASSUME NEW S, NEW T \in SUBSET FiniteSubsetsOf(S), T # {}
  PROVE  \E x \in T : \A y \in T : ~(y \subseteq x /\ x # y)
  <1>1. \E x \in T : \A y \in T : ~ (<<y, x>> \in StrictSubsetOrdering(S))
    BY WFMin, FS_StrictSubsetOrderingWellFounded
  <1> QED
    BY <1>1 DEF StrictSubsetOrdering, FiniteSubsetsOf

Pick(s) == CHOOSE x \in s : TRUE

(* g is the sum of w over every subset of S, in the recursive form of the   *)
(* community modules.                                                       *)
Sums(w, S, g) ==
  g = [s \in SUBSET S |-> IF s = {} THEN 0 ELSE w[Pick(s)] + g[s \ {Pick(s)}]]

LEMMA SumIs ==
  ASSUME NEW w, NEW S
  PROVE  SumFunctionOnSet(w, S) = (CHOOSE g : Sums(w, S, g))[S]
  BY DEF SumFunctionOnSet, FoldFunctionOnSet, MapThenFoldSet, Sums, Pick

LEMMA PickFacts == ASSUME NEW s, s # {} PROVE Pick(s) \in s
  BY DEF Pick

LEMMA SumsFacts ==
  ASSUME NEW w, NEW S, NEW g, Sums(w, S, g), NEW s \in SUBSET S
  PROVE  /\ s = {} => g[s] = 0
         /\ s # {} => g[s] = w[Pick(s)] + g[s \ {Pick(s)}]
  BY DEF Sums

LEMMA SumsUnique ==
  ASSUME NEW w, NEW S, IsFiniteSet(S), NEW T \in SUBSET S, NEW g, NEW h,
         Sums(w, S, g), Sums(w, T, h)
  PROVE  \A s \in SUBSET T : g[s] = h[s]
  <1> DEFINE Bad == {s \in SUBSET T : g[s] # h[s]}
  <1>1. Bad \in SUBSET FiniteSubsetsOf(T)
    BY FS_Subset DEF FiniteSubsetsOf
  <1>2. ASSUME Bad # {} PROVE FALSE
    <2>1. PICK s \in Bad : \A y \in Bad : ~(y \subseteq s /\ s # y)
      <3> HIDE DEF Bad
      <3> QED
        BY ONLY <1>1, <1>2, LeastSubset
    <2>2. s \in SUBSET T /\ s \in SUBSET S /\ g[s] # h[s]
      OBVIOUS
    <2>3. s # {}
      BY <2>2, SumsFacts
    <2> DEFINE r == s \ {Pick(s)}
    <2>4. r \in SUBSET T /\ r \subseteq s /\ s # r
      BY <2>2, <2>3, PickFacts
    <2>5. g[r] = h[r]
      BY <2>1, <2>4
    <2>6. g[s] = w[Pick(s)] + g[r] /\ h[s] = w[Pick(s)] + h[r]
      BY <2>2, <2>3, SumsFacts
    <2> QED
      BY <2>2, <2>5, <2>6
  <1> QED
    BY <1>2

LEMMA SumsExist ==
  ASSUME NEW w, NEW S, IsFiniteSet(S)
  PROVE  \E g : Sums(w, S, g)
  <1> DEFINE G(s) == CHOOSE g : Sums(w, s, g)
             Bad == {s \in SUBSET S : ~Sums(w, s, G(s))}
  <1>1. Bad \in SUBSET FiniteSubsetsOf(S)
    BY FS_Subset DEF FiniteSubsetsOf
  <1>2. ASSUME Bad # {} PROVE FALSE
    <2>1. PICK s \in Bad : \A y \in Bad : ~(y \subseteq s /\ s # y)
      <3> HIDE DEF Bad
      <3> QED
        BY ONLY <1>1, <1>2, LeastSubset
    <2>2. s \in SUBSET S /\ ~Sums(w, s, G(s))
      OBVIOUS
    <2>3. \A q \in SUBSET s : q # s => Sums(w, q, G(q)) /\ IsFiniteSet(q)
      BY <2>1, <2>2, FS_Subset
    <2> HIDE DEF G, Bad
    <2> DEFINE rest(r) == r \ {Pick(r)}
               g == [r \in SUBSET s |-> IF r = {} THEN 0 ELSE w[Pick(r)] + G(rest(r))[rest(r)]]
    <2>4. ASSUME NEW r \in SUBSET s, r # {} PROVE g[rest(r)] = G(rest(r))[rest(r)]
      <3> DEFINE q == rest(r)
      <3>1. q \in SUBSET s /\ q # s
        BY <2>4, PickFacts
      <3>2. Sums(w, q, G(q)) /\ IsFiniteSet(q)
        BY <2>3, <3>1
      <3>3. CASE q = {}
        <4>1. g[q] = 0
          BY <3>1, <3>3
        <4>2. G(q)[q] = 0
          <5> HIDE DEF q
          <5> QED
            BY <3>2, <3>3, SumsFacts
        <4> QED
          BY <4>1, <4>2
      <3>4. CASE q # {}
        <4> DEFINE p == rest(q)
        <4>1. p \in SUBSET q /\ p \in SUBSET s /\ p # s
          BY <3>1, <3>4, PickFacts
        <4>2. Sums(w, p, G(p))
          BY <2>3, <4>1
        <4>3. g[q] = w[Pick(q)] + G(p)[p]
          BY <3>1, <3>4
        <4> HIDE DEF q
        <4>4. G(q)[q] = w[Pick(q)] + G(q)[p]
          BY <3>2, <3>4, SumsFacts
        <4>5. G(q)[p] = G(p)[p]
          <5> HIDE DEF p
          <5>1. \A Q, a, b : \A P \in SUBSET Q :
                  IsFiniteSet(Q) /\ Sums(w, Q, a) /\ Sums(w, P, b) => a[P] = b[P]
            BY SumsUnique
          <5> HIDE DEF rest
          <5> QED
            BY ONLY <3>2, <4>1, <4>2, <5>1
        <4> QED
          BY <4>3, <4>4, <4>5 DEF q
      <3> QED
        BY <3>3, <3>4
    <2>5. g = [r \in SUBSET s |-> IF r = {} THEN 0 ELSE w[Pick(r)] + g[rest(r)]]
      <3> HIDE DEF rest
      <3>1. \A r \in SUBSET s : (IF r = {} THEN 0 ELSE w[Pick(r)] + G(rest(r))[rest(r)])
                              = (IF r = {} THEN 0 ELSE w[Pick(r)] + g[rest(r)])
        BY <2>4
      <3> QED
        BY <3>1
    <2>6. Sums(w, s, g)
      BY <2>5 DEF Sums
    <2>7. Sums(w, s, G(s))
      <3> HIDE DEF g
      <3> QED
        BY <2>6 DEF G
    <2> QED
      BY <2>2, <2>7
  <1>3. S \in SUBSET S
    OBVIOUS
  <1> QED
    BY <1>2, <1>3

(* The recursive form of the sum itself. *)
LEMMA SumRecursion ==
  ASSUME NEW w, NEW S, IsFiniteSet(S)
  PROVE  /\ S = {} => SumFunctionOnSet(w, S) = 0
         /\ S # {} => SumFunctionOnSet(w, S) = w[Pick(S)] + SumFunctionOnSet(w, S \ {Pick(S)})
  <1> DEFINE R == S \ {Pick(S)}
             g == CHOOSE g : Sums(w, S, g)
             h == CHOOSE h : Sums(w, R, h)
  <1>1. IsFiniteSet(R) /\ R \in SUBSET S
    BY FS_Subset
  <1>2. Sums(w, S, g)
    BY SumsExist
  <1>3. Sums(w, R, h)
    <2> HIDE DEF R
    <2> QED
      BY <1>1, SumsExist
  <1>4. SumFunctionOnSet(w, S) = g[S] /\ SumFunctionOnSet(w, R) = h[R]
    <2> HIDE DEF R
    <2> QED
      BY SumIs
  <1> HIDE DEF R, g, h
  <1>5. g[R] = h[R]
    BY <1>1, <1>2, <1>3, SumsUnique
  <1>6. S \in SUBSET S
    OBVIOUS
  <1> QED
    BY <1>2, <1>4, <1>5, <1>6, SumsFacts DEF R

(* A sum is what its terms are: two functions that agree on S have the same.*)
LEMMA SumAgrees ==
  ASSUME NEW S, IsFiniteSet(S), NEW v, NEW w, \A x \in S : v[x] = w[x]
  PROVE  SumFunctionOnSet(v, S) = SumFunctionOnSet(w, S)
  <1> DEFINE Bad == {s \in SUBSET S : SumFunctionOnSet(v, s) # SumFunctionOnSet(w, s)}
  <1>1. Bad \in SUBSET FiniteSubsetsOf(S)
    BY FS_Subset DEF FiniteSubsetsOf
  <1>2. ASSUME Bad # {} PROVE FALSE
    <2>1. PICK s \in Bad : \A y \in Bad : ~(y \subseteq s /\ s # y)
      <3> HIDE DEF Bad
      <3> QED
        BY ONLY <1>1, <1>2, LeastSubset
    <2>2. s \in SUBSET S /\ IsFiniteSet(s) /\ SumFunctionOnSet(v, s) # SumFunctionOnSet(w, s)
      BY FS_Subset
    <2>3. s # {}
      BY <2>2, SumRecursion
    <2>4. Pick(s) \in s
      BY <2>3, PickFacts
    <2> DEFINE r == s \ {Pick(s)}
    <2>5. SumFunctionOnSet(v, r) = SumFunctionOnSet(w, r)
      BY <2>1, <2>2, <2>4
    <2>6. /\ SumFunctionOnSet(v, s) = v[Pick(s)] + SumFunctionOnSet(v, r)
          /\ SumFunctionOnSet(w, s) = w[Pick(s)] + SumFunctionOnSet(w, r)
      BY <2>2, <2>3, SumRecursion
    <2> QED
      BY <2>2, <2>4, <2>5, <2>6
  <1>3. S \in SUBSET S
    OBVIOUS
  <1> QED
    BY <1>2, <1>3

(* A sum of numbers is a number, and any of its terms can be taken first.   *)
LEMMA SumOfNumbers ==
  ASSUME NEW S, IsFiniteSet(S), NEW w, \A x \in S : w[x] \in Nat
  PROVE  /\ SumFunctionOnSet(w, S) \in Nat
         /\ \A y \in S : SumFunctionOnSet(w, S) = w[y] + SumFunctionOnSet(w, S \ {y})
  <1> DEFINE Good(s) == /\ SumFunctionOnSet(w, s) \in Nat
                        /\ \A y \in s : SumFunctionOnSet(w, s) = w[y] + SumFunctionOnSet(w, s \ {y})
             Bad == {s \in SUBSET S : ~Good(s)}
  <1>1. Bad \in SUBSET FiniteSubsetsOf(S)
    BY FS_Subset DEF FiniteSubsetsOf
  <1>2. ASSUME Bad # {} PROVE FALSE
    <2>1. PICK s \in Bad : \A y \in Bad : ~(y \subseteq s /\ s # y)
      <3> HIDE DEF Bad
      <3> QED
        BY ONLY <1>1, <1>2, LeastSubset
    <2>2. s \in SUBSET S /\ IsFiniteSet(s) /\ ~Good(s)
      BY FS_Subset
    <2>3. \A r \in SUBSET s : r # s => Good(r) /\ IsFiniteSet(r)
      BY <2>1, <2>2, FS_Subset
    <2>4. s # {}
      <3>1. s = {} => SumFunctionOnSet(w, s) = 0
        BY <2>2, SumRecursion
      <3> QED
        BY <2>2, <3>1
    <2> DEFINE x == Pick(s)
               r == s \ {x}
    <2>5. x \in s /\ w[x] \in Nat
      BY <2>2, <2>4, PickFacts
    <2>6. SumFunctionOnSet(w, s) = w[x] + SumFunctionOnSet(w, r)
      BY <2>2, <2>4, SumRecursion
    <2> HIDE DEF x
    <2>7. Good(r) /\ IsFiniteSet(r)
      BY <2>3, <2>5
    <2>8. SumFunctionOnSet(w, s) \in Nat
      BY <2>5, <2>6, <2>7
    <2>9. ASSUME NEW y \in s, y # x
          PROVE  SumFunctionOnSet(w, s) = w[y] + SumFunctionOnSet(w, s \ {y})
      <3> DEFINE q == s \ {y}
                 t == r \ {y}
      <3>1. y \in r /\ w[y] \in Nat
        BY <2>2, <2>9
      <3>2. SumFunctionOnSet(w, r) = w[y] + SumFunctionOnSet(w, t)
        BY <2>7, <3>1
      <3>3. Good(q) /\ x \in q /\ q \ {x} = t
        BY <2>3, <2>5, <2>9
      <3>4. SumFunctionOnSet(w, q) = w[x] + SumFunctionOnSet(w, t)
        BY <3>3
      <3>5. t \in SUBSET s /\ t # s
        BY <2>5
      <3>6. SumFunctionOnSet(w, t) \in Nat
        BY <2>3, <3>5
      <3> HIDE DEF q, t, r
      <3> QED
        BY <2>5, <2>6, <3>1, <3>2, <3>4, <3>6 DEF q
    <2> QED
      BY <2>2, <2>6, <2>8, <2>9
  <1>3. S \in SUBSET S
    OBVIOUS
  <1> QED
    BY <1>2, <1>3

-----------------------------------------------------------------------------
(* The leaderboard is the sum of what the accepted answers have brought.    *)

Of(S, u) == {a \in S : a.player = u}

(* What every accepted answer has brought its player so far. *)
Worth == [a \in answers |-> a.pts * awards[SlotOf(a)]]

BoardExact == \A u \in Player : leaderboard[u] = SumFunctionOnSet(Worth, Of(answers, u))

ExactInv == IsFiniteSet(answers) /\ BoardExact

LEMMA Products ==
  /\ \A m, n \in Nat : m * n \in Nat /\ m * 0 = 0 /\ m * 1 = m /\ m * (n + 1) = m * n + m
  /\ \A m, n, k \in Nat : n <= k => m * n <= m * k
  OBVIOUS

LEMMA WorthFacts ==
  ASSUME NEW A \in SUBSET Answer, NEW aw \in [Slot -> Nat]
  PROVE  LET worth == [a \in A |-> a.pts * aw[SlotOf(a)]]
         IN  \A b \in A : /\ worth[b] \in Nat
                          /\ aw[SlotOf(b)] = 0 => worth[b] = 0
                          /\ aw[SlotOf(b)] = 1 => worth[b] = b.pts
  <1> SUFFICES ASSUME NEW b \in A
               PROVE  LET n == b.pts * aw[SlotOf(b)]
                      IN  n \in Nat /\ (aw[SlotOf(b)] = 0 => n = 0) /\ (aw[SlotOf(b)] = 1 => n = b.pts)
    OBVIOUS
  <1>1. b.pts \in Nat /\ aw[SlotOf(b)] \in Nat
    BY SlotFacts
  <1> QED
    BY <1>1, Products

LEMMA WorthNow ==
  ASSUME MatchInv
  PROVE  \A b \in answers : /\ Worth[b] \in Nat
                            /\ awards[SlotOf(b)] = 0 => Worth[b] = 0
                            /\ awards[SlotOf(b)] = 1 => Worth[b] = b.pts
  <1>1. answers \in SUBSET Answer /\ awards \in [Slot -> Nat]
    BY DEF MatchInv, EngineInv, EngineTypeOK, RedisTypeOK, ScoringTypeOK
  <1> QED
    BY <1>1, WorthFacts DEF Worth

LEMMA WorthNext ==
  ASSUME MatchInv'
  PROVE  \A b \in answers' : /\ Worth'[b] \in Nat
                             /\ awards'[SlotOf(b)] = 0 => Worth'[b] = 0
                             /\ awards'[SlotOf(b)] = 1 => Worth'[b] = b.pts
  <1>1. answers' \in SUBSET Answer /\ awards' \in [Slot -> Nat]
    BY DEF MatchInv, EngineInv, EngineTypeOK, RedisTypeOK, ScoringTypeOK, Answer, Slot
  <1>2. Worth' = [a \in answers' |-> a.pts * awards'[SlotOf(a)]]
    BY DEF Worth, SlotOf
  <1> QED
    BY <1>1, <1>2, WorthFacts

LEMMA OfFinite ==
  ASSUME NEW S, IsFiniteSet(S), NEW u
  PROVE  IsFiniteSet(Of(S, u)) /\ Of(S, u) \in SUBSET S
  BY FS_Subset DEF Of

(* The sum over S \cup {a} in terms of that over S. *)
LEMMA SumWith ==
  ASSUME NEW S, IsFiniteSet(S), NEW a, a \notin S, NEW v, NEW w,
         \A b \in S : v[b] = w[b] /\ w[b] \in Nat, w[a] \in Nat
  PROVE  /\ SumFunctionOnSet(w, S \cup {a}) = SumFunctionOnSet(v, S) + w[a]
         /\ SumFunctionOnSet(v, S) \in Nat
  <1> DEFINE T == S \cup {a}
  <1>1. IsFiniteSet(T) /\ a \in T /\ T \ {a} = S
    BY FS_AddElement
  <1>2. \A b \in T : w[b] \in Nat
    OBVIOUS
  <1> HIDE DEF T
  <1>3. SumFunctionOnSet(w, T) = w[a] + SumFunctionOnSet(w, S)
    BY <1>1, <1>2, SumOfNumbers
  <1>4. SumFunctionOnSet(w, S) = SumFunctionOnSet(v, S)
    BY SumAgrees
  <1>5. SumFunctionOnSet(v, S) \in Nat
    BY SumOfNumbers
  <1> QED
    BY <1>3, <1>4, <1>5 DEF T

(* An answer that is worth nothing yet does not change the sum.             *)
LEMMA AcceptKeepsExact ==
  ASSUME LedgerInv, ExactInv, NEW a, AcceptStep(a), awards' = awards, leaderboard' = leaderboard,
         MatchInv'
  PROVE  ExactInv'
  <1>1. /\ a \in Answer /\ awards[SlotOf(a)] = 0
        /\ a \notin answers /\ answers' = answers \cup {a}
    <2>1. a \in Answer /\ SlotOf(a) \in Slot /\ answers' = answers \cup {a}
          /\ \A b \in answers : SlotOf(b) # SlotOf(a)
      BY SlotFacts DEF AcceptStep
    <2>2. awards[SlotOf(a)] \in Nat
      BY <2>1 DEF LedgerInv, MatchInv, ScoringTypeOK
    <2>3. ~(awards[SlotOf(a)] > 0)
      BY <2>1 DEF LedgerInv, AcceptedInv
    <2> QED
      BY <2>1, <2>2, <2>3
  <1>2. IsFiniteSet(answers') /\ IsFiniteSet(answers)
    BY <1>1, FS_AddElement DEF ExactInv
  <1>3. Worth'[a] = 0 /\ \A b \in answers : Worth'[b] = Worth[b] /\ Worth'[b] \in Nat
    <2>1. Worth'[a] = 0 /\ \A b \in answers : Worth'[b] \in Nat
      BY <1>1, WorthNext
    <2>2. Worth' = [b \in answers' |-> b.pts * awards[SlotOf(b)]]
      BY DEF Worth, SlotOf
    <2> QED
      BY <1>1, <2>1, <2>2 DEF Worth
  <1>4. ASSUME NEW u \in Player
        PROVE  leaderboard'[u] = SumFunctionOnSet(Worth', Of(answers', u))
    <2> DEFINE S == Of(answers, u)
    <2>1. IsFiniteSet(S) /\ S \in SUBSET answers /\ a \notin S
      BY <1>1, <1>2, OfFinite
    <2>2. leaderboard[u] = SumFunctionOnSet(Worth, S)
      BY DEF ExactInv, BoardExact, Of
    <2>3. CASE a.player = u
      <3>1. Of(answers', u) = S \cup {a}
        BY <1>1, <2>3 DEF Of
      <3> HIDE DEF S
      <3>2. Worth'[a] \in Nat /\ \A b \in S : Worth[b] = Worth'[b] /\ Worth'[b] \in Nat
        BY <1>3, <2>1
      <3>3. /\ SumFunctionOnSet(Worth', S \cup {a}) = SumFunctionOnSet(Worth, S) + Worth'[a]
            /\ SumFunctionOnSet(Worth, S) \in Nat
        BY ONLY <2>1, <3>2, SumWith
      <3>4. SumFunctionOnSet(Worth', S \cup {a}) = SumFunctionOnSet(Worth, S)
        BY <1>3, <3>3
      <3> QED
        BY <2>2, <3>1, <3>4
    <2>4. CASE a.player # u
      <3>1. Of(answers', u) = S
        BY <1>1, <2>4 DEF Of
      <3> HIDE DEF S
      <3>2. SumFunctionOnSet(Worth', S) = SumFunctionOnSet(Worth, S)
        BY <1>3, <2>1, SumAgrees
      <3> QED
        BY <2>2, <3>1, <3>2
    <2> QED
      BY <2>3, <2>4
  <1> QED
    BY <1>2, <1>4 DEF ExactInv, BoardExact, Of

(* The points that are added are those by which the answer is now worth     *)
(* more.                                                                    *)
LEMMA PayKeepsExact ==
  ASSUME LedgerInv, ExactInv, PayStep, answers' = answers, MatchInv'
  PROVE  ExactInv'
  <1> DEFINE a == Head(answerQ)
  <1>1. /\ a \in answers /\ a \in Answer /\ SlotOf(a) \in Slot
        /\ awards'[SlotOf(a)] = awards[SlotOf(a)] + 1
        /\ \A s \in Slot : s # SlotOf(a) => awards'[s] = awards[s]
        /\ leaderboard' = [leaderboard EXCEPT ![a.player] = @ + a.pts]
    BY PayEffect DEF LedgerInv
  <1> HIDE DEF a
  <1>2. \A b \in answers : b # a => SlotOf(b) # SlotOf(a) /\ SlotOf(b) \in Slot
    BY <1>1, SlotFacts DEF LedgerInv, AcceptedInv, MatchInv, EngineInv, EngineTypeOK, RedisTypeOK
  <1>8. Worth' = [b \in answers |-> b.pts * awards'[SlotOf(b)]]
    BY DEF Worth, SlotOf
  <1>3. /\ Worth'[a] = Worth[a] + a.pts /\ a.pts \in Nat
        /\ \A b \in answers : Worth[b] \in Nat /\ Worth'[b] \in Nat
    <2>1. \A b \in answers : Worth[b] \in Nat /\ Worth'[b] \in Nat
      BY WorthNow, WorthNext DEF LedgerInv
    <2>2. a.pts \in Nat /\ awards[SlotOf(a)] \in Nat
      BY <1>1, SlotFacts DEF LedgerInv, MatchInv, ScoringTypeOK
    <2>3. Worth[a] = a.pts * awards[SlotOf(a)] /\ Worth'[a] = a.pts * (awards[SlotOf(a)] + 1)
      BY <1>1, <1>8 DEF Worth
    <2> QED
      BY <2>1, <2>2, <2>3, Products
  <1>4. \A b \in answers : b # a => Worth'[b] = Worth[b]
    BY <1>1, <1>2, <1>8 DEF Worth
  <1>5. IsFiniteSet(answers)
    BY DEF ExactInv
  <1>6. leaderboard \in [Player -> Nat] /\ a.player \in Player
    BY <1>1, SlotFacts DEF LedgerInv, MatchInv, EngineInv, EngineTypeOK, SharedTypeOK
  <1>7. ASSUME NEW u \in Player
        PROVE  leaderboard'[u] = SumFunctionOnSet(Worth', Of(answers, u))
    <2>1. leaderboard[u] = SumFunctionOnSet(Worth, Of(answers, u))
      BY DEF ExactInv, BoardExact, Of
    <2>2. CASE a.player = u
      <3> DEFINE S == Of(answers, u) \ {a}
      <3>1. IsFiniteSet(S) /\ S \in SUBSET answers /\ a \notin S /\ Of(answers, u) = S \cup {a}
        <4>1. IsFiniteSet(Of(answers, u)) /\ Of(answers, u) \in SUBSET answers
          BY <1>5, OfFinite
        <4>2. a \in Of(answers, u)
          BY <1>1, <2>2 DEF Of
        <4> QED
          BY <4>1, <4>2, FS_Subset
      <3> HIDE DEF S
      <3>7. Worth'[a] \in Nat /\ Worth[a] \in Nat
        BY <1>1, <1>3
      <3>8. \A b \in S : Worth[b] = Worth'[b] /\ Worth'[b] \in Nat
        BY <1>3, <1>4, <3>1
      <3>2. /\ Worth'[a] \in Nat /\ Worth[a] \in Nat
            /\ \A b \in S : Worth[b] = Worth'[b] /\ Worth'[b] \in Nat
            /\ \A b \in S : Worth[b] = Worth[b] /\ Worth[b] \in Nat
        BY <3>7, <3>8
      <3>3. /\ SumFunctionOnSet(Worth', S \cup {a}) = SumFunctionOnSet(Worth, S) + Worth'[a]
            /\ SumFunctionOnSet(Worth, S) \in Nat
        BY ONLY <3>1, <3>2, SumWith
      <3>4. SumFunctionOnSet(Worth, S \cup {a}) = SumFunctionOnSet(Worth, S) + Worth[a]
        BY ONLY ZenonT(40), <3>1, <3>2, SumWith
      <3>5. leaderboard'[u] = leaderboard[u] + a.pts
        BY <1>1, <1>6, <2>2
      <3>6. leaderboard[u] = SumFunctionOnSet(Worth, S) + Worth[a]
        BY <2>1, <3>1, <3>4
      <3>9. PICK k \in Nat : k = SumFunctionOnSet(Worth, S)
        BY <3>3
      <3>10. k + Worth'[a] = leaderboard'[u]
        <4>1. leaderboard'[u] = k + Worth[a] + a.pts
          BY <3>5, <3>6, <3>9
        <4> QED
          BY <1>3, <3>7, <4>1
      <3> QED
        BY <3>1, <3>3, <3>9, <3>10
    <2>3. CASE a.player # u
      <3>1. IsFiniteSet(Of(answers, u))
        BY <1>5, OfFinite
      <3>2. \A b \in Of(answers, u) : b \in answers /\ b # a
        BY <2>3 DEF Of
      <3>3. \A b \in Of(answers, u) : Worth'[b] = Worth[b]
        BY <1>4, <3>2
      <3>4. SumFunctionOnSet(Worth', Of(answers, u)) = SumFunctionOnSet(Worth, Of(answers, u))
        BY ONLY <3>1, <3>3, SumAgrees
      <3>5. leaderboard'[u] = leaderboard[u]
        BY <1>1, <1>6, <2>3
      <3> QED
        BY <2>1, <3>4, <3>5
    <2> QED
      BY <2>2, <2>3
  <1> QED
    BY <1>5, <1>7 DEF ExactInv, BoardExact, Of

LEMMA StutterKeepsExact ==
  ASSUME ExactInv, UNCHANGED <<answers, awards, leaderboard>>
  PROVE  ExactInv'
  <1>1. Worth' = Worth
    BY DEF Worth, SlotOf
  <1> QED
    BY <1>1 DEF ExactInv, BoardExact

LEMMA ExactInvInit ==
  ASSUME Init
  PROVE  ExactInv
  <1>1. answers = {} /\ leaderboard = [u \in Player |-> 0]
    BY DEF Init, SharedInit, EngineInit, NoBoard
  <1>2. IsFiniteSet(answers) /\ IsFiniteSet({})
    BY <1>1, FS_EmptySet
  <1>3. ASSUME NEW u \in Player
        PROVE  leaderboard[u] = SumFunctionOnSet(Worth, Of(answers, u))
    <2>1. Of(answers, u) = {}
      BY <1>1 DEF Of
    <2>2. SumFunctionOnSet(Worth, {}) = 0
      BY <1>2, SumRecursion
    <2> QED
      BY <1>1, <2>1, <2>2
  <1> QED
    BY <1>2, <1>3 DEF ExactInv, BoardExact

LEMMA ExactInvStep ==
  ASSUME LedgerInv, ExactInv, [Next]_vars
  PROVE  ExactInv'
  <1>1. MatchInv'
    BY LedgerInvStep DEF LedgerInv
  <1>2. CASE EngineNext /\ UNCHANGED scoringVars
    <2>1. leaderboard' = leaderboard /\ awards' = awards
      BY <1>2, EngineAccepts DEF LedgerInv, MatchInv, scoringVars
    <2>2. CASE answers' = answers
      BY <2>1, <2>2, StutterKeepsExact
    <2>3. ASSUME NEW a, AcceptStep(a) PROVE ExactInv'
      BY <1>1, <2>1, <2>3, AcceptKeepsExact
    <2> QED
      BY <1>2, <2>2, <2>3, EngineAccepts DEF LedgerInv, MatchInv
  <1>3. CASE ScoringNext /\ UNCHANGED engineVars
    <2>1. answers' = answers
      BY <1>3 DEF engineVars, redisVars
    <2> QED
      BY <1>1, <1>3, <2>1, ScoringPays, PayKeepsExact, StutterKeepsExact DEF LedgerInv, MatchInv
  <1>4. CASE UNCHANGED vars
    BY <1>4, StutterKeepsExact DEF vars, sharedVars, engineVars, redisVars, scoringVars
  <1> QED
    BY <1>2, <1>3, <1>4 DEF Next

(* Sums over a part of a set, of terms that are no larger, are no larger.   *)
LEMMA SumGrows ==
  ASSUME NEW S, IsFiniteSet(S), NEW T \in SUBSET S, NEW v, NEW w,
         \A x \in S : w[x] \in Nat, \A x \in T : v[x] \in Nat /\ v[x] <= w[x]
  PROVE  SumFunctionOnSet(v, T) <= SumFunctionOnSet(w, S)
  <1> DEFINE Good(s) == SumFunctionOnSet(v, T \cap s) <= SumFunctionOnSet(w, s)
             Bad == {s \in SUBSET S : ~Good(s)}
  <1>1. Bad \in SUBSET FiniteSubsetsOf(S)
    BY FS_Subset DEF FiniteSubsetsOf
  <1>2. ASSUME Bad # {} PROVE FALSE
    <2>1. PICK s \in Bad : \A y \in Bad : ~(y \subseteq s /\ s # y)
      <3> HIDE DEF Bad
      <3> QED
        BY ONLY <1>1, <1>2, LeastSubset
    <2>2. s \in SUBSET S /\ IsFiniteSet(s) /\ ~Good(s)
      BY FS_Subset
    <2>3. IsFiniteSet(T \cap s) /\ \A x \in T \cap s : v[x] \in Nat
      BY <2>2, FS_Subset
    <2>4. s # {}
      <3>1. s = {} => T \cap s = {} /\ IsFiniteSet(s)
        BY <2>2
      <3>2. IsFiniteSet({})
        BY FS_EmptySet
      <3>3. SumFunctionOnSet(v, {}) = 0 /\ SumFunctionOnSet(w, {}) = 0
        BY <3>2, SumRecursion
      <3> QED
        BY <2>2, <3>1, <3>3
    <2>5. PICK x \in s : TRUE
      BY <2>4
    <2> DEFINE r == s \ {x}
    <2>6. r \in SUBSET S /\ IsFiniteSet(r) /\ Good(r)
      BY <2>1, <2>2, <2>5, FS_Subset
    <2>7. /\ SumFunctionOnSet(w, s) = w[x] + SumFunctionOnSet(w, r)
          /\ SumFunctionOnSet(w, r) \in Nat /\ w[x] \in Nat
      <3>1. \A y \in s : w[y] \in Nat
        BY <2>2
      <3>2. \A y \in r : w[y] \in Nat
        BY <3>1
      <3>3. SumFunctionOnSet(w, r) \in Nat
        <4> HIDE DEF r
        <4> QED
          BY <2>6, <3>2, SumOfNumbers
      <3> QED
        BY <2>2, <2>5, <3>1, <3>3, SumOfNumbers
    <2>8. CASE x \in T
      <3>1. T \cap r = (T \cap s) \ {x} /\ x \in T \cap s
        BY <2>5, <2>8
      <3>2. SumFunctionOnSet(v, T \cap s) = v[x] + SumFunctionOnSet(v, T \cap r)
        BY <2>3, <3>1, SumOfNumbers
      <3>3. SumFunctionOnSet(v, T \cap r) \in Nat
        <4>1. IsFiniteSet(T \cap r) /\ \A y \in T \cap r : v[y] \in Nat
          BY <2>6, FS_Subset
        <4> HIDE DEF r
        <4> QED
          BY <4>1, SumOfNumbers
      <3>4. v[x] \in Nat /\ v[x] <= w[x]
        BY <2>8
      <3> QED
        BY <2>2, <2>6, <2>7, <3>2, <3>3, <3>4
    <2>9. CASE x \notin T
      <3>1. T \cap r = T \cap s
        BY <2>9
      <3>2. SumFunctionOnSet(v, T \cap s) \in Nat
        BY <2>3, SumOfNumbers
      <3> QED
        BY <2>2, <2>6, <2>7, <3>1, <3>2
    <2> QED
      BY <2>8, <2>9
  <1>3. S \in SUBSET S /\ T \cap S = T
    OBVIOUS
  <1> QED
    BY <1>2, <1>3

LEMMA BoardIsBounded ==
  ASSUME LedgerInv, ExactInv
  PROVE  LeaderboardAddsUp
  <1> SUFFICES ASSUME NEW u \in Player
               PROVE  /\ leaderboard[u] <= SumFunctionOnSet(PointsSent, AnswersOf(u))
                      /\ faults = 0 =>
                           SumFunctionOnSet(FullPoints,
                                            {a \in AnswersOf(u) : ~Held(a) /\ ~Queued(a)})
                             <= leaderboard[u]
    BY DEF LeaderboardAddsUp
  <1> DEFINE S == AnswersOf(u)
             T == {a \in S : ~Held(a) /\ ~Queued(a)}
  <1>1. leaderboard[u] = SumFunctionOnSet(Worth, S)
    BY DEF ExactInv, BoardExact, Of, AnswersOf
  <1>2. IsFiniteSet(S) /\ S \in SUBSET answers
    BY FS_Subset DEF ExactInv, AnswersOf
  <1>3. /\ \A b \in answers : SlotOf(b) \in Slot /\ b.pts \in Nat
        /\ awards \in [Slot -> Nat] /\ resent \in [Slot -> Nat]
    BY SlotFacts
    DEF LedgerInv, MatchInv, EngineInv, EngineTypeOK, RedisTypeOK, ScoringTypeOK
  <1>4. \A b \in answers : Worth[b] \in Nat /\ PointsSent[b] \in Nat /\ Worth[b] <= PointsSent[b]
    <2> SUFFICES ASSUME NEW b \in answers
                 PROVE  Worth[b] \in Nat /\ PointsSent[b] \in Nat /\ Worth[b] <= PointsSent[b]
      OBVIOUS
    <2>1. PICK m \in Nat, n \in Nat, k \in Nat : m = b.pts /\ n = awards[SlotOf(b)] /\ k = resent[SlotOf(b)]
      BY <1>3
    <2>2. n <= 1 + k /\ 1 + k \in Nat
      BY <1>3, <2>1 DEF LedgerInv, MatchInv, AwardedOncePerSend
    <2>3. m * n \in Nat /\ m * (1 + k) \in Nat /\ m * n <= m * (1 + k)
      BY <2>2, Products
    <2> QED
      BY <2>1, <2>3 DEF Worth, PointsSent
  <1> HIDE DEF S
  <1>5. leaderboard[u] <= SumFunctionOnSet(PointsSent, S)
    BY <1>1, <1>2, <1>4, SumGrows
  <1>6. ASSUME faults = 0 PROVE SumFunctionOnSet(FullPoints, T) <= leaderboard[u]
    <2>1. T \in SUBSET S
      OBVIOUS
    <2>2. \A b \in T : awards[SlotOf(b)] = 1 /\ b \in answers
      BY <1>2, <1>6 DEF LedgerInv, NoAnswerLost
    <2>3. \A b \in T : FullPoints[b] = Worth[b]
      BY <2>2, WorthNow DEF FullPoints, LedgerInv
    <2> HIDE DEF T
    <2>4. /\ \A b \in S : Worth[b] \in Nat
          /\ \A b \in T : FullPoints[b] \in Nat /\ FullPoints[b] <= Worth[b]
      BY <1>2, <1>4, <2>1, <2>2, <2>3
    <2> QED
      BY <1>1, <1>2, <2>1, <2>4, SumGrows
  <1> QED
    BY <1>5, <1>6 DEF S

(* At every moment, through any number of crashes, redeliveries, resends    *)
(* and failing stores, a player has at most the points of his accepted      *)
(* answers, each as often as its script was sent; and as long as nothing    *)
(* has failed, at least those of the answers that are on no call and no     *)
(* queue any more (server.go:114-142, answer_worker.go:51-69).              *)
THEOREM ScoresAddUp == Spec => []LeaderboardAddsUp
  <1>1. Init => ExactInv
    BY ExactInvInit
  <1>2. LedgerInv /\ ExactInv /\ [Next]_vars => ExactInv'
    BY ExactInvStep
  <1>3. LedgerInv /\ ExactInv => LeaderboardAddsUp
    BY BoardIsBounded
  <1> QED
    BY <1>1, <1>2, <1>3, LedgerInvariance, PTL DEF Spec
=============================================================================
