-------------------------- MODULE QuizEngineProofs --------------------------
(***************************************************************************)
(* Proofs about the quiz engine, for every set of players, number of rounds,*)
(* number of concurrent calls and number of faults.                         *)
(***************************************************************************)
EXTENDS QuizEngine, SequenceTheorems, TLAPS

-----------------------------------------------------------------------------
(* The inductive invariant.                                                *)

(* A handler works on a message that is still on its queue, and the handler *)
(* of match.created runs once for every delivery: the first one, and one    *)
(* more for every crash.                                                    *)
HandlersInv ==
  /\ rcPc # "idle" => completedQ # <<>>
  /\ mc.pc # "idle" => createdQ /\ selections > 0
  /\ mc.pc = "arm" => Started(1)
  /\ selections <= faults + (IF createdQ /\ mc.pc = "idle" THEN 0 ELSE 1)

(* Whatever is under way for a round belongs to a round that was opened; a  *)
(* goroutine that sleeps before a round has seen its predecessor opened and *)
(* its question on the list.                                                *)
RoundsInv ==
  /\ timer # 0 => Started(timer)
  /\ \A i \in 1..Len(completedQ) : Started(completedQ[i])
  /\ \A r \in Rounds :
       /\ fired[r] > 0 => Started(r)
       /\ arming[r] > 0 => Started(r)
       /\ sleeping[r] > 0 => r > 1 /\ Started(r - 1) /\ r <= Len(questions)
  /\ \A c \in Call : call[c] # NoCall => Started(call[c].ans.round)

(* The rounds that were opened are the first ones. *)
PrefixInv == \A r, s \in Rounds : s <= r /\ Started(r) => Started(s)

EndInv == ended => Started(TotalRounds)

EngineInv ==
  /\ EngineTypeOK
  /\ HandlersInv
  /\ RoundsInv
  /\ PrefixInv
  /\ EndInv

-----------------------------------------------------------------------------
LEMMA QuestionFacts ==
  /\ NoQuestion \notin Question
  /\ \A n, i : n \in 1..(MaxFaults + 1) /\ i \in Rounds => <<n, i>> \in Question
  BY RoomAssumption DEF Question, NoQuestion, Rounds

LEMMA CallFacts ==
  /\ NoCall \notin InFlight
  /\ NoCall.pc = "idle"
  /\ \A x \in InFlight : x.pc # "idle" /\ x.ans \in Answer
  BY DEF NoCall, InFlight

LEMMA SelectionFacts ==
  /\ NoSelection \in Selection
  /\ \A x \in Selection :
       /\ [x EXCEPT !.pc = "arm"] \in Selection
       /\ x.size \in 0..TotalRounds
       /\ x.pushed \in 0..TotalRounds
       /\ x.pushed < x.size => [x EXCEPT !.pushed = @ + 1] \in Selection
  BY RoomAssumption DEF Selection, NoSelection

LEMMA FaultType ==
  ASSUME SharedTypeOK, Fault
  PROVE  faults' \in 0..MaxFaults
  BY RoomAssumption DEF SharedTypeOK, Fault

(* A publish keeps the type of its queue and of the count of faults. *)
LEMMA PublishedType ==
  ASSUME NEW S, NEW q \in Seq(S), NEW newq, NEW m \in S, SharedTypeOK, Published(q, newq, m)
  PROVE  newq \in Seq(S) /\ faults' \in 0..MaxFaults
  <1>1. CASE newq = Append(q, m) /\ UNCHANGED faults
    BY <1>1 DEF SharedTypeOK
  <1>2. CASE newq = q /\ Fault
    BY <1>2, FaultType
  <1> QED
    BY <1>1, <1>2 DEF Published

(* What an action leaves alone keeps its type. *)
LEMMA Untouched ==
  ASSUME EngineTypeOK
  PROVE  /\ UNCHANGED sharedVars => SharedTypeOK'
         /\ UNCHANGED redisVars => RedisTypeOK'
         /\ UNCHANGED clientVars => ClientTypeOK'
         /\ UNCHANGED timerVars => TimerTypeOK'
         /\ UNCHANGED mcVars => MatchCreatedTypeOK'
         /\ UNCHANGED <<completedQ, rcPc>> => RoundCompletedTypeOK'
         /\ UNCHANGED call => CallTypeOK'
  <1>1. UNCHANGED sharedVars => SharedTypeOK'
    BY DEF EngineTypeOK, SharedTypeOK, sharedVars
  <1>2. UNCHANGED redisVars => RedisTypeOK'
    BY DEF EngineTypeOK, RedisTypeOK, redisVars
  <1>3. UNCHANGED clientVars => ClientTypeOK'
    BY DEF EngineTypeOK, ClientTypeOK, clientVars
  <1>4. UNCHANGED timerVars => TimerTypeOK'
    BY DEF EngineTypeOK, TimerTypeOK, timerVars
  <1>5. UNCHANGED mcVars => MatchCreatedTypeOK'
    BY DEF EngineTypeOK, MatchCreatedTypeOK, mcVars
  <1>6. UNCHANGED <<completedQ, rcPc>> => RoundCompletedTypeOK'
    BY DEF EngineTypeOK, RoundCompletedTypeOK
  <1>7. UNCHANGED call => CallTypeOK'
    BY DEF EngineTypeOK, CallTypeOK
  <1> QED
    BY <1>1, <1>2, <1>3, <1>4, <1>5, <1>6, <1>7

(* Every action preserves the types. *)
LEMMA EngineTypeStep ==
  ASSUME EngineInv, EngineNext
  PROVE  EngineTypeOK'
  <1> USE DEF EngineInv, EngineTypeOK, sharedVars, redisVars, clientVars, timerVars, mcVars
  <1>1. CASE SelectQuestions
    <2>1. MatchCreatedTypeOK'
      BY <1>1, RoomAssumption, EngineAssumption DEF SelectQuestions, MatchCreatedTypeOK, Selection, HandlersInv, SharedTypeOK
    <2> QED
      BY <1>1, <2>1, Untouched DEF SelectQuestions
  <1>2. CASE PushQuestion
    <2>1. SharedTypeOK'
      BY <1>2, RoomAssumption DEF PushQuestion, SharedTypeOK, Published, Fault, Rounds
    <2>2. RedisTypeOK'
      <3>1. mc.size \in 0..TotalRounds /\ mc.pushed \in 0..TotalRounds
        BY SelectionFacts DEF MatchCreatedTypeOK
      <3>2. selections \in 1..(MaxFaults + 1) /\ mc.pushed + 1 \in Rounds
        BY <1>2, <3>1, RoomAssumption DEF PushQuestion, HandlersInv, MatchCreatedTypeOK, Rounds
      <3>3. <<selections, mc.pushed + 1>> \in Question
        BY <3>2, QuestionFacts
      <3> QED
        BY <1>2, <3>3, PublishedType DEF PushQuestion, RedisTypeOK
    <2>3. MatchCreatedTypeOK'
      BY <1>2, SelectionFacts DEF PushQuestion, MatchCreatedTypeOK
    <2> QED
      BY <1>2, <2>1, <2>2, <2>3, Untouched DEF PushQuestion
  <1>26. CASE PushResent
    <2>1. SharedTypeOK'
      BY <1>26, RoomAssumption DEF PushResent, SharedTypeOK, Fault, Rounds
    <2>2. RedisTypeOK'
      <3>1. mc.size \in 0..TotalRounds /\ mc.pushed \in 0..TotalRounds
        BY SelectionFacts DEF MatchCreatedTypeOK
      <3>2. selections \in 1..(MaxFaults + 1) /\ mc.pushed + 1 \in Rounds
        BY <1>26, <3>1, RoomAssumption DEF PushResent, HandlersInv, MatchCreatedTypeOK, Rounds
      <3>3. <<selections, mc.pushed + 1>> \in Question
        BY <3>2, QuestionFacts
      <3>4. questions' \in Seq(Question)
        BY <1>26, <3>3 DEF PushResent, RedisTypeOK
      <3> QED
        BY <1>26, <3>4 DEF PushResent, RedisTypeOK
    <2> QED
      BY <1>26, <2>1, <2>2, Untouched DEF PushResent
  <1>3. CASE BeginMatch
    <2>1. SharedTypeOK'
      BY <1>3, RoomAssumption DEF BeginMatch, SharedTypeOK, OpenRound, Fault, Rounds
    <2>2. RedisTypeOK'
      BY <1>3, RoomAssumption DEF BeginMatch, RedisTypeOK, OpenRound, Rounds
    <2>3. ClientTypeOK'
      <3>1. 1 \in Rounds /\ selections \in 1..(MaxFaults + 1)
        BY <1>3, RoomAssumption DEF BeginMatch, HandlersInv, MatchCreatedTypeOK, Rounds
      <3>2. <<selections, 1>> \in Question
        BY <3>1, QuestionFacts
      <3> QED
        BY <1>3, <3>1, <3>2 DEF BeginMatch, ClientTypeOK, OpenRound
    <2>4. MatchCreatedTypeOK'
      BY <1>3, SelectionFacts DEF BeginMatch, MatchCreatedTypeOK
    <2> QED
      BY <1>3, <2>1, <2>2, <2>3, <2>4, Untouched DEF BeginMatch
  <1>4. CASE ArmFirstRound
    <2>1. TimerTypeOK'
      BY <1>4, RoomAssumption DEF ArmFirstRound, TimerTypeOK, ArmTimer, Rounds
    <2>2. MatchCreatedTypeOK'
      BY <1>4, SelectionFacts DEF ArmFirstRound, MatchCreatedTypeOK
    <2> QED
      BY <1>4, <2>1, <2>2, Untouched DEF ArmFirstRound
  <1>5. CASE RevealRound
    <2>1. SharedTypeOK'
      BY <1>5, RoomAssumption DEF RevealRound, SharedTypeOK, Fault, Rounds
    <2>2. ClientTypeOK'
      BY <1>5, RoomAssumption DEF RevealRound, ClientTypeOK, Rounds, RoundCompletedTypeOK, RedisTypeOK
    <2>3. RoundCompletedTypeOK'
      BY <1>5, RoomAssumption DEF RevealRound, RoundCompletedTypeOK, Rounds
    <2> QED
      BY <1>5, <2>1, <2>2, <2>3, Untouched DEF RevealRound
  <1>6. CASE ScheduleNext
    <2>1. TimerTypeOK'
      <3>1. Head(completedQ) \in Rounds
        BY <1>6 DEF ScheduleNext, RoundCompletedTypeOK, HandlersInv
      <3>2. Head(completedQ) + 1 \in Rounds
        BY <1>6, <3>1, RoomAssumption DEF ScheduleNext, Rounds
      <3> QED
        BY <1>6, <3>2 DEF ScheduleNext, TimerTypeOK
    <2>2. RoundCompletedTypeOK'
      BY <1>6, RoomAssumption DEF ScheduleNext, RoundCompletedTypeOK, HandlersInv, Rounds
    <2> QED
      BY <1>6, <2>1, <2>2, Untouched DEF ScheduleNext
  <1>7. CASE NoNextQuestion
    <2>1. RoundCompletedTypeOK'
      BY <1>7, RoomAssumption DEF NoNextQuestion, RoundCompletedTypeOK, HandlersInv, Rounds
    <2> QED
      BY <1>7, <2>1, Untouched DEF NoNextQuestion
  <1>8. CASE EndMatch
    <2>1. SharedTypeOK'
      BY <1>8, RoomAssumption DEF EndMatch, SharedTypeOK, Fault, Rounds
    <2>2. ClientTypeOK'
      BY <1>8, RoomAssumption DEF EndMatch, ClientTypeOK, SharedTypeOK, Rounds
    <2>3. RoundCompletedTypeOK'
      BY <1>8, RoomAssumption DEF EndMatch, RoundCompletedTypeOK, Rounds
    <2> QED
      BY <1>8, <2>1, <2>2, <2>3, Untouched DEF EndMatch
  <1>9. CASE FinishMatch
    <2>1. SharedTypeOK'
      BY <1>9, PublishedType DEF FinishMatch, SharedTypeOK
    <2>2. RoundCompletedTypeOK'
      BY <1>9, RoomAssumption DEF FinishMatch, RoundCompletedTypeOK, Rounds
    <2> QED
      BY <1>9, <2>1, <2>2, Untouched DEF FinishMatch
  <1>10. CASE AckCompleted
    <2>1. RoundCompletedTypeOK'
      BY <1>10, RoomAssumption DEF AckCompleted, RoundCompletedTypeOK, HandlersInv, Rounds
    <2> QED
      BY <1>10, <2>1, Untouched DEF AckCompleted
  <1>11. CASE FireTimer
    <2>1. TimerTypeOK'
      BY SMTT(30), <1>11, RoomAssumption DEF FireTimer, TimerTypeOK, Rounds
    <2> QED
      BY <1>11, <2>1, Untouched DEF FireTimer
  <1>12. ASSUME NEW r \in Rounds, PublishTimeout(r) PROVE EngineTypeOK'
    <2>1. SharedTypeOK'
      BY <1>12, RoomAssumption DEF PublishTimeout, SharedTypeOK, Published, Fault, Rounds
    <2>2. TimerTypeOK'
      BY <1>12 DEF PublishTimeout, TimerTypeOK
    <2>3. RoundCompletedTypeOK'
      BY <1>12, PublishedType DEF PublishTimeout, RoundCompletedTypeOK
    <2> QED
      BY <1>12, <2>1, <2>2, <2>3, Untouched DEF PublishTimeout
  <1>13. ASSUME NEW r \in Rounds, WakeUp(r) PROVE EngineTypeOK'
    <2>1. SharedTypeOK'
      BY <1>13, RoomAssumption DEF WakeUp, SharedTypeOK, OpenRound, Fault, Rounds
    <2>2. RedisTypeOK'
      BY <1>13, RoomAssumption DEF WakeUp, RedisTypeOK, OpenRound, Rounds
    <2>3. ClientTypeOK'
      BY <1>13, RoomAssumption DEF WakeUp, ClientTypeOK, OpenRound, RoundsInv, RedisTypeOK, Rounds
    <2>4. TimerTypeOK'
      BY <1>13 DEF WakeUp, TimerTypeOK
    <2> QED
      BY <1>13, <2>1, <2>2, <2>3, <2>4, Untouched DEF WakeUp
  <1>14. ASSUME NEW r \in Rounds, ArmRound(r) PROVE EngineTypeOK'
    <2>1. TimerTypeOK'
      BY SMTT(30), <1>14, RoomAssumption DEF ArmRound, TimerTypeOK, ArmTimer, Rounds
    <2> QED
      BY <1>14, <2>1, Untouched DEF ArmRound
  <1>15. ASSUME NEW c \in Call, NEW a \in Answer, ValidateAnswer(c, a) PROVE EngineTypeOK'
    <2>1. CallTypeOK'
      BY <1>15, CallFacts DEF ValidateAnswer, CallTypeOK, InFlight
    <2> QED
      BY <1>15, <2>1, Untouched DEF ValidateAnswer
  <1>16. ASSUME NEW c \in Call, StoreAnswer(c) PROVE EngineTypeOK'
    <2>1. RedisTypeOK'
      BY <1>16, CallFacts DEF StoreAnswer, RedisTypeOK, WithAnswer, CallTypeOK
    <2>2. CallTypeOK'
      BY <1>16, CallFacts DEF StoreAnswer, CallTypeOK, InFlight
    <2> QED
      BY <1>16, <2>1, <2>2, Untouched DEF StoreAnswer
  <1>17. ASSUME NEW c \in Call, PublishAnswer(c) PROVE EngineTypeOK'
    <2>1. SharedTypeOK'
      BY <1>17, CallFacts, PublishedType DEF PublishAnswer, SharedTypeOK, CallTypeOK
    <2>2. CallTypeOK'
      BY <1>17, CallFacts DEF PublishAnswer, CallTypeOK, InFlight
    <2> QED
      BY <1>17, <2>1, <2>2, Untouched DEF PublishAnswer
  <1>18. ASSUME NEW c \in Call, CheckAllAnswered(c) PROVE EngineTypeOK'
    <2>1. CallTypeOK'
      BY <1>18, CallFacts DEF CheckAllAnswered, CallTypeOK, InFlight
    <2> QED
      BY <1>18, <2>1, Untouched DEF CheckAllAnswered
  <1>19. ASSUME NEW c \in Call, StopTimer(c) PROVE EngineTypeOK'
    <2>1. TimerTypeOK'
      BY <1>19, RoomAssumption DEF StopTimer, TimerTypeOK
    <2>2. CallTypeOK'
      BY <1>19, CallFacts DEF StopTimer, CallTypeOK, InFlight
    <2> QED
      BY <1>19, <2>1, <2>2, Untouched DEF StopTimer
  <1>20. ASSUME NEW c \in Call, PublishCompleted(c) PROVE EngineTypeOK'
    <2>1. SharedTypeOK'
      BY <1>20, RoomAssumption DEF PublishCompleted, SharedTypeOK, Published, Fault, Rounds
    <2>2. RoundCompletedTypeOK'
      BY <1>20, CallFacts DEF PublishCompleted, RoundCompletedTypeOK, Published, Answer, CallTypeOK
    <2>3. CallTypeOK'
      BY <1>20, CallFacts DEF PublishCompleted, CallTypeOK, InFlight
    <2> QED
      BY <1>20, <2>1, <2>2, <2>3, Untouched DEF PublishCompleted
  <1>21. ASSUME NEW c \in Call, StoreFails(c) PROVE EngineTypeOK'
    <2>1. SharedTypeOK'
      BY <1>21, RoomAssumption DEF StoreFails, SharedTypeOK, Fault, Rounds
    <2>2. RedisTypeOK'
      BY <1>21, CallFacts DEF StoreFails, RedisTypeOK, WithAnswer, CallTypeOK
    <2>3. CallTypeOK'
      BY <1>21, CallFacts DEF StoreFails, CallTypeOK
    <2> QED
      BY <1>21, <2>1, <2>2, <2>3, Untouched DEF StoreFails
  <1>22. ASSUME NEW c \in Call, CheckFails(c) PROVE EngineTypeOK'
    <2>1. SharedTypeOK'
      BY <1>22, RoomAssumption DEF CheckFails, SharedTypeOK, Fault, Rounds
    <2>2. CallTypeOK'
      BY <1>22, CallFacts DEF CheckFails, CallTypeOK
    <2> QED
      BY <1>22, <2>1, <2>2, Untouched DEF CheckFails
  <1>23. CASE SelectFails
    <2>1. SharedTypeOK'
      BY <1>23, RoomAssumption DEF SelectFails, SharedTypeOK, Fault, Rounds
    <2>2. MatchCreatedTypeOK'
      BY <1>23, RoomAssumption DEF SelectFails, MatchCreatedTypeOK, Rounds
    <2> QED
      BY <1>23, <2>1, <2>2, Untouched DEF SelectFails
  <1>24. CASE NextQuestionFails
    <2>1. SharedTypeOK'
      BY <1>24, RoomAssumption DEF NextQuestionFails, SharedTypeOK, Fault, Rounds
    <2>2. RoundCompletedTypeOK'
      BY <1>24, RoomAssumption DEF NextQuestionFails, RoundCompletedTypeOK, HandlersInv, Rounds
    <2> QED
      BY <1>24, <2>1, <2>2, Untouched DEF NextQuestionFails
  <1>25. CASE EngineCrash
    <2>1. SharedTypeOK'
      BY <1>25, RoomAssumption DEF EngineCrash, SharedTypeOK, Fault, Rounds
    <2>2. TimerTypeOK'
      BY <1>25, RoomAssumption DEF EngineCrash, TimerTypeOK
    <2>3. MatchCreatedTypeOK'
      BY <1>25, SelectionFacts DEF EngineCrash, MatchCreatedTypeOK
    <2>4. RoundCompletedTypeOK'
      BY <1>25, RoomAssumption DEF EngineCrash, RoundCompletedTypeOK, Rounds
    <2>5. CallTypeOK'
      BY <1>25, CallFacts DEF EngineCrash, CallTypeOK
    <2> QED
      BY <1>25, <2>1, <2>2, <2>3, <2>4, <2>5, Untouched DEF EngineCrash
  <1> QED
    BY <1>1, <1>2, <1>3, <1>4, <1>5, <1>6, <1>7, <1>8, <1>9, <1>10, <1>11, <1>12,
       <1>13, <1>14, <1>15, <1>16, <1>17, <1>18, <1>19, <1>20, <1>21, <1>22, <1>23, <1>24,
       <1>25, <1>26
    DEF EngineNext, MatchCreatedStep, RoundCompletedStep, TimerStep, CallStep, EngineFaultStep

-----------------------------------------------------------------------------
(* The actions that open no round, that is, all but BeginMatch and WakeUp. *)
LEMMA AskedUnchanged ==
  ASSUME EngineNext, ~BeginMatch, ~ \E r \in Rounds : WakeUp(r)
  PROVE  asked' = asked
  <1> USE DEF clientVars
  <1>1. MatchCreatedStep => asked' = asked
    BY DEF MatchCreatedStep, SelectQuestions, PushQuestion, ArmFirstRound
  <1>2. RoundCompletedStep => asked' = asked
    BY DEF RoundCompletedStep, RevealRound, ScheduleNext, NoNextQuestion, EndMatch, FinishMatch,
       AckCompleted
  <1>3. TimerStep => asked' = asked
    BY DEF TimerStep, FireTimer, PublishTimeout, ArmRound
  <1>4. ASSUME NEW c \in Call, CallStep(c) \/ \E a \in Answer : ValidateAnswer(c, a)
        PROVE  asked' = asked
    BY <1>4 DEF CallStep, StoreAnswer, PublishAnswer, CheckAllAnswered, StopTimer,
       PublishCompleted, ValidateAnswer
  <1>5. EngineFaultStep => asked' = asked
    BY DEF EngineFaultStep, SelectFails, PushResent, NextQuestionFails, StoreFails, CheckFails, EngineCrash
  <1> QED
    BY <1>1, <1>2, <1>3, <1>4, <1>5 DEF EngineNext

(* BeginMatch opens round 1 or no round, ... *)
LEMMA BeginMatchOpens ==
  ASSUME EngineInv, BeginMatch
  PROVE  /\ mc.size > 0 => Started(1)'
         /\ \A r \in Rounds : r # 1 \/ mc.size = 0 => (Started(r)' <=> Started(r))
  <1>1. 1 \in Rounds /\ selections \in 1..(MaxFaults + 1) /\ mc.size \in 0..TotalRounds
    <2>1. mc \in Selection /\ selections \in 0..(MaxFaults + 1) /\ mc.pc # "idle"
      BY DEF BeginMatch, EngineInv, EngineTypeOK, MatchCreatedTypeOK
    <2>2. selections > 0
      BY <2>1 DEF EngineInv, HandlersInv
    <2>3. mc.size \in 0..TotalRounds
      BY <2>1, SelectionFacts
    <2> QED
      BY <2>1, <2>2, <2>3, RoomAssumption DEF Rounds
  <1>2. <<selections, 1>> # NoQuestion
    BY <1>1, QuestionFacts
  <1>3. asked \in [Rounds -> Question \cup {NoQuestion}]
    BY DEF EngineInv, EngineTypeOK, ClientTypeOK
  <1>4. CASE mc.size > 0
    <2>1. asked' = [asked EXCEPT ![1] = <<selections, 1>>]
      BY <1>4 DEF BeginMatch, OpenRound
    <2> QED
      BY <1>1, <1>2, <1>3, <1>4, <2>1 DEF Started
  <1>5. CASE ~(mc.size > 0)
    BY <1>1, <1>5 DEF BeginMatch, Started
  <1> QED
    BY <1>4, <1>5

(* ... and WakeUp opens the round the goroutine was sleeping for. *)
LEMMA WakeUpOpens ==
  ASSUME EngineInv, NEW r \in Rounds, WakeUp(r)
  PROVE  /\ Started(r)'
         /\ \A s \in Rounds : s # r => (Started(s)' <=> Started(s))
  <1>1. asked \in [Rounds -> Question \cup {NoQuestion}] /\ questions \in Seq(Question)
    BY DEF EngineInv, EngineTypeOK, ClientTypeOK, RedisTypeOK
  <1>2. r \in 1..Len(questions)
    BY <1>1, RoomAssumption DEF EngineInv, RoundsInv, WakeUp, Rounds
  <1>3. questions[r] # NoQuestion
    BY <1>1, <1>2, QuestionFacts
  <1>4. asked' = [asked EXCEPT ![r] = questions[r]]
    BY DEF WakeUp, OpenRound
  <1> QED
    BY <1>1, <1>3, <1>4 DEF Started

(* A round that was opened stays opened. *)
LEMMA StaysStarted ==
  ASSUME EngineInv, EngineNext, NEW r \in Rounds, Started(r)
  PROVE  Started(r)'
  <1>1. CASE BeginMatch
    <2>1. mc.size \in 0..TotalRounds
      BY SelectionFacts DEF EngineInv, EngineTypeOK, MatchCreatedTypeOK
    <2>2. mc.size = 0 \/ mc.size > 0
      BY <2>1, RoomAssumption
    <2> QED
      BY <1>1, <2>2, BeginMatchOpens
  <1>2. ASSUME NEW s \in Rounds, WakeUp(s) PROVE Started(r)'
    BY <1>2, WakeUpOpens
  <1>3. CASE asked' = asked
    BY <1>3 DEF Started
  <1> QED
    BY <1>1, <1>2, <1>3, AskedUnchanged

-----------------------------------------------------------------------------
(* The opened rounds remain the first ones. *)
LEMMA PrefixStep ==
  ASSUME EngineInv, EngineNext
  PROVE  PrefixInv'
  <1>1. CASE BeginMatch
    <2>1. \A r \in Rounds : r # 1 => (Started(r)' <=> Started(r))
      BY <1>1, BeginMatchOpens
    <2>2. \A r \in Rounds : Started(r) => Started(r)'
      BY StaysStarted
    <2>3. ASSUME NEW r \in Rounds, NEW s \in Rounds, s <= r, Started(r)' PROVE Started(s)'
      <3>1. CASE r = 1
        <4>1. s = r
          BY <2>3, <3>1, RoomAssumption DEF Rounds
        <4> QED
          BY <2>3, <4>1
      <3>2. CASE r # 1
        BY <3>2, <2>1, <2>2, <2>3 DEF EngineInv, PrefixInv
      <3> QED
        BY <3>1, <3>2
    <2> QED
      BY <2>3 DEF PrefixInv
  <1>2. ASSUME NEW r \in Rounds, WakeUp(r) PROVE PrefixInv'
    <2>1. Started(r - 1) /\ r - 1 \in Rounds
      BY <1>2, RoomAssumption DEF EngineInv, RoundsInv, WakeUp, Rounds
    <2>2. \A s \in Rounds : s < r => Started(s)
      BY <2>1, RoomAssumption DEF EngineInv, PrefixInv, Rounds
    <2>3. \A t \in Rounds : Started(t)' => t = r \/ Started(t)
      BY <1>2, WakeUpOpens
    <2>4. ASSUME NEW t \in Rounds, NEW s \in Rounds, s <= t, Started(t)' PROVE Started(s)'
      <3>1. CASE t = r
        <4>1. s < r \/ s = r
          BY <2>4, <3>1, RoomAssumption DEF Rounds
        <4> QED
          BY <4>1, <2>2, <1>2, WakeUpOpens, StaysStarted
      <3>2. CASE Started(t)
        BY <3>2, <2>4, StaysStarted DEF EngineInv, PrefixInv
      <3> QED
        BY <2>3, <2>4, <3>1, <3>2
    <2> QED
      BY <2>4 DEF PrefixInv
  <1>3. CASE asked' = asked
    BY <1>3 DEF EngineInv, PrefixInv, Started
  <1> QED
    BY <1>1, <1>2, <1>3, AskedUnchanged

(* MatchEnd is broadcast by the handler of a completed last round, which    *)
(* was opened.                                                              *)
LEMMA EndStep ==
  ASSUME EngineInv, EngineNext
  PROVE  EndInv'
  <1>1. TotalRounds \in Rounds
    BY RoomAssumption DEF Rounds
  <1>2. CASE ended' = ended
    BY <1>1, <1>2, StaysStarted DEF EngineInv, EndInv
  <1>3. CASE EndMatch
    <2>1. completedQ # <<>> /\ completedQ \in Seq(Rounds)
      BY <1>3 DEF EndMatch, EngineInv, HandlersInv, EngineTypeOK, RoundCompletedTypeOK
    <2>2. Head(completedQ) = TotalRounds /\ Head(completedQ) = completedQ[1] /\ 1 \in 1..Len(completedQ)
      BY <1>3, <2>1, RoomAssumption DEF EndMatch, Rounds
    <2>3. Started(TotalRounds)
      BY <2>2 DEF EngineInv, RoundsInv
    <2> QED
      BY <1>1, <2>3, StaysStarted DEF EndInv
  <1>4. CASE ~EndMatch
    <2> USE DEF clientVars
    <2>1. MatchCreatedStep => ended' = ended
      BY DEF MatchCreatedStep, SelectQuestions, PushQuestion, BeginMatch, ArmFirstRound
    <2>2. RoundCompletedStep => ended' = ended
      BY <1>4 DEF RoundCompletedStep, RevealRound, ScheduleNext, NoNextQuestion, FinishMatch,
         AckCompleted
    <2>3. TimerStep => ended' = ended
      BY DEF TimerStep, FireTimer, PublishTimeout, WakeUp, ArmRound
    <2>4. ASSUME NEW c \in Call, CallStep(c) \/ \E a \in Answer : ValidateAnswer(c, a)
          PROVE  ended' = ended
      BY <2>4 DEF CallStep, StoreAnswer, PublishAnswer, CheckAllAnswered, StopTimer,
         PublishCompleted, ValidateAnswer
    <2>5. EngineFaultStep => ended' = ended
      BY DEF EngineFaultStep, SelectFails, PushResent, NextQuestionFails, StoreFails, CheckFails, EngineCrash
    <2> QED
      BY <1>2, <2>1, <2>2, <2>3, <2>4, <2>5 DEF EngineNext
  <1> QED
    BY <1>3, <1>4

-----------------------------------------------------------------------------
(* The actions that leave the handler of match.created alone. *)
LEMMA McUnchanged ==
  ASSUME EngineNext, ~MatchCreatedStep, ~SelectFails, ~EngineCrash
  PROVE  UNCHANGED mcVars /\ (faults' = faults \/ faults' = faults + 1)
  <1> USE DEF mcVars, sharedVars, Fault, Published
  <1>1. ASSUME RoundCompletedStep
        PROVE  UNCHANGED mcVars /\ (faults' = faults \/ faults' = faults + 1)
    BY <1>1 DEF RoundCompletedStep, RevealRound, ScheduleNext, NoNextQuestion, EndMatch,
       FinishMatch, AckCompleted
  <1>2. ASSUME TimerStep
        PROVE  UNCHANGED mcVars /\ (faults' = faults \/ faults' = faults + 1)
    BY <1>2 DEF TimerStep, FireTimer, PublishTimeout, WakeUp, OpenRound, ArmRound
  <1>3. ASSUME NEW c \in Call, CallStep(c) \/ \E a \in Answer : ValidateAnswer(c, a)
        PROVE  UNCHANGED mcVars /\ (faults' = faults \/ faults' = faults + 1)
    BY <1>3 DEF CallStep, StoreAnswer, PublishAnswer, CheckAllAnswered, StopTimer,
       PublishCompleted, ValidateAnswer
  <1>4. ASSUME EngineFaultStep
        PROVE  UNCHANGED mcVars /\ (faults' = faults \/ faults' = faults + 1)
    BY <1>4 DEF EngineFaultStep, PushResent, NextQuestionFails, StoreFails, CheckFails
  <1> QED
    BY <1>1, <1>2, <1>3, <1>4 DEF EngineNext

(* A delivery of match.created is handled at most once, and a new delivery  *)
(* is made only by a crash: the selections are at most one more than the    *)
(* faults.                                                                  *)
LEMMA MatchCreatedStepInv ==
  ASSUME EngineInv, EngineNext
  PROVE  /\ (mc.pc # "idle" => createdQ /\ selections > 0)'
         /\ (selections <= faults + (IF createdQ /\ mc.pc = "idle" THEN 0 ELSE 1))'
  <1>1. /\ selections \in Nat /\ faults \in Nat /\ createdQ \in BOOLEAN
        /\ mc \in Selection
    BY RoomAssumption DEF EngineInv, EngineTypeOK, MatchCreatedTypeOK, SharedTypeOK
  <1>2. /\ mc.pc # "idle" => createdQ /\ selections > 0
        /\ selections <= faults + (IF createdQ /\ mc.pc = "idle" THEN 0 ELSE 1)
    BY DEF EngineInv, HandlersInv
  <1>3. CASE SelectQuestions
    BY <1>1, <1>2, <1>3 DEF SelectQuestions, sharedVars
  <1>4. CASE PushQuestion
    <2>1. mc'.pc = "push" /\ createdQ' = createdQ /\ selections' = selections
      BY <1>1, <1>4 DEF PushQuestion, Selection
    <2>2. faults' = faults \/ faults' = faults + 1
      BY <1>4 DEF PushQuestion, Published, Fault
    <2> QED
      BY <1>1, <1>2, <1>4, <2>1, <2>2 DEF PushQuestion
  <1>5. CASE BeginMatch
    <2>1. faults' = faults \/ faults' = faults + 1
      BY <1>5 DEF BeginMatch, OpenRound, Fault
    <2>2. selections' = selections
      BY <1>5 DEF BeginMatch
    <2>3. createdQ /\ selections > 0 /\ selections <= faults + 1
      BY <1>1, <1>2, <1>5 DEF BeginMatch
    <2>4. (mc'.pc = "arm" /\ createdQ' = createdQ) \/ (mc'.pc = "idle" /\ createdQ' = FALSE)
      BY <1>1, <1>5 DEF BeginMatch, Selection, NoSelection
    <2>5. selections' <= faults' + 1 /\ selections' > 0
      BY <1>1, <2>1, <2>2, <2>3
    <2> QED
      BY <2>3, <2>4, <2>5
  <1>6. CASE ArmFirstRound
    BY <1>1, <1>2, <1>6 DEF ArmFirstRound, NoSelection, sharedVars
  <1>7. CASE SelectFails
    BY <1>1, <1>2, <1>7 DEF SelectFails, Fault
  <1>8. CASE EngineCrash
    BY <1>1, <1>2, <1>8 DEF EngineCrash, Fault, NoSelection
  <1>9. CASE UNCHANGED mcVars /\ (faults' = faults \/ faults' = faults + 1)
    <2>1. selections' = selections /\ createdQ' = createdQ /\ mc' = mc
      BY <1>9 DEF mcVars
    <2> QED
      BY <1>1, <1>2, <1>9, <2>1
  <1> QED
    BY <1>3, <1>4, <1>5, <1>6, <1>7, <1>8, <1>9, McUnchanged DEF MatchCreatedStep

(* Round 1 is open when the handler of match.created arms its timer. *)
LEMMA ArmInv ==
  ASSUME EngineInv, EngineNext, mc'.pc = "arm"
  PROVE  Started(1)'
  <1>1. 1 \in Rounds
    BY RoomAssumption DEF Rounds
  <1>2. CASE BeginMatch
    <2>1. mc.size > 0
      BY <1>2 DEF BeginMatch, NoSelection
    <2> QED
      BY <1>2, <2>1, BeginMatchOpens
  <1>3. CASE ~BeginMatch
    <2>1. mc \in Selection
      BY DEF EngineInv, EngineTypeOK, MatchCreatedTypeOK
    <2>2. mc.pc = "arm"
      <3>1. CASE MatchCreatedStep
        BY <1>3, <2>1, <3>1
        DEF MatchCreatedStep, SelectQuestions, PushQuestion, ArmFirstRound, Selection, NoSelection
      <3>2. CASE SelectFails
        BY <3>2 DEF SelectFails
      <3>3. CASE EngineCrash
        BY <3>3 DEF EngineCrash, NoSelection
      <3>4. CASE UNCHANGED mcVars
        BY <3>4 DEF mcVars
      <3> QED
        BY <3>1, <3>2, <3>3, <3>4, McUnchanged
    <2> QED
      BY <1>1, <2>2, StaysStarted DEF EngineInv, HandlersInv
  <1> QED
    BY <1>2, <1>3

(* The message a handler of round.completed works on is on the queue. *)
LEMMA RoundCompletedStepInv ==
  ASSUME EngineInv, EngineNext
  PROVE  (rcPc # "idle" => completedQ # <<>>)'
  <1> USE DEF EngineInv, HandlersInv
  <1>1. completedQ \in Seq(Rounds)
    BY DEF EngineTypeOK, RoundCompletedTypeOK
  <1>2. MatchCreatedStep => UNCHANGED <<completedQ, rcPc>>
    BY DEF MatchCreatedStep, SelectQuestions, PushQuestion, BeginMatch, ArmFirstRound
  <1>3. RoundCompletedStep => rcPc' = "idle" \/ (completedQ # <<>> /\ completedQ' = completedQ)
    BY DEF RoundCompletedStep, RevealRound, ScheduleNext, NoNextQuestion, EndMatch, FinishMatch,
       AckCompleted
  <1>4. ASSUME NEW r \in Rounds, PublishTimeout(r)
        PROVE  rcPc' = rcPc /\ (completedQ' = completedQ \/ completedQ' # <<>>)
    BY <1>1, <1>4 DEF PublishTimeout, Published
  <1>5. ASSUME TimerStep, ~ \E r \in Rounds : PublishTimeout(r)
        PROVE  UNCHANGED <<completedQ, rcPc>>
    BY <1>5 DEF TimerStep, FireTimer, WakeUp, ArmRound
  <1>6. ASSUME NEW c \in Call, PublishCompleted(c)
        PROVE  rcPc' = rcPc /\ (completedQ' = completedQ \/ completedQ' # <<>>)
    <2>1. completedQ' = completedQ \/ completedQ' = Append(completedQ, call[c].ans.round)
      BY <1>6 DEF PublishCompleted, Published
    <2> QED
      BY <1>1, <1>6, <2>1 DEF PublishCompleted
  <1>7. ASSUME NEW c \in Call, ~PublishCompleted(c),
               CallStep(c) \/ \E a \in Answer : ValidateAnswer(c, a)
        PROVE  UNCHANGED <<completedQ, rcPc>>
    BY <1>7 DEF CallStep, StoreAnswer, PublishAnswer, CheckAllAnswered, StopTimer, ValidateAnswer
  <1>8. EngineFaultStep => rcPc' = "idle" \/ UNCHANGED <<completedQ, rcPc>>
    BY DEF EngineFaultStep, SelectFails, PushResent, NextQuestionFails, StoreFails, CheckFails, EngineCrash
  <1> QED
    BY <1>2, <1>3, <1>4, <1>5, <1>6, <1>7, <1>8 DEF EngineNext

LEMMA HandlersStep ==
  ASSUME EngineInv, EngineNext
  PROVE  HandlersInv'
  BY MatchCreatedStepInv, ArmInv, RoundCompletedStepInv DEF HandlersInv

-----------------------------------------------------------------------------
(* What is under way for a round: the timer, ... *)
LEMMA TimerInv ==
  ASSUME EngineInv, EngineNext
  PROVE  (timer # 0 => Started(timer))'
  <1> USE DEF timerVars
  <1>1. (timer # 0 => timer \in Rounds) /\ 1 \in Rounds
    BY RoomAssumption DEF EngineInv, EngineTypeOK, TimerTypeOK, Rounds
  <1>2. timer # 0 => Started(timer)
    BY DEF EngineInv, RoundsInv
  <1>3. CASE timer' = timer \/ timer' = 0
    BY <1>1, <1>2, <1>3, StaysStarted
  <1>4. CASE ArmFirstRound
    BY <1>1, <1>4, StaysStarted DEF ArmFirstRound, ArmTimer, EngineInv, HandlersInv
  <1>5. ASSUME NEW r \in Rounds, ArmRound(r) PROVE (timer # 0 => Started(timer))'
    BY <1>5, StaysStarted DEF ArmRound, ArmTimer, EngineInv, RoundsInv
  <1>6. ASSUME ~ArmFirstRound, MatchCreatedStep PROVE timer' = timer
    BY <1>6 DEF MatchCreatedStep, SelectQuestions, PushQuestion, BeginMatch
  <1>7. ASSUME RoundCompletedStep PROVE timer' = timer
    BY <1>7 DEF RoundCompletedStep, RevealRound, ScheduleNext, NoNextQuestion, EndMatch,
       FinishMatch, AckCompleted
  <1>8. ASSUME ~ \E r \in Rounds : ArmRound(r), TimerStep PROVE timer' = timer \/ timer' = 0
    BY <1>8 DEF TimerStep, FireTimer, PublishTimeout, WakeUp
  <1>9. ASSUME NEW c \in Call, CallStep(c) \/ \E a \in Answer : ValidateAnswer(c, a)
        PROVE  timer' = timer \/ timer' = 0
    BY <1>9 DEF CallStep, StoreAnswer, PublishAnswer, CheckAllAnswered, StopTimer,
       PublishCompleted, ValidateAnswer
  <1>10. ASSUME EngineFaultStep PROVE timer' = timer \/ timer' = 0
    BY <1>10 DEF EngineFaultStep, SelectFails, PushResent, NextQuestionFails, StoreFails, CheckFails,
       EngineCrash
  <1> QED
    BY <1>3, <1>4, <1>5, <1>6, <1>7, <1>8, <1>9, <1>10 DEF EngineNext

(* ... the queued completions, ... *)
LEMMA CompletionsInv ==
  ASSUME EngineInv, EngineNext
  PROVE  (\A i \in 1..Len(completedQ) : Started(completedQ[i]))'
  <1>1. /\ completedQ \in Seq(Rounds)
        /\ \A i \in 1..Len(completedQ) : completedQ[i] \in Rounds /\ Started(completedQ[i])
    BY DEF EngineInv, EngineTypeOK, RoundCompletedTypeOK, RoundsInv
  <1>2. CASE completedQ' = completedQ
    BY <1>1, <1>2, StaysStarted
  <1>3. ASSUME completedQ # <<>>, completedQ' = Tail(completedQ)
        PROVE  (\A i \in 1..Len(completedQ) : Started(completedQ[i]))'
    <2>1. ASSUME NEW i \in 1..Len(completedQ')
          PROVE  \E j \in 1..Len(completedQ) : completedQ'[i] = completedQ[j]
      <3>1. i + 1 \in 1..Len(completedQ) /\ completedQ'[i] = completedQ[i + 1]
        BY <1>1, <1>3
      <3> QED
        BY <3>1
    <2> QED
      BY <1>1, <2>1, StaysStarted
  <1>4. ASSUME NEW r \in Rounds, Started(r), Published(completedQ, completedQ', r)
        PROVE  (\A i \in 1..Len(completedQ) : Started(completedQ[i]))'
    <2>1. CASE completedQ' = Append(completedQ, r)
      <3>1. ASSUME NEW i \in 1..Len(completedQ')
            PROVE  completedQ'[i] = r \/ \E j \in 1..Len(completedQ) : completedQ'[i] = completedQ[j]
        BY <1>1, <2>1
      <3> QED
        BY <1>1, <1>4, <3>1, StaysStarted
    <2> QED
      BY <1>2, <1>4, <2>1 DEF Published
  <1>5. MatchCreatedStep => completedQ' = completedQ
    BY DEF MatchCreatedStep, SelectQuestions, PushQuestion, BeginMatch, ArmFirstRound
  <1>6. RoundCompletedStep =>
          completedQ' = completedQ \/ (completedQ # <<>> /\ completedQ' = Tail(completedQ))
    BY DEF RoundCompletedStep, RevealRound, ScheduleNext, NoNextQuestion, EndMatch, FinishMatch,
       AckCompleted, EngineInv, HandlersInv
  <1>7. ASSUME NEW r \in Rounds, PublishTimeout(r)
        PROVE  Started(r) /\ Published(completedQ, completedQ', r)
    BY <1>7 DEF PublishTimeout, EngineInv, RoundsInv
  <1>8. ASSUME TimerStep, ~ \E r \in Rounds : PublishTimeout(r)
        PROVE  completedQ' = completedQ
    BY <1>8 DEF TimerStep, FireTimer, WakeUp, ArmRound
  <1>9. ASSUME NEW c \in Call, PublishCompleted(c)
        PROVE  \E r \in Rounds : Started(r) /\ Published(completedQ, completedQ', r)
    <2>1. call[c] # NoCall /\ call[c] \in InFlight
      BY <1>9, CallFacts DEF PublishCompleted, EngineInv, EngineTypeOK, CallTypeOK
    <2>2. call[c].ans.round \in Rounds
      BY <2>1, CallFacts DEF Answer
    <2> QED
      BY <1>9, <2>1, <2>2 DEF PublishCompleted, EngineInv, RoundsInv
  <1>10. ASSUME NEW c \in Call, ~PublishCompleted(c),
                CallStep(c) \/ \E a \in Answer : ValidateAnswer(c, a)
         PROVE  completedQ' = completedQ
    BY <1>10 DEF CallStep, StoreAnswer, PublishAnswer, CheckAllAnswered, StopTimer,
       ValidateAnswer
  <1>11. EngineFaultStep =>
           completedQ' = completedQ \/ (completedQ # <<>> /\ completedQ' = Tail(completedQ))
    BY DEF EngineFaultStep, SelectFails, PushResent, NextQuestionFails, StoreFails, CheckFails, EngineCrash,
       EngineInv, HandlersInv
  <1> QED
    BY <1>2, <1>3, <1>4, <1>5, <1>6, <1>7, <1>8, <1>9, <1>10, <1>11 DEF EngineNext

(* ... and the calls. *)
LEMMA CallsInv ==
  ASSUME EngineInv, EngineNext, NEW d \in Call, call'[d] # NoCall
  PROVE  Started(call[d].ans.round)'
  <1>1. call \in [Call -> InFlight \cup {NoCall}]
    BY DEF EngineInv, EngineTypeOK, CallTypeOK
  <1>2. call[d] # NoCall => Started(call[d].ans.round) /\ call[d].ans.round \in Rounds
    BY <1>1, CallFacts DEF EngineInv, RoundsInv, Answer
  <1>3. ASSUME call[d] # NoCall, call'[d].ans = call[d].ans PROVE Started(call[d].ans.round)'
    BY <1>2, <1>3, StaysStarted
  <1>4. CASE UNCHANGED call
    BY <1>3, <1>4
  <1>5. ASSUME NEW c \in Call, NEW a \in Answer, ValidateAnswer(c, a)
        PROVE  Started(call[d].ans.round)'
    <2>1. CASE d = c
      <3>1. call'[d].ans = a
        BY <1>1, <1>5, <2>1 DEF ValidateAnswer
      <3> QED
        BY <1>5, <3>1, StaysStarted DEF ValidateAnswer, Answer
    <2>2. CASE d # c
      BY <1>1, <1>3, <1>5, <2>2 DEF ValidateAnswer
    <2> QED
      BY <2>1, <2>2
  <1>6. ASSUME NEW c \in Call, CallStep(c) PROVE call[d] # NoCall /\ call'[d].ans = call[d].ans
    <2>1. call[c] # NoCall /\ call[c] \in InFlight
      BY <1>1, <1>6, CallFacts DEF CallStep, StoreAnswer, PublishAnswer, CheckAllAnswered,
         StopTimer, PublishCompleted
    <2>2. CASE d # c
      <3>1. call'[d] = call[d]
        BY <1>1, <1>6, <2>2 DEF CallStep, StoreAnswer, PublishAnswer, CheckAllAnswered, StopTimer,
           PublishCompleted
      <3> QED
        BY <3>1
    <2>3. CASE d = c
      <3>1. call'[c] = NoCall \/ \E p : call'[c] = [call[c] EXCEPT !.pc = p]
        BY <1>1, <1>6 DEF CallStep, StoreAnswer, PublishAnswer, CheckAllAnswered, StopTimer,
           PublishCompleted
      <3>2. PICK p : call'[c] = [call[c] EXCEPT !.pc = p]
        BY <2>3, <3>1
      <3> QED
        BY <2>1, <2>3, <3>2 DEF InFlight
    <2> QED
      BY <2>2, <2>3
  <1>7. ASSUME NEW c \in Call, StoreFails(c) \/ CheckFails(c) PROVE call'[d] = call[d]
    BY <1>1, <1>7 DEF StoreFails, CheckFails
  <1>8. MatchCreatedStep => UNCHANGED call
    BY DEF MatchCreatedStep, SelectQuestions, PushQuestion, BeginMatch, ArmFirstRound
  <1>9. RoundCompletedStep => UNCHANGED call
    BY DEF RoundCompletedStep, RevealRound, ScheduleNext, NoNextQuestion, EndMatch, FinishMatch,
       AckCompleted
  <1>10. TimerStep => UNCHANGED call
    BY DEF TimerStep, FireTimer, PublishTimeout, WakeUp, ArmRound
  <1>11. SelectFails \/ PushResent \/ NextQuestionFails => UNCHANGED call
    BY DEF SelectFails, PushResent, NextQuestionFails
  <1>12. ~EngineCrash
    BY DEF EngineCrash
  <1> QED
    BY <1>3, <1>4, <1>5, <1>6, <1>7, <1>8, <1>9, <1>10, <1>11, <1>12
    DEF EngineNext, EngineFaultStep

(* The actions that start no goroutine for a round: each count is left      *)
(* alone, or all of them are reset.                                         *)
LEMMA GoroutinesUnchanged ==
  ASSUME EngineNext, ~FireTimer, ~ScheduleNext,
         ~ \E r \in Rounds : PublishTimeout(r) \/ WakeUp(r) \/ ArmRound(r)
  PROVE  \/ UNCHANGED <<fired, sleeping, arming>>
         \/ /\ fired' = [r \in Rounds |-> 0]
            /\ sleeping' = [r \in Rounds |-> 0]
            /\ arming' = [r \in Rounds |-> 0]
  <1> USE DEF timerVars
  <1>1. MatchCreatedStep => UNCHANGED <<fired, sleeping, arming>>
    BY DEF MatchCreatedStep, SelectQuestions, PushQuestion, BeginMatch, ArmFirstRound
  <1>2. RoundCompletedStep => UNCHANGED <<fired, sleeping, arming>>
    BY DEF RoundCompletedStep, RevealRound, NoNextQuestion, EndMatch, FinishMatch, AckCompleted
  <1>3. ASSUME NEW c \in Call, CallStep(c) \/ \E a \in Answer : ValidateAnswer(c, a)
        PROVE  UNCHANGED <<fired, sleeping, arming>>
    BY <1>3 DEF CallStep, StoreAnswer, PublishAnswer, CheckAllAnswered, StopTimer,
       PublishCompleted, ValidateAnswer
  <1>4. EngineFaultStep /\ ~EngineCrash => UNCHANGED <<fired, sleeping, arming>>
    BY DEF EngineFaultStep, SelectFails, PushResent, NextQuestionFails, StoreFails, CheckFails
  <1>5. ~TimerStep
    BY DEF TimerStep
  <1>6. CASE EngineCrash
    BY <1>6 DEF EngineCrash
  <1> QED
    BY <1>1, <1>2, <1>3, <1>4, <1>5, <1>6 DEF EngineNext

(* The question list only grows, at its end. *)
LEMMA QuestionsGrow ==
  ASSUME EngineInv, EngineNext
  PROVE  Len(questions') >= Len(questions)
  <1>1. questions \in Seq(Question)
    BY DEF EngineInv, EngineTypeOK, RedisTypeOK
  <1>2. CASE questions' = questions
    BY <1>1, <1>2
  <1>3. CASE PushQuestion \/ PushResent
    <2>1. questions' = questions \/ questions' = Append(questions, <<selections, mc.pushed + 1>>)
      BY <1>3 DEF PushQuestion, PushResent, Published
    <2> QED
      BY <1>1, <2>1
  <1>4. CASE ~PushQuestion /\ ~PushResent
    <2> USE DEF redisVars
    <2>1. MatchCreatedStep => questions' = questions
      BY <1>4 DEF MatchCreatedStep, SelectQuestions, BeginMatch, ArmFirstRound
    <2>2. RoundCompletedStep => questions' = questions
      BY DEF RoundCompletedStep, RevealRound, ScheduleNext, NoNextQuestion, EndMatch,
         FinishMatch, AckCompleted
    <2>3. TimerStep => questions' = questions
      BY DEF TimerStep, FireTimer, PublishTimeout, WakeUp, ArmRound
    <2>4. ASSUME NEW c \in Call, CallStep(c) \/ \E a \in Answer : ValidateAnswer(c, a)
          PROVE  questions' = questions
      BY <2>4 DEF CallStep, StoreAnswer, PublishAnswer, CheckAllAnswered, StopTimer,
         PublishCompleted, ValidateAnswer
    <2>5. EngineFaultStep => questions' = questions
      BY <1>4 DEF EngineFaultStep, SelectFails, NextQuestionFails, StoreFails, CheckFails, EngineCrash
    <2> QED
      BY <1>2, <2>1, <2>2, <2>3, <2>4, <2>5 DEF EngineNext
  <1> QED
    BY <1>3, <1>4

(* Goroutines exist for opened rounds only; one that sleeps before a round  *)
(* will find its question.                                                  *)
LEMMA GoroutinesInv ==
  ASSUME EngineInv, EngineNext, NEW r \in Rounds
  PROVE  /\ (fired[r] > 0 => Started(r))'
         /\ (arming[r] > 0 => Started(r))'
         /\ (sleeping[r] > 0 => r > 1 /\ Started(r - 1) /\ r <= Len(questions))'
  <1>1. /\ fired \in [Rounds -> Nat]
        /\ arming \in [Rounds -> Nat]
        /\ sleeping \in [Rounds -> Nat]
        /\ Len(questions) \in Nat /\ Len(questions') \in Nat
        /\ r \in Nat /\ (r > 1 => r - 1 \in Rounds)
    <2>1. questions \in Seq(Question) /\ questions' \in Seq(Question)
      BY EngineTypeStep DEF EngineInv, EngineTypeOK, RedisTypeOK
    <2> QED
      BY SMTT(30), <2>1, RoomAssumption DEF EngineInv, EngineTypeOK, TimerTypeOK, Rounds
  <1>2. /\ fired[r] > 0 => Started(r)
        /\ arming[r] > 0 => Started(r)
        /\ sleeping[r] > 0 => r > 1 /\ Started(r - 1) /\ r <= Len(questions)
    BY DEF EngineInv, RoundsInv
  <1> DEFINE Early == r > 1 /\ Started(r - 1) /\ r <= Len(questions)
  <1>3. Early => Early'
    BY <1>1, StaysStarted, QuestionsGrow
  <1>4. Started(r) => Started(r)'
    BY StaysStarted
  <1> DEFINE Done == /\ fired[r] > 0 => Started(r)
                     /\ arming[r] > 0 => Started(r)
                     /\ sleeping[r] > 0 => Early
  <1>5. SUFFICES Done'
    OBVIOUS
  <1> HIDE DEF Early
  <1>6. sleeping[r] > 0 => Early
    BY <1>2 DEF Early
  <1>7. CASE UNCHANGED <<fired, sleeping, arming>>
    BY <1>2, <1>3, <1>4, <1>6, <1>7
  <1>8. ASSUME fired' = [s \in Rounds |-> 0], sleeping' = [s \in Rounds |-> 0],
               arming' = [s \in Rounds |-> 0]
        PROVE  Done'
    BY <1>8
  <1>9. CASE FireTimer
    <2>1. timer \in Rounds /\ Started(timer)
      BY <1>9 DEF FireTimer, EngineInv, EngineTypeOK, TimerTypeOK, RoundsInv, Rounds
    <2>2. arming' = arming /\ sleeping' = sleeping /\ fired' = [fired EXCEPT ![timer] = @ + 1]
      BY <1>9 DEF FireTimer
    <2>3. fired'[r] > 0 => Started(r)
      BY <1>1, <1>2, <2>1, <2>2
    <2> QED
      BY <1>2, <1>3, <1>4, <1>6, <2>2, <2>3
  <1>10. CASE ScheduleNext
    <2>1. completedQ # <<>> /\ completedQ \in Seq(Rounds)
      BY <1>10 DEF ScheduleNext, EngineInv, HandlersInv, EngineTypeOK, RoundCompletedTypeOK
    <2> DEFINE n == Head(completedQ)
    <2>2. n \in Rounds /\ Started(n)
      BY <2>1 DEF EngineInv, RoundsInv
    <2>3. /\ fired' = fired
          /\ arming' = arming
          /\ sleeping' = [sleeping EXCEPT ![n + 1] = @ + 1]
          /\ n < Len(questions)
      BY <1>10 DEF ScheduleNext
    <2>4. r = n + 1 => Early
      <3> HIDE DEF n
      <3>1. r = n + 1 => r > 1 /\ r - 1 = n /\ r <= Len(questions)
        BY <1>1, <2>2, <2>3, RoomAssumption DEF Rounds
      <3> QED
        BY <2>2, <3>1 DEF Early
    <2>5. r # n + 1 => sleeping'[r] = sleeping[r]
      BY <1>1, <2>3
    <2> QED
      BY <1>2, <1>3, <1>4, <1>6, <2>3, <2>4, <2>5
  <1>11. ASSUME NEW s \in Rounds, PublishTimeout(s)
         PROVE  Done'
    <2>1. /\ fired' = [fired EXCEPT ![s] = @ - 1] /\ fired[s] > 0
          /\ arming' = arming /\ sleeping' = sleeping
      BY <1>11 DEF PublishTimeout
    <2>2. fired'[r] > 0 => fired[r] > 0
      BY <1>1, <2>1
    <2> QED
      BY <1>2, <1>3, <1>4, <1>6, <2>1, <2>2
  <1>12. ASSUME NEW s \in Rounds, WakeUp(s)
         PROVE  Done'
    <2>1. /\ sleeping' = [sleeping EXCEPT ![s] = @ - 1] /\ sleeping[s] > 0
          /\ arming' = [arming EXCEPT ![s] = @ + 1] /\ fired' = fired
      BY <1>12 DEF WakeUp
    <2>2. sleeping'[r] > 0 => sleeping[r] > 0
      BY <1>1, <2>1
    <2>3. r # s => arming'[r] = arming[r]
      BY <1>1, <2>1
    <2>4. r = s => Started(r)'
      BY <1>12, WakeUpOpens
    <2> QED
      BY <1>2, <1>3, <1>4, <1>6, <2>1, <2>2, <2>3, <2>4
  <1>13. ASSUME NEW s \in Rounds, ArmRound(s)
         PROVE  Done'
    <2>1. /\ arming' = [arming EXCEPT ![s] = @ - 1] /\ arming[s] > 0
          /\ fired' = fired /\ sleeping' = sleeping
      BY <1>13 DEF ArmRound
    <2>2. arming'[r] > 0 => arming[r] > 0
      BY <1>1, <2>1
    <2> QED
      BY <1>2, <1>3, <1>4, <1>6, <2>1, <2>2
  <1> QED
    BY <1>7, <1>8, <1>9, <1>10, <1>11, <1>12, <1>13, GoroutinesUnchanged

LEMMA RoundsStep ==
  ASSUME EngineInv, EngineNext
  PROVE  RoundsInv'
  BY TimerInv, CompletionsInv, CallsInv, GoroutinesInv DEF RoundsInv

-----------------------------------------------------------------------------
LEMMA EngineInvInit ==
  ASSUME SharedInit, EngineInit
  PROVE  EngineInv
  <1> USE RoomAssumption
  <1>1. SharedTypeOK
    BY DEF SharedInit, SharedTypeOK
  <1>2. RedisTypeOK
    BY DEF EngineInit, RedisTypeOK
  <1>9. ClientTypeOK
    BY DEF EngineInit, ClientTypeOK
  <1>10. TimerTypeOK
    BY DEF EngineInit, TimerTypeOK
  <1>3. MatchCreatedTypeOK /\ RoundCompletedTypeOK
    BY SelectionFacts DEF EngineInit, MatchCreatedTypeOK, RoundCompletedTypeOK
  <1>4. CallTypeOK
    BY DEF EngineInit, CallTypeOK
  <1>5. HandlersInv
    BY DEF SharedInit, EngineInit, HandlersInv, NoSelection
  <1>6. \A r \in Rounds : ~Started(r)
    BY DEF EngineInit, Started
  <1>7. RoundsInv
    BY DEF EngineInit, RoundsInv
  <1>8. PrefixInv /\ EndInv
    BY <1>6 DEF EngineInit, PrefixInv, EndInv
  <1> QED
    BY <1>1, <1>2, <1>3, <1>4, <1>5, <1>7, <1>8, <1>9, <1>10 DEF EngineInv, EngineTypeOK

LEMMA EngineInvStep ==
  ASSUME EngineInv, EngineNext
  PROVE  EngineInv'
  BY EngineTypeStep, HandlersStep, RoundsStep, PrefixStep, EndStep DEF EngineInv

(* The invariant speaks of the variables of the engine and those it shares. *)
LEMMA EngineInvStutter ==
  ASSUME EngineInv, UNCHANGED <<sharedVars, engineVars>>
  PROVE  EngineInv'
  <1> USE DEF sharedVars, engineVars, redisVars, clientVars, timerVars, mcVars
  <1>1. EngineTypeOK'
    BY Untouched DEF EngineInv, EngineTypeOK
  <1>2. HandlersInv' /\ PrefixInv' /\ EndInv'
    BY DEF EngineInv, HandlersInv, PrefixInv, EndInv, Started
  <1>3. RoundsInv'
    BY DEF EngineInv, RoundsInv, Started
  <1> QED
    BY <1>1, <1>2, <1>3 DEF EngineInv

LEMMA EngineInvariance == EngineSpec => []EngineInv
  <1>1. EngineAloneInit => EngineInv
    BY EngineInvInit DEF EngineAloneInit
  <1>2. EngineInv /\ [EngineNext]_<<sharedVars, engineVars>> => EngineInv'
    BY EngineInvStep, EngineInvStutter
  <1> QED
    BY <1>1, <1>2, PTL DEF EngineSpec

LEMMA InvRoundsInOrder ==
  ASSUME EngineInv
  PROVE  NoRoundSkipped
  <1>1. \A r \in Rounds : r > 1 => r - 1 \in Rounds /\ r - 1 <= r
    BY RoomAssumption DEF Rounds
  <1>2. TotalRounds \in Rounds /\ \A r \in Rounds : r <= TotalRounds
    BY RoomAssumption DEF Rounds
  <1> QED
    BY <1>1, <1>2 DEF EngineInv, PrefixInv, EndInv, NoRoundSkipped

-----------------------------------------------------------------------------
(* Whatever fails, and however the timers, handlers and calls interleave,   *)
(* every key, queue, timer and call of the engine keeps its type: no step   *)
(* takes the head of an empty queue, reads a question behind the end of the *)
(* list or lets a counter go below zero.                                    *)
THEOREM EngineTypeCorrect == EngineSpec => []EngineTypeOK
  <1>1. EngineInv => EngineTypeOK
    BY DEF EngineInv
  <1> QED
    BY <1>1, EngineInvariance, PTL

(* For any number of players, rounds, concurrent calls and faults no round  *)
(* is opened before its predecessor, and the match ends only after its last *)
(* round was opened, although round.completed may be published twice for a  *)
(* round and handled after later rounds (round_completed.go:102-123).       *)
THEOREM RoundsInOrder == EngineSpec => []NoRoundSkipped
  <1> QED
    BY InvRoundsInOrder, EngineInvariance, PTL
=============================================================================
