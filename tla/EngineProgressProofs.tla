------------------------- MODULE EngineProgressProofs -------------------------
(***************************************************************************)
(* The quiz engine implements MatchProgress: what the players of a room are *)
(* promised holds whatever fails, for every number of players, rounds,      *)
(* concurrent calls and faults.                                             *)
(***************************************************************************)
EXTENDS QuizEngineProofs

-----------------------------------------------------------------------------
(* What the refinement needs besides EngineInv.                             *)

(* The rounds opened so far are those up to some round: the value of        *)
(* Reached, which CHOOSE could otherwise take from nowhere.                 *)
ReachedInv == \E n \in 0..TotalRounds : \A r \in Rounds : Started(r) <=> r <= n

(* The handler of round.completed publishes match.finished only after the   *)
(* last round, which was opened.                                            *)
ReportInv == rcPc \in {"ended", "finished"} => Started(TotalRounds)

ProgressInv == EngineInv /\ ReachedInv /\ ReportInv

-----------------------------------------------------------------------------
(* Two bounds that cut Rounds at the same place are equal. *)
LEMMA CutsAgree ==
  ASSUME NEW m \in 0..TotalRounds, NEW n \in 0..TotalRounds,
         \A r \in Rounds : r <= m <=> r <= n
  PROVE  m = n
  <1>1. ASSUME NEW i \in 0..TotalRounds, NEW j \in 0..TotalRounds, i < j,
               \A r \in Rounds : r <= i <=> r <= j
        PROVE  FALSE
    <2>1. j \in Rounds
      BY <1>1, RoomAssumption DEF Rounds
    <2>2. j <= i
      BY <1>1, <2>1
    <2> QED
      BY <1>1, <2>2, RoomAssumption
  <1>2. m < n \/ n < m \/ m = n
    BY RoomAssumption
  <1> QED
    BY <1>1, <1>2

LEMMA ReachedIs ==
  ASSUME NEW n \in 0..TotalRounds, \A r \in Rounds : Started(r) <=> r <= n
  PROVE  Reached = n
  <1> DEFINE Cut(m) == \A r \in Rounds : Started(r) <=> r <= m
  <1>1. Cut(n)
    OBVIOUS
  <1>2. Reached = CHOOSE m \in 0..TotalRounds : Cut(m)
    BY DEF Reached
  <1>3. ASSUME NEW m \in 0..TotalRounds, Cut(m) PROVE m = n
    BY <1>1, <1>3, CutsAgree
  <1> HIDE DEF Cut
  <1> QED
    BY <1>1, <1>2, <1>3

LEMMA ReachedNextIs ==
  ASSUME NEW n \in 0..TotalRounds, \A r \in Rounds : Started(r)' <=> r <= n
  PROVE  Reached' = n
  <1> DEFINE Cut(m) == \A r \in Rounds : Started(r)' <=> r <= m
  <1>1. Cut(n)
    OBVIOUS
  <1>2. Reached' = CHOOSE m \in 0..TotalRounds : Cut(m)
    BY DEF Reached
  <1>3. ASSUME NEW m \in 0..TotalRounds, Cut(m) PROVE m = n
    BY <1>1, <1>3, CutsAgree
  <1> HIDE DEF Cut
  <1> QED
    BY <1>1, <1>2, <1>3

LEMMA ReachedFacts ==
  ASSUME ReachedInv
  PROVE  Reached \in 0..TotalRounds /\ \A r \in Rounds : Started(r) <=> r <= Reached
  <1>1. PICK n \in 0..TotalRounds : \A r \in Rounds : Started(r) <=> r <= n
    BY DEF ReachedInv
  <1>2. Reached = n
    BY <1>1, ReachedIs
  <1> QED
    BY <1>1, <1>2

-----------------------------------------------------------------------------
(* A step opens the next round, or opens none that was not opened.          *)
LEMMA ReachedStep ==
  ASSUME EngineInv, ReachedInv, EngineNext
  PROVE  /\ ReachedInv'
         /\ \/ Reached' = Reached
            \/ Reached < TotalRounds /\ Reached' = Reached + 1
  <1> DEFINE Goal == /\ ReachedInv'
                     /\ \/ Reached' = Reached
                        \/ Reached < TotalRounds /\ Reached' = Reached + 1
  <1>1. PICK n \in 0..TotalRounds : n = Reached /\ \A r \in Rounds : Started(r) <=> r <= n
    BY ReachedFacts
  (* It is enough to see how the set of opened rounds changes. *)
  <1>2. ASSUME NEW k \in 0..TotalRounds, k = n \/ k = n + 1,
               \A r \in Rounds : Started(r)' <=> r <= k
        PROVE  Goal
    <2>1. Reached' = k
      BY <1>2, ReachedNextIs
    <2>2. ReachedInv'
      BY <1>2 DEF ReachedInv, Rounds
    <2> QED
      BY <1>1, <1>2, <2>1, <2>2, RoomAssumption
  <1> HIDE DEF Goal
  <1>3. ASSUME \A r \in Rounds : Started(r)' <=> Started(r)
        PROVE  Goal
    <2>1. \A r \in Rounds : Started(r)' <=> r <= n
      BY <1>1, <1>3
    <2> QED
      BY <1>1, <1>2, <2>1
  (* Round r is opened, and r is opened already or follows the last one. *)
  <1>4. ASSUME NEW r \in Rounds, Started(r)', r <= n + 1,
               \A s \in Rounds : s # r => (Started(s)' <=> Started(s))
        PROVE  Goal
    <2>1. CASE r <= n
      <3>1. \A s \in Rounds : Started(s)' <=> Started(s)
        BY <1>1, <1>4, <2>1
      <3> QED
        BY <1>3, <3>1
    <2>2. CASE r = n + 1
      <3>1. r \in 0..TotalRounds
        BY RoomAssumption DEF Rounds
      <3>2. \A s \in Rounds : s # r => (s <= r <=> s <= n)
        BY <1>1, <2>2, RoomAssumption DEF Rounds
      <3>3. \A s \in Rounds : Started(s)' <=> s <= r
        BY <1>1, <1>4, <3>2 DEF Rounds
      <3> QED
        BY <1>2, <2>2, <3>1, <3>3
    <2>3. r <= n \/ r = n + 1
      BY <1>1, <1>4, RoomAssumption DEF Rounds
    <2> QED
      BY <2>1, <2>2, <2>3
  <1>5. ASSUME BeginMatch PROVE Goal
    <2>1. mc.size \in 0..TotalRounds
      BY SelectionFacts DEF EngineInv, EngineTypeOK, MatchCreatedTypeOK
    <2>2. CASE mc.size = 0
      <3>1. \A r \in Rounds : Started(r)' <=> Started(r)
        BY <1>5, <2>2, BeginMatchOpens
      <3> QED
        BY <1>3, <3>1
    <2>3. CASE mc.size > 0
      <3>1. 1 \in Rounds /\ 1 <= n + 1
        BY <1>1, RoomAssumption DEF Rounds
      <3>2. Started(1)' /\ \A s \in Rounds : s # 1 => (Started(s)' <=> Started(s))
        BY <1>5, <2>3, BeginMatchOpens
      <3> QED
        BY <1>4, <3>1, <3>2
    <2> QED
      BY <2>1, <2>2, <2>3, RoomAssumption
  <1>6. ASSUME NEW r \in Rounds, WakeUp(r) PROVE Goal
    <2>1. r - 1 \in Rounds /\ Started(r - 1)
      BY <1>6, RoomAssumption DEF EngineInv, RoundsInv, WakeUp, Rounds
    <2>2. r <= n + 1
      BY <1>1, <2>1, RoomAssumption DEF Rounds
    <2>3. Started(r)' /\ \A s \in Rounds : s # r => (Started(s)' <=> Started(s))
      BY <1>6, WakeUpOpens
    <2> QED
      BY <1>4, <2>2, <2>3
  <1>7. ASSUME asked' = asked PROVE Goal
    <2>1. \A r \in Rounds : Started(r)' <=> Started(r)
      BY <1>7 DEF Started
    <2> QED
      BY <1>3, <2>1
  <1>8. Goal
    BY <1>5, <1>6, <1>7, AskedUnchanged
  <1> QED
    BY <1>8 DEF Goal

-----------------------------------------------------------------------------
(* Only EndMatch leads to the report of a match.  It handles a completed    *)
(* round that is not before the last, and a round that was completed was    *)
(* opened.                                                                  *)
LEMMA EndedRoundIsLast ==
  ASSUME EngineInv, EndMatch
  PROVE  Started(TotalRounds)
  <1>1. completedQ # <<>> /\ completedQ \in Seq(Rounds)
    BY DEF EndMatch, EngineInv, HandlersInv, EngineTypeOK, RoundCompletedTypeOK
  <1>2. Head(completedQ) = TotalRounds /\ Head(completedQ) = completedQ[1] /\ 1 \in 1..Len(completedQ)
    BY <1>1, RoomAssumption DEF EndMatch, Rounds
  <1> QED
    BY <1>2 DEF EngineInv, RoundsInv

LEMMA ReportStep ==
  ASSUME EngineInv, ReportInv, EngineNext
  PROVE  ReportInv'
  <1>1. TotalRounds \in Rounds
    BY RoomAssumption DEF Rounds
  <1>2. ASSUME Started(TotalRounds) PROVE ReportInv'
    BY <1>1, <1>2, StaysStarted DEF ReportInv
  <1>3. EndMatch \/ FinishMatch => Started(TotalRounds)
    BY EndedRoundIsLast DEF FinishMatch, ReportInv
  <1>4. ASSUME rcPc' = rcPc PROVE ReportInv'
    BY <1>2, <1>4 DEF ReportInv
  <1>5. ASSUME rcPc' \in {"idle", "revealed"} PROVE ReportInv'
    BY <1>5 DEF ReportInv
  <1>6. MatchCreatedStep => rcPc' = rcPc
    BY DEF MatchCreatedStep, SelectQuestions, PushQuestion, BeginMatch, ArmFirstRound
  <1>7. RoundCompletedStep /\ ~EndMatch /\ ~FinishMatch => rcPc' \in {"idle", "revealed"}
    BY DEF RoundCompletedStep, RevealRound, ScheduleNext, NoNextQuestion, AckCompleted
  <1>8. TimerStep => rcPc' = rcPc
    BY DEF TimerStep, FireTimer, PublishTimeout, WakeUp, ArmRound
  <1>9. ASSUME NEW c \in Call, CallStep(c) \/ \E a \in Answer : ValidateAnswer(c, a)
        PROVE  rcPc' = rcPc
    BY <1>9 DEF CallStep, StoreAnswer, PublishAnswer, CheckAllAnswered, StopTimer,
       PublishCompleted, ValidateAnswer
  <1>10. EngineFaultStep => rcPc' = rcPc \/ rcPc' = "idle"
    BY DEF EngineFaultStep, SelectFails, PushResent, NextQuestionFails, StoreFails, CheckFails, EngineCrash
  <1> QED
    BY <1>2, <1>3, <1>4, <1>5, <1>6, <1>7, <1>8, <1>9, <1>10 DEF EngineNext

-----------------------------------------------------------------------------
(* What the abstract specification sees of a step.  Most steps change       *)
(* neither the opened rounds nor what the players and the scoring service   *)
(* are told of the end.                                                     *)
LEMMA EndIsTold ==
  ASSUME EngineNext
  PROVE  \/ UNCHANGED <<ended, finishedQ>>
         \/ EndMatch
         \/ FinishMatch
  <1> USE DEF sharedVars, clientVars
  <1>1. MatchCreatedStep => UNCHANGED <<ended, finishedQ>>
    BY DEF MatchCreatedStep, SelectQuestions, PushQuestion, BeginMatch, ArmFirstRound
  <1>2. RoundCompletedStep /\ ~EndMatch /\ ~FinishMatch => UNCHANGED <<ended, finishedQ>>
    BY DEF RoundCompletedStep, RevealRound, ScheduleNext, NoNextQuestion, AckCompleted
  <1>3. TimerStep => UNCHANGED <<ended, finishedQ>>
    BY DEF TimerStep, FireTimer, PublishTimeout, WakeUp, ArmRound
  <1>4. ASSUME NEW c \in Call, CallStep(c) \/ \E a \in Answer : ValidateAnswer(c, a)
        PROVE  UNCHANGED <<ended, finishedQ>>
    BY <1>4 DEF CallStep, StoreAnswer, PublishAnswer, CheckAllAnswered, StopTimer,
       PublishCompleted, ValidateAnswer
  <1>5. EngineFaultStep => UNCHANGED <<ended, finishedQ>>
    BY DEF EngineFaultStep, SelectFails, PushResent, NextQuestionFails, StoreFails, CheckFails, EngineCrash
  <1> QED
    BY <1>1, <1>2, <1>3, <1>4, <1>5 DEF EngineNext

(* With the last round opened, the mapped value of Reached is TotalRounds   *)
(* and no step can raise it.                                                *)
LEMMA AllReached ==
  ASSUME EngineInv, ReachedInv, EngineNext, Started(TotalRounds)
  PROVE  Reached = TotalRounds /\ Reached' = Reached
  <1>1. TotalRounds \in Rounds
    BY RoomAssumption DEF Rounds
  <1>2. Reached = TotalRounds
    BY <1>1, ReachedFacts, RoomAssumption
  <1> QED
    BY <1>2, ReachedStep, RoomAssumption

(* Every step of the engine is a step of MatchProgress or a stutter:        *)
(* BeginMatch and WakeUp are Advance, or a stutter when a redelivered       *)
(* message opens a round anew; EndMatch is Finish and FinishMatch Record,   *)
(* unless the broadcast or the publish fails; all other steps stutter.      *)
LEMMA EngineProgressStep ==
  ASSUME ProgressInv, EngineNext
  PROVE  [EngineProgress!ProgressNext]_EngineProgress!progressVars
  <1> USE DEF ProgressInv, EngineProgress!ProgressNext, EngineProgress!progressVars
  <1>1. CASE UNCHANGED <<ended, finishedQ>>
    <2>1. (finishedQ # <<>>)' = (finishedQ # <<>>)
      BY <1>1
    <2>2. Reached' = Reached \/ (Reached < TotalRounds /\ Reached' = Reached + 1)
      BY ReachedStep
    <2> QED
      BY <1>1, <2>1, <2>2 DEF EngineProgress!Advance
  <1>2. CASE EndMatch
    <2>1. Reached = TotalRounds /\ Reached' = Reached
      BY <1>2, EndedRoundIsLast, AllReached
    <2>2. finishedQ' = finishedQ /\ (ended' = TRUE \/ ended' = ended)
      BY <1>2 DEF EndMatch
    <2>3. (finishedQ # <<>>)' = (finishedQ # <<>>)
      BY <2>2
    <2> QED
      BY <2>1, <2>2, <2>3 DEF EngineProgress!Finish
  <1>3. CASE FinishMatch
    <2>1. Reached = TotalRounds /\ Reached' = Reached
      BY <1>3, AllReached DEF FinishMatch, ReportInv
    <2>2. ended' = ended /\ (finishedQ' = Append(finishedQ, MatchFinished) \/ finishedQ' = finishedQ)
      BY <1>3 DEF FinishMatch, Published, clientVars
    <2>3. finishedQ \in Seq({MatchFinished})
      BY DEF EngineInv, EngineTypeOK, SharedTypeOK
    <2>4. (finishedQ # <<>>)' = TRUE \/ (finishedQ # <<>>)' = (finishedQ # <<>>)
      BY <2>2, <2>3
    <2> QED
      BY <2>1, <2>2, <2>4 DEF EngineProgress!Record
  <1> QED
    BY <1>1, <1>2, <1>3, EndIsTold

-----------------------------------------------------------------------------
LEMMA ProgressInvInit ==
  ASSUME EngineAloneInit
  PROVE  ProgressInv /\ EngineProgress!ProgressInit
  <1>1. EngineInv
    BY EngineInvInit DEF EngineAloneInit
  <1>2. \A r \in Rounds : Started(r) <=> r <= 0
    BY RoomAssumption DEF EngineAloneInit, EngineInit, Started, Rounds
  <1>3. Reached = 0 /\ ReachedInv
    BY <1>2, ReachedIs, RoomAssumption DEF ReachedInv
  <1> QED
    BY <1>1, <1>3
    DEF ProgressInv, ReportInv, EngineAloneInit, SharedInit, EngineInit,
        EngineProgress!ProgressInit

LEMMA ProgressInvStep ==
  ASSUME ProgressInv, [EngineNext]_<<sharedVars, engineVars>>
  PROVE  ProgressInv' /\ [EngineProgress!ProgressNext]_EngineProgress!progressVars
  <1>1. CASE EngineNext
    BY <1>1, EngineInvStep, ReachedStep, ReportStep, EngineProgressStep DEF ProgressInv
  <1>2. CASE UNCHANGED <<sharedVars, engineVars>>
    <2>1. EngineInv'
      BY <1>2, EngineInvStutter DEF ProgressInv
    <2>2. asked' = asked /\ ended' = ended /\ finishedQ' = finishedQ /\ rcPc' = rcPc
      BY <1>2 DEF sharedVars, engineVars, clientVars
    <2>3. \A r \in Rounds : Started(r)' <=> Started(r)
      BY <2>2 DEF Started
    <2>4. ReachedInv' /\ ReportInv'
      BY <2>2 DEF ProgressInv, ReachedInv, ReportInv, Started
    <2>5. Reached' = Reached
      BY <2>3, ReachedFacts, ReachedNextIs DEF ProgressInv
    <2> QED
      BY <2>1, <2>2, <2>4, <2>5 DEF ProgressInv, EngineProgress!progressVars
  <1> QED
    BY <1>1, <1>2

(* The engine implements the promise made to the players, for any number of *)
(* players, rounds, concurrent calls and faults: through crashes,           *)
(* redeliveries, lost messages and failing stores the rounds are opened one *)
(* after the other, and MatchEnd is broadcast and match.finished published  *)
(* only after the last one was opened (round_completed.go:102-123).         *)
THEOREM EngineKeepsProgress == EngineSpec => EngineImplementsProgressSafety
  <1>1. EngineAloneInit => ProgressInv /\ EngineProgress!ProgressInit
    BY ProgressInvInit
  <1>2. ProgressInv /\ [EngineNext]_<<sharedVars, engineVars>>
          => ProgressInv' /\ [EngineProgress!ProgressNext]_EngineProgress!progressVars
    BY ProgressInvStep
  <1> QED
    BY <1>1, <1>2, PTL
       DEF EngineSpec, EngineImplementsProgressSafety, EngineProgress!ProgressSafety

-----------------------------------------------------------------------------
(* What holds as long as nothing has failed.                                *)

(* There was one selection and each of its questions was pushed: the list   *)
(* holds them in order, every opened round has been asked its question, and *)
(* no round is open before all are pushed.                                  *)
QuestionsInv ==
  faults = 0 =>
    /\ \A i \in 1..Len(questions) : questions[i] = <<1, i>>
    /\ createdQ /\ mc.pc = "idle" => questions = <<>>
    /\ mc.pc = "push" => Len(questions) = mc.pushed /\ mc.pushed <= mc.size
    /\ \A r \in Rounds :
         Started(r) =>
           /\ asked[r] = <<1, r>>
           /\ r <= Len(questions)
           /\ createdQ => mc.pc = "arm"

(* The answer of a round was revealed before anything was done about the    *)
(* round that follows.                                                      *)
RevealedInv ==
  faults = 0 =>
    /\ rcPc # "idle" => revealed[Head(completedQ)] # NoQuestion
    /\ \A r \in Rounds :
         /\ revealed[r] # NoQuestion => Started(r) /\ revealed[r] = <<1, r>>
         /\ r > 1 /\ (sleeping[r] > 0 \/ Started(r)) => revealed[r - 1] # NoQuestion

(* With a full selection the list has a question for every round.           *)
FullInv ==
  faults = 0 /\ FullSelections =>
    /\ mc.pc # "idle" => mc.size = TotalRounds
    /\ \A r \in Rounds : Started(r) => Len(questions) = TotalRounds
    /\ rcPc \in {"ended", "finished"} => ended

CalmInv ==
  /\ EngineInv
  /\ QuestionsInv
  /\ RevealedInv
  /\ FullInv
  /\ NeverStuck

-----------------------------------------------------------------------------
LEMMA CalmFacts ==
  ASSUME EngineInv, EngineNext, faults' = 0
  PROVE  faults = 0 /\ faults' = faults /\ ~Fault /\ ~EngineFaultStep
  <1>1. faults \in Nat
    BY RoomAssumption DEF EngineInv, EngineTypeOK, SharedTypeOK
  <1>2. ~Fault
    BY <1>1 DEF Fault
  <1>3. ~EngineFaultStep
    BY <1>2 DEF EngineFaultStep, SelectFails, PushResent, NextQuestionFails, StoreFails, CheckFails,
       EngineCrash
  <1>4. faults' = faults
    <2> USE <1>2 DEF sharedVars, Published, OpenRound
    <2>1. MatchCreatedStep => faults' = faults
      BY DEF MatchCreatedStep, SelectQuestions, PushQuestion, BeginMatch, ArmFirstRound
    <2>2. RoundCompletedStep => faults' = faults
      BY DEF RoundCompletedStep, RevealRound, ScheduleNext, NoNextQuestion, EndMatch,
         FinishMatch, AckCompleted
    <2>3. TimerStep => faults' = faults
      BY DEF TimerStep, FireTimer, PublishTimeout, WakeUp, ArmRound
    <2>4. ASSUME NEW c \in Call, CallStep(c) \/ \E a \in Answer : ValidateAnswer(c, a)
          PROVE  faults' = faults
      BY <2>4 DEF CallStep, StoreAnswer, PublishAnswer, CheckAllAnswered, StopTimer,
         PublishCompleted, ValidateAnswer
    <2> QED
      BY <1>3, <2>1, <2>2, <2>3, <2>4 DEF EngineNext
  <1> QED
    BY <1>2, <1>3, <1>4

(* The steps that leave the questions and the opened rounds alone. *)
LEMMA QuestionsUnchanged ==
  ASSUME EngineNext, ~MatchCreatedStep, ~EngineFaultStep, ~ \E r \in Rounds : WakeUp(r)
  PROVE  UNCHANGED <<questions, mcVars, asked>>
  <1> USE DEF redisVars, clientVars, mcVars
  <1>1. RoundCompletedStep => UNCHANGED <<questions, mcVars, asked>>
    BY DEF RoundCompletedStep, RevealRound, ScheduleNext, NoNextQuestion, EndMatch, FinishMatch,
       AckCompleted
  <1>2. TimerStep => UNCHANGED <<questions, mcVars, asked>>
    BY DEF TimerStep, FireTimer, PublishTimeout, ArmRound
  <1>3. ASSUME NEW c \in Call, CallStep(c) \/ \E a \in Answer : ValidateAnswer(c, a)
        PROVE  UNCHANGED <<questions, mcVars, asked>>
    BY <1>3 DEF CallStep, StoreAnswer, PublishAnswer, CheckAllAnswered, StopTimer,
       PublishCompleted, ValidateAnswer
  <1> QED
    BY <1>1, <1>2, <1>3 DEF EngineNext

(* Until something fails the list is filled once, before the first round.   *)
LEMMA QuestionsStep ==
  ASSUME CalmInv, EngineNext
  PROVE  QuestionsInv'
  <1> SUFFICES ASSUME faults' = 0 PROVE QuestionsInv'
    BY DEF QuestionsInv
  <1>1. faults = 0 /\ faults' = faults /\ ~Fault /\ ~EngineFaultStep
    BY CalmFacts DEF CalmInv
  <1>2. /\ \A i \in 1..Len(questions) : questions[i] = <<1, i>>
        /\ createdQ /\ mc.pc = "idle" => questions = <<>>
        /\ mc.pc = "push" => Len(questions) = mc.pushed /\ mc.pushed <= mc.size
        /\ \A r \in Rounds :
             Started(r) => asked[r] = <<1, r>> /\ r <= Len(questions) /\ (createdQ => mc.pc = "arm")
    BY <1>1 DEF CalmInv, QuestionsInv
  <1>3. /\ questions \in Seq(Question) /\ mc \in Selection
        /\ asked \in [Rounds -> Question \cup {NoQuestion}]
        /\ selections \in Nat
    BY DEF CalmInv, EngineInv, EngineTypeOK, RedisTypeOK, MatchCreatedTypeOK, ClientTypeOK
  <1>4. mc.pc # "idle" => createdQ /\ selections = 1
    BY <1>1, <1>3 DEF CalmInv, EngineInv, HandlersInv
  <1>5. CASE SelectQuestions
    <2>1. /\ createdQ /\ mc.pc = "idle" /\ createdQ' = createdQ
          /\ questions' = questions /\ asked' = asked
          /\ \E n \in QuestionCounts : mc' = [pc |-> "push", size |-> n, pushed |-> 0]
      BY <1>5 DEF SelectQuestions, redisVars, clientVars
    <2>2. questions' = <<>> /\ mc'.pc = "push" /\ mc'.pushed = 0 /\ mc'.size \in Nat
      BY <1>2, <2>1, EngineAssumption, RoomAssumption
    <2>3. \A r \in Rounds : ~Started(r)'
      BY <1>2, <2>1 DEF Started
    <2> QED
      BY <2>2, <2>3 DEF QuestionsInv
  <1>6. CASE PushQuestion
    <2>1. /\ mc.pc = "push" /\ mc.pushed < mc.size /\ mc' = [mc EXCEPT !.pushed = @ + 1]
          /\ questions' = Append(questions, <<1, mc.pushed + 1>>)
          /\ createdQ' = createdQ /\ asked' = asked
      BY <1>1, <1>4, <1>6 DEF PushQuestion, Published, clientVars
    <2>2. mc.pushed \in Nat /\ mc.size \in Nat /\ Len(questions) = mc.pushed
      BY <1>2, <1>3, <2>1, RoomAssumption DEF Selection
    <2>3. mc'.pc = "push" /\ mc'.pushed = mc.pushed + 1 /\ mc'.size = mc.size
      BY <1>3, <2>1 DEF Selection
    <2>4. Len(questions') = mc'.pushed /\ mc'.pushed <= mc'.size
      BY <1>3, <2>1, <2>2, <2>3
    <2>5. \A i \in 1..Len(questions') : questions'[i] = <<1, i>>
      BY <1>2, <1>3, <2>1, <2>2
    <2>6. \A r \in Rounds : ~Started(r)'
      BY <1>2, <1>4, <2>1 DEF Started
    <2> QED
      BY <2>3, <2>4, <2>5, <2>6 DEF QuestionsInv
  <1>7. CASE BeginMatch
    <2>1. mc.pc = "push" /\ mc.pushed = mc.size /\ Len(questions) = mc.size /\ questions' = questions
      BY <1>2, <1>7 DEF BeginMatch
    <2>2. \A r \in Rounds : ~Started(r)
      BY <1>2, <1>4, <2>1
    <2>3. mc.size \in 0..TotalRounds
      BY <1>3, SelectionFacts
    <2>4. CASE mc.size > 0
      <3>1. /\ mc' = [mc EXCEPT !.pc = "arm"] /\ asked' = [asked EXCEPT ![1] = <<1, 1>>]
            /\ createdQ' = createdQ
        BY <1>4, <1>7, <2>1, <2>4 DEF BeginMatch, OpenRound
      <3>2. mc'.pc = "arm"
        BY <1>3, <3>1 DEF Selection
      <3>3. \A r \in Rounds : Started(r)' => r = 1
        BY <1>7, <2>2, BeginMatchOpens DEF CalmInv
      <3>4. 1 \in Rounds /\ asked'[1] = <<1, 1>> /\ 1 <= Len(questions')
        BY <1>3, <2>1, <2>3, <2>4, <3>1, RoomAssumption DEF Rounds
      <3> QED
        BY <1>2, <2>1, <3>2, <3>3, <3>4 DEF QuestionsInv
    <2>5. CASE mc.size = 0
      <3>1. mc' = NoSelection /\ createdQ' = FALSE /\ asked' = asked
        BY <1>7, <2>3, <2>5 DEF BeginMatch
      <3> QED
        BY <1>2, <2>1, <2>2, <3>1 DEF QuestionsInv, NoSelection, Started
    <2> QED
      BY <2>3, <2>4, <2>5, RoomAssumption
  <1>8. CASE ArmFirstRound
    <2>1. /\ mc' = NoSelection /\ createdQ' = FALSE /\ asked' = asked /\ questions' = questions
      BY <1>8 DEF ArmFirstRound, redisVars, clientVars
    <2> QED
      BY <1>2, <2>1 DEF QuestionsInv, NoSelection, Started
  <1>9. ASSUME NEW r \in Rounds, WakeUp(r) PROVE QuestionsInv'
    <2>1. r > 1 /\ Started(r - 1) /\ r <= Len(questions) /\ r - 1 \in Rounds
      BY <1>9, RoomAssumption DEF WakeUp, CalmInv, EngineInv, RoundsInv, Rounds
    <2>2. questions[r] = <<1, r>>
      BY <1>2, <1>3, <2>1, RoomAssumption DEF Rounds
    <2>3. /\ asked' = [asked EXCEPT ![r] = <<1, r>>]
          /\ questions' = questions /\ mc' = mc /\ createdQ' = createdQ
      BY <1>9, <2>2 DEF WakeUp, OpenRound, mcVars
    <2>4. asked'[r] = <<1, r>> /\ \A t \in Rounds : t # r => asked'[t] = asked[t]
      BY <1>3, <2>3
    <2>5. \A t \in Rounds : Started(t)' => asked'[t] = <<1, t>> /\ t <= Len(questions')
                                            /\ (createdQ' => mc'.pc = "arm")
      BY <1>2, <2>1, <2>3, <2>4 DEF Started
    <2> QED
      BY <1>2, <2>3, <2>5 DEF QuestionsInv
  <1>10. CASE UNCHANGED <<questions, mcVars, asked>>
    BY <1>2, <1>10 DEF QuestionsInv, Started, mcVars
  <1> QED
    BY <1>1, <1>5, <1>6, <1>7, <1>8, <1>9, <1>10, QuestionsUnchanged DEF MatchCreatedStep

-----------------------------------------------------------------------------
(* A completion is appended to its queue: the message that is being handled *)
(* stays at the head, and only its handler reveals an answer.               *)
LEMMA CompletionsGrow ==
  ASSUME EngineInv, EngineNext, ~RoundCompletedStep, ~EngineFaultStep
  PROVE  /\ UNCHANGED <<revealed, ended, rcPc>>
         /\ completedQ # <<>> => completedQ' # <<>> /\ Head(completedQ') = Head(completedQ)
  <1> DEFINE Goal == /\ UNCHANGED <<revealed, ended, rcPc>>
                     /\ completedQ # <<>> =>
                          completedQ' # <<>> /\ Head(completedQ') = Head(completedQ)
  <1> USE DEF clientVars
  <1>1. completedQ \in Seq(Rounds)
    BY DEF EngineInv, EngineTypeOK, RoundCompletedTypeOK
  <1>2. MatchCreatedStep => Goal
    BY DEF MatchCreatedStep, SelectQuestions, PushQuestion, BeginMatch, ArmFirstRound
  <1>3. ASSUME NEW r \in Rounds, PublishTimeout(r) PROVE Goal
    <2>1. UNCHANGED <<revealed, ended, rcPc>>
      BY <1>3 DEF PublishTimeout
    <2>2. completedQ' = completedQ \/ completedQ' = Append(completedQ, r)
      BY <1>3 DEF PublishTimeout, Published
    <2> QED
      BY <1>1, <2>1, <2>2
  <1>4. ASSUME NEW c \in Call, PublishCompleted(c) PROVE Goal
    <2>1. UNCHANGED <<revealed, ended, rcPc>>
      BY <1>4 DEF PublishCompleted
    <2>2. completedQ' = completedQ \/ completedQ' = Append(completedQ, call[c].ans.round)
      BY <1>4 DEF PublishCompleted, Published
    <2>3. call[c].ans.round \in Rounds
      BY <1>4, CallFacts
      DEF PublishCompleted, EngineInv, EngineTypeOK, CallTypeOK, Answer
    <2> QED
      BY <1>1, <2>1, <2>2, <2>3
  <1>5. FireTimer \/ (\E r \in Rounds : WakeUp(r) \/ ArmRound(r)) => Goal
    BY DEF FireTimer, WakeUp, ArmRound
  <1>6. ASSUME NEW c \in Call, ~PublishCompleted(c),
               CallStep(c) \/ \E a \in Answer : ValidateAnswer(c, a)
        PROVE  Goal
    BY <1>6 DEF CallStep, StoreAnswer, PublishAnswer, CheckAllAnswered, StopTimer,
       ValidateAnswer
  <1> QED
    BY <1>2, <1>3, <1>4, <1>5, <1>6 DEF EngineNext, TimerStep

(* Only ScheduleNext puts a goroutine to sleep. *)
LEMMA SleepingUnchanged ==
  ASSUME EngineNext, ~ScheduleNext, ~EngineFaultStep, ~ \E r \in Rounds : WakeUp(r)
  PROVE  sleeping' = sleeping
  <1> USE DEF timerVars
  <1>1. MatchCreatedStep => sleeping' = sleeping
    BY DEF MatchCreatedStep, SelectQuestions, PushQuestion, BeginMatch, ArmFirstRound
  <1>2. RoundCompletedStep => sleeping' = sleeping
    BY DEF RoundCompletedStep, RevealRound, NoNextQuestion, EndMatch, FinishMatch, AckCompleted
  <1>3. TimerStep => sleeping' = sleeping
    BY DEF TimerStep, FireTimer, PublishTimeout, ArmRound
  <1>4. ASSUME NEW c \in Call, CallStep(c) \/ \E a \in Answer : ValidateAnswer(c, a)
        PROVE  sleeping' = sleeping
    BY <1>4 DEF CallStep, StoreAnswer, PublishAnswer, CheckAllAnswered, StopTimer,
       PublishCompleted, ValidateAnswer
  <1> QED
    BY <1>1, <1>2, <1>3, <1>4 DEF EngineNext

(* The handler of a completion reveals the answer of the round before it    *)
(* lets the next one be opened.                                             *)
LEMMA RevealedStep ==
  ASSUME CalmInv, EngineNext
  PROVE  RevealedInv'
  <1> SUFFICES ASSUME faults' = 0 PROVE RevealedInv'
    BY DEF RevealedInv
  <1>1. faults = 0 /\ faults' = faults /\ ~Fault /\ ~EngineFaultStep
    BY CalmFacts DEF CalmInv
  <1>2. /\ rcPc # "idle" => revealed[Head(completedQ)] # NoQuestion
        /\ \A r \in Rounds :
             /\ revealed[r] # NoQuestion => Started(r) /\ revealed[r] = <<1, r>>
             /\ r > 1 /\ (sleeping[r] > 0 \/ Started(r)) => revealed[r - 1] # NoQuestion
    BY <1>1 DEF CalmInv, RevealedInv
  <1>3. /\ revealed \in [Rounds -> Question \cup {NoQuestion}]
        /\ asked \in [Rounds -> Question \cup {NoQuestion}]
        /\ sleeping \in [Rounds -> Nat]
        /\ completedQ \in Seq(Rounds)
        /\ rcPc # "idle" => completedQ # <<>>
    BY DEF CalmInv, EngineInv, EngineTypeOK, ClientTypeOK, TimerTypeOK, RoundCompletedTypeOK,
       HandlersInv
  <1>4. completedQ # <<>> => Head(completedQ) \in Rounds /\ Started(Head(completedQ))
    BY <1>3 DEF CalmInv, EngineInv, RoundsInv
  (* What is left when only some of the variables change. *)
  <1>5. ASSUME asked' = asked, revealed' = revealed, sleeping' = sleeping,
               rcPc' # "idle" => rcPc # "idle" /\ Head(completedQ') = Head(completedQ)
        PROVE  RevealedInv'
    BY <1>2, <1>5 DEF RevealedInv, Started
  <1>6. CASE RevealRound
    <2> DEFINE h == Head(completedQ)
    <2>1. h \in Rounds /\ Started(h) /\ completedQ' = completedQ
      BY <1>4, <1>6 DEF RevealRound
    <2>2. h <= Len(questions) /\ questions[h] = <<1, h>>
      BY <1>1, <2>1, RoomAssumption
      DEF CalmInv, QuestionsInv, EngineInv, EngineTypeOK, RedisTypeOK, Rounds
    <2>3. revealed' = [revealed EXCEPT ![h] = questions[h]]
      <3>1. questions \in Seq(Question) /\ ~(h > Len(questions))
        BY <2>1, <2>2, RoomAssumption DEF CalmInv, EngineInv, EngineTypeOK, RedisTypeOK, Rounds
      <3> QED
        BY <1>1, <1>6, <3>1 DEF RevealRound
    <2>4. asked' = asked /\ sleeping' = sleeping
      BY <1>6 DEF RevealRound, timerVars
    <2> HIDE DEF h
    <2>5. <<1, h>> # NoQuestion
      BY DEF NoQuestion
    <2>6. revealed'[h] = <<1, h>> /\ \A r \in Rounds : r # h => revealed'[r] = revealed[r]
      BY <1>3, <2>1, <2>2, <2>3
    <2>7. \A r \in Rounds : revealed[r] # NoQuestion => revealed'[r] # NoQuestion
      BY <2>5, <2>6
    <2>8. \A r \in Rounds : revealed'[r] # NoQuestion => Started(r) /\ revealed'[r] = <<1, r>>
      BY <1>2, <2>1, <2>6
    <2>9. \A r \in Rounds :
            r > 1 /\ (sleeping[r] > 0 \/ Started(r)) => revealed'[r - 1] # NoQuestion
      BY <1>2, <2>7, RoomAssumption DEF Rounds
    <2>10. revealed'[Head(completedQ')] # NoQuestion
      BY <2>1, <2>5, <2>6 DEF h
    <2> QED
      BY <2>4, <2>8, <2>9, <2>10 DEF RevealedInv, Started
  <1>7. CASE ScheduleNext
    <2> DEFINE n == Head(completedQ) + 1
    <2>1. /\ rcPc = "revealed" /\ rcPc' = "idle" /\ Head(completedQ) < TotalRounds
          /\ sleeping' = [sleeping EXCEPT ![n] = @ + 1]
          /\ asked' = asked /\ revealed' = revealed
      BY <1>7 DEF ScheduleNext, clientVars
    <2>2. n \in Rounds /\ n > 1 /\ n - 1 = Head(completedQ)
      BY SMTT(30), <1>3, <1>4, <2>1, RoomAssumption DEF Rounds
    <2>3. revealed[n - 1] # NoQuestion
      BY <1>2, <2>1, <2>2
    <2> HIDE DEF n
    <2>4. \A r \in Rounds : r # n => sleeping'[r] = sleeping[r]
      BY <1>3, <2>1
    <2> QED
      BY <1>2, <2>1, <2>3, <2>4 DEF RevealedInv, Started
  <1>8. CASE NoNextQuestion
    BY <1>5, <1>8 DEF NoNextQuestion, clientVars, timerVars
  <1>9. CASE EndMatch
    BY <1>5, <1>9 DEF EndMatch, timerVars
  <1>10. CASE FinishMatch
    BY <1>5, <1>10 DEF FinishMatch, clientVars, timerVars
  <1>11. CASE AckCompleted
    BY <1>5, <1>11 DEF AckCompleted, clientVars, timerVars
  <1>12. ASSUME NEW r \in Rounds, WakeUp(r) PROVE RevealedInv'
    <2>1. /\ sleeping[r] > 0 /\ sleeping' = [sleeping EXCEPT ![r] = @ - 1]
          /\ revealed' = revealed /\ completedQ' = completedQ /\ rcPc' = rcPc
      BY <1>12 DEF WakeUp
    <2>2. r > 1 /\ revealed[r - 1] # NoQuestion
      BY <1>2, <2>1, <1>12 DEF CalmInv, EngineInv, RoundsInv
    <2>3. \A s \in Rounds : s # r => sleeping'[s] = sleeping[s] /\ (Started(s)' <=> Started(s))
      BY <1>3, <1>12, <2>1, WakeUpOpens DEF CalmInv
    <2>4. \A s \in Rounds : Started(s) => Started(s)'
      BY StaysStarted DEF CalmInv
    <2> QED
      BY <1>2, <2>1, <2>2, <2>3, <2>4 DEF RevealedInv
  <1>13. CASE BeginMatch
    <2>1. revealed' = revealed /\ completedQ' = completedQ /\ rcPc' = rcPc /\ sleeping' = sleeping
      BY <1>13 DEF BeginMatch, timerVars
    <2>2. \A s \in Rounds : s # 1 => (Started(s)' <=> Started(s))
      BY <1>13, BeginMatchOpens DEF CalmInv
    <2>3. \A s \in Rounds : Started(s) => Started(s)'
      BY StaysStarted DEF CalmInv
    <2>4. \A s \in Rounds : s > 1 => s # 1
      OBVIOUS
    <2> QED
      BY <1>2, <2>1, <2>2, <2>3, <2>4 DEF RevealedInv
  <1>14. CASE ~RoundCompletedStep /\ ~BeginMatch /\ ~ \E r \in Rounds : WakeUp(r)
    <2>1. asked' = asked
      BY <1>14, AskedUnchanged
    <2>2. revealed' = revealed /\ rcPc' = rcPc
          /\ (completedQ # <<>> => Head(completedQ') = Head(completedQ))
      BY <1>1, <1>14, CompletionsGrow DEF CalmInv
    <2>3. sleeping' = sleeping
      BY <1>1, <1>14, SleepingUnchanged DEF RoundCompletedStep
    <2> QED
      BY <1>3, <1>5, <2>1, <2>2, <2>3
  <1> QED
    BY <1>6, <1>7, <1>8, <1>9, <1>10, <1>11, <1>12, <1>13, <1>14 DEF RoundCompletedStep

-----------------------------------------------------------------------------
(* A full selection is pushed in full before round 1 is opened.             *)
LEMMA FullStep ==
  ASSUME CalmInv, EngineNext
  PROVE  FullInv'
  <1> SUFFICES ASSUME faults' = 0, FullSelections PROVE FullInv'
    BY DEF FullInv, FullSelections
  <1>1. faults = 0 /\ ~Fault /\ ~EngineFaultStep
    BY CalmFacts DEF CalmInv
  <1>2. /\ mc.pc # "idle" => mc.size = TotalRounds
        /\ \A r \in Rounds : Started(r) => Len(questions) = TotalRounds
        /\ rcPc \in {"ended", "finished"} => ended
    BY <1>1 DEF CalmInv, FullInv
  <1>3. /\ createdQ /\ mc.pc = "idle" => questions = <<>>
        /\ mc.pc = "push" => Len(questions) = mc.pushed
        /\ \A r \in Rounds : Started(r) /\ createdQ => mc.pc = "arm"
        /\ mc \in Selection
        /\ mc.pc # "idle" => createdQ
    BY <1>1 DEF CalmInv, QuestionsInv, EngineInv, HandlersInv, EngineTypeOK, MatchCreatedTypeOK
  <1>4. rcPc' \in {"ended", "finished"} => ended'
    <2>1. CASE RoundCompletedStep
      <3> USE DEF clientVars
      <3>1. EndMatch => ended'
        BY <1>1 DEF EndMatch
      <3>2. FinishMatch => ended'
        BY <1>2 DEF FinishMatch
      <3>3. RoundCompletedStep /\ ~EndMatch /\ ~FinishMatch => rcPc' \in {"idle", "revealed"}
        BY DEF RoundCompletedStep, RevealRound, ScheduleNext, NoNextQuestion, AckCompleted
      <3> QED
        BY <2>1, <3>1, <3>2, <3>3
    <2>2. CASE ~RoundCompletedStep
      BY <1>1, <1>2, <2>2, CompletionsGrow DEF CalmInv
    <2> QED
      BY <2>1, <2>2
  <1>5. CASE SelectQuestions
    <2>1. /\ createdQ /\ mc.pc = "idle" /\ asked' = asked
          /\ \E n \in QuestionCounts : mc' = [pc |-> "push", size |-> n, pushed |-> 0]
      BY <1>5 DEF SelectQuestions, clientVars
    <2>2. mc'.size = TotalRounds
      BY <2>1 DEF FullSelections
    <2>3. \A r \in Rounds : ~Started(r)'
      BY <1>3, <2>1 DEF Started
    <2> QED
      BY <1>4, <2>2, <2>3 DEF FullInv
  <1>6. CASE PushQuestion
    <2>1. mc.pc = "push" /\ mc' = [mc EXCEPT !.pushed = @ + 1] /\ asked' = asked
      BY <1>6 DEF PushQuestion, clientVars
    <2>2. mc'.size = mc.size
      BY <1>3, <2>1 DEF Selection
    <2>3. \A r \in Rounds : ~Started(r)'
      BY <1>3, <2>1 DEF Started
    <2> QED
      BY <1>2, <1>4, <2>1, <2>2, <2>3 DEF FullInv
  <1>7. CASE BeginMatch
    <2>1. mc.pc = "push" /\ Len(questions) = mc.size /\ questions' = questions
      BY <1>3, <1>7 DEF BeginMatch
    <2>2. mc'.pc # "idle" => mc'.size = mc.size
      <3>1. mc' = [mc EXCEPT !.pc = "arm"] \/ mc' = NoSelection
        BY <1>7 DEF BeginMatch
      <3>2. [mc EXCEPT !.pc = "arm"].size = mc.size /\ NoSelection.pc = "idle"
        BY <1>3 DEF Selection, NoSelection
      <3> QED
        BY <3>1, <3>2
    <2> QED
      BY <1>2, <1>4, <2>1, <2>2 DEF FullInv
  <1>8. CASE ArmFirstRound
    BY <1>2, <1>4, <1>8 DEF ArmFirstRound, NoSelection, redisVars, clientVars, FullInv, Started
  <1>9. ASSUME NEW r \in Rounds, WakeUp(r) PROVE FullInv'
    <2>1. Started(r - 1) /\ r - 1 \in Rounds
      BY <1>9, RoomAssumption DEF WakeUp, CalmInv, EngineInv, RoundsInv, Rounds
    <2>2. Len(questions) = TotalRounds
      BY <1>2, <2>1
    <2>3. questions' = questions /\ mc' = mc
      BY <1>9 DEF WakeUp, mcVars
    <2> QED
      BY <1>2, <1>4, <2>2, <2>3 DEF FullInv
  <1>10. CASE UNCHANGED <<questions, mcVars, asked>>
    BY <1>2, <1>4, <1>10 DEF FullInv, Started, mcVars
  <1> QED
    BY <1>1, <1>5, <1>6, <1>7, <1>8, <1>9, <1>10, QuestionsUnchanged DEF MatchCreatedStep

-----------------------------------------------------------------------------
(* A queue a message was just published to is not empty. *)
LEMMA AppendedIsNotEmpty ==
  ASSUME NEW S, NEW q \in Seq(S), NEW x \in S
  PROVE  Append(q, x) # <<>>
  <1>1. Len(Append(q, x)) = Len(q) + 1 /\ Len(q) \in Nat
    OBVIOUS
  <1> QED
    BY <1>1

(* What moves the match on is handed over: from match.created to the timer, *)
(* from a timer or a call to round.completed, from there to the goroutine   *)
(* of the next round, and from it to a timer again.                         *)
LEMMA StuckStep ==
  ASSUME CalmInv, EngineNext
  PROVE  NeverStuck'
  <1> SUFFICES ASSUME faults' = 0, FullSelections PROVE ended' \/ WillMove'
    BY DEF NeverStuck, FullSelections
  <1>1. faults = 0 /\ ~Fault /\ ~EngineFaultStep
    BY CalmFacts DEF CalmInv
  <1>2. ended \/ WillMove
    BY <1>1 DEF CalmInv, NeverStuck
  <1>3. /\ mc.pc # "idle" => mc.size = TotalRounds /\ createdQ
        /\ \A r \in Rounds : Started(r) => Len(questions) = TotalRounds
        /\ rcPc = "finished" => ended
    BY <1>1 DEF CalmInv, FullInv, EngineInv, HandlersInv
  <1>4. /\ completedQ \in Seq(Rounds)
        /\ fired \in [Rounds -> Nat] /\ sleeping \in [Rounds -> Nat] /\ arming \in [Rounds -> Nat]
        /\ timer \in 0..TotalRounds
        /\ call \in [Call -> InFlight \cup {NoCall}]
    BY DEF CalmInv, EngineInv, EngineTypeOK, RoundCompletedTypeOK, TimerTypeOK, CallTypeOK
  <1> USE DEF sharedVars, redisVars, clientVars, timerVars, mcVars
  <1>5. CASE MatchCreatedStep
    <2>1. CASE SelectQuestions
      BY <2>1 DEF SelectQuestions, WillMove
    <2>2. CASE PushQuestion
      BY <1>3, <2>2 DEF PushQuestion, WillMove
    <2>3. CASE BeginMatch
      <3>1. mc.size > 0 /\ createdQ
        BY <1>3, <2>3, RoomAssumption DEF BeginMatch
      <3>2. createdQ' = createdQ
        BY <2>3, <3>1 DEF BeginMatch
      <3> QED
        BY <3>1, <3>2 DEF WillMove
    <2>4. CASE ArmFirstRound
      BY <2>4 DEF ArmFirstRound, ArmTimer, WillMove
    <2> QED
      BY <1>5, <2>1, <2>2, <2>3, <2>4 DEF MatchCreatedStep
  <1>6. CASE RoundCompletedStep
    <2>1. completedQ # <<>> /\ Head(completedQ) \in Rounds /\ Len(questions) = TotalRounds
      <3>1. completedQ # <<>>
        BY <1>6
        DEF RoundCompletedStep, RevealRound, ScheduleNext, NoNextQuestion, EndMatch, FinishMatch,
            AckCompleted, CalmInv, EngineInv, HandlersInv
      <3>2. Head(completedQ) \in Rounds /\ Started(Head(completedQ))
        BY <1>4, <3>1 DEF CalmInv, EngineInv, RoundsInv
      <3> QED
        BY <1>3, <3>1, <3>2
    <2>2. CASE RevealRound
      BY <2>1, <2>2 DEF RevealRound, WillMove
    <2>3. CASE ScheduleNext
      <3> DEFINE n == Head(completedQ) + 1
      <3>1. n \in Rounds /\ sleeping' = [sleeping EXCEPT ![n] = @ + 1]
        BY <2>1, <2>3, RoomAssumption DEF ScheduleNext, Rounds
      <3> HIDE DEF n
      <3>2. sleeping'[n] > 0
        BY <1>4, <3>1
      <3> QED
        BY <3>1, <3>2 DEF WillMove
    <2>4. CASE NoNextQuestion
      BY <2>1, <2>4, RoomAssumption DEF NoNextQuestion, Rounds
    <2>5. CASE EndMatch
      BY <1>1, <2>5 DEF EndMatch
    <2>6. CASE FinishMatch
      BY <2>1, <2>6 DEF FinishMatch, WillMove
    <2>7. CASE AckCompleted
      BY <1>3, <2>7 DEF AckCompleted
    <2> QED
      BY <1>6, <2>2, <2>3, <2>4, <2>5, <2>6, <2>7 DEF RoundCompletedStep
  (* The other steps leave ended, createdQ and completions that are there. *)
  <1>7. CASE FireTimer
    <2>1. timer \in Rounds /\ fired' = [fired EXCEPT ![timer] = @ + 1]
      BY <1>4, <1>7, RoomAssumption DEF FireTimer, Rounds
    <2>2. fired'[timer] > 0
      BY <1>4, <2>1
    <2> QED
      BY <2>1, <2>2 DEF WillMove
  <1>8. ASSUME NEW r \in Rounds, PublishTimeout(r) PROVE ended' \/ WillMove'
    <2>1. completedQ' = Append(completedQ, r)
      BY <1>1, <1>8 DEF PublishTimeout, Published
    <2>2. completedQ' # <<>>
      BY ONLY <1>4, <2>1, r \in Rounds, AppendedIsNotEmpty
    <2> QED
      BY <2>2 DEF WillMove
  <1>9. ASSUME NEW r \in Rounds, WakeUp(r) PROVE ended' \/ WillMove'
    <2>1. arming'[r] > 0
      BY <1>4, <1>9 DEF WakeUp
    <2> QED
      BY <2>1 DEF WillMove
  <1>10. ASSUME NEW r \in Rounds, ArmRound(r) PROVE ended' \/ WillMove'
    <2>1. timer' # 0
      BY <1>10, RoomAssumption DEF ArmRound, ArmTimer, Rounds
    <2> QED
      BY <2>1 DEF WillMove
  <1>11. ASSUME NEW c \in Call, StopTimer(c) PROVE ended' \/ WillMove'
    <2>1. call[c] \in InFlight /\ call' = [call EXCEPT ![c].pc = "stopped"]
      BY <1>4, <1>11, CallFacts DEF StopTimer
    <2>2. call'[c].pc = "stopped"
      BY <1>4, <2>1 DEF InFlight
    <2> QED
      BY <2>2 DEF WillMove
  <1>12. ASSUME NEW c \in Call, PublishCompleted(c) PROVE ended' \/ WillMove'
    <2>1. PICK r \in Rounds : completedQ' = Append(completedQ, r)
      BY <1>1, <1>4, <1>12, CallFacts DEF PublishCompleted, Published, Answer
    <2>2. completedQ' # <<>>
      BY ONLY <1>4, <2>1, r \in Rounds, AppendedIsNotEmpty
    <2> QED
      BY <2>2 DEF WillMove
  <1>13. ASSUME NEW c \in Call,
                \/ StoreAnswer(c) \/ PublishAnswer(c) \/ CheckAllAnswered(c)
                \/ \E a \in Answer : ValidateAnswer(c, a)
         PROVE  ended' \/ WillMove'
    <2>1. UNCHANGED <<ended, createdQ, completedQ, timer, fired, sleeping, arming>>
      BY <1>13 DEF StoreAnswer, PublishAnswer, CheckAllAnswered, ValidateAnswer
    <2>2. call[c].pc # "stopped"
      BY <1>4, <1>13, CallFacts DEF StoreAnswer, PublishAnswer, CheckAllAnswered, ValidateAnswer
    <2>3. \A d \in Call : d # c => call'[d] = call[d]
      BY <1>4, <1>13 DEF StoreAnswer, PublishAnswer, CheckAllAnswered, ValidateAnswer
    <2>4. \A d \in Call : call[d].pc = "stopped" => call'[d].pc = "stopped"
      BY <2>2, <2>3
    <2> QED
      BY <1>2, <2>1, <2>4 DEF WillMove
  <1> QED
    BY <1>1, <1>5, <1>6, <1>7, <1>8, <1>9, <1>10, <1>11, <1>12, <1>13
    DEF EngineNext, TimerStep, CallStep

-----------------------------------------------------------------------------
LEMMA CalmInvInit ==
  ASSUME EngineAloneInit
  PROVE  CalmInv
  <1>1. EngineInv
    BY EngineInvInit DEF EngineAloneInit
  <1>2. \A r \in Rounds : ~Started(r) /\ revealed[r] = NoQuestion /\ ~(sleeping[r] > 0)
    BY DEF EngineAloneInit, EngineInit, Started
  <1>3. QuestionsInv
    BY <1>2 DEF QuestionsInv, EngineAloneInit, EngineInit, NoSelection
  <1>4. RevealedInv /\ FullInv /\ NeverStuck
    BY <1>2 DEF RevealedInv, FullInv, NeverStuck, WillMove, EngineAloneInit, EngineInit, NoSelection
  <1> QED
    BY <1>1, <1>3, <1>4 DEF CalmInv

LEMMA CalmInvStep ==
  ASSUME CalmInv, EngineNext
  PROVE  CalmInv'
  BY EngineInvStep, QuestionsStep, RevealedStep, FullStep, StuckStep DEF CalmInv

LEMMA CalmInvStutter ==
  ASSUME CalmInv, UNCHANGED <<sharedVars, engineVars>>
  PROVE  CalmInv'
  <1> USE DEF sharedVars, engineVars, redisVars, clientVars, timerVars, mcVars, CalmInv
  <1>1. EngineInv'
    BY EngineInvStutter
  <1>2. QuestionsInv' /\ RevealedInv'
    BY DEF QuestionsInv, RevealedInv, Started
  <1>3. FullInv' /\ NeverStuck'
    BY DEF FullInv, NeverStuck, FullSelections, WillMove, Started
  <1> QED
    BY <1>1, <1>2, <1>3

LEMMA CalmInvariance == EngineSpec => []CalmInv
  <1>1. EngineAloneInit => CalmInv
    BY CalmInvInit
  <1>2. CalmInv /\ [EngineNext]_<<sharedVars, engineVars>> => CalmInv'
    BY CalmInvStep, CalmInvStutter
  <1> QED
    BY <1>1, <1>2, PTL DEF EngineSpec

(* As long as nothing has failed, and for any number of rounds and answers, *)
(* the answer of a round is revealed before the next round is opened, and   *)
(* it is the answer to the question the players were asked: the list that   *)
(* rounds are read from again and again is not touched after the first      *)
(* round was opened (match_created.go:63-68, round_completed.go:56-91).     *)
THEOREM AnswersAreRevealedInTime == EngineSpec => []RevealedBeforeNext
  <1>1. ASSUME CalmInv PROVE RevealedBeforeNext
    <2>1. \A r \in Rounds : r < TotalRounds => r + 1 \in Rounds /\ r + 1 > 1 /\ (r + 1) - 1 = r
      BY RoomAssumption DEF Rounds
    <2> QED
      BY <1>1, <2>1 DEF CalmInv, QuestionsInv, RevealedInv, RevealedBeforeNext
  <1> QED
    BY <1>1, CalmInvariance, PTL

(* As long as nothing has failed and the database has questions enough, a   *)
(* match that is not over always has something under way that moves it on,  *)
(* although CompleteRound stops whichever timer the room has (round.go:     *)
(* 143-149): the call that stopped it publishes round.completed itself.     *)
THEOREM MatchIsNeverStuck == EngineSpec => []NeverStuck
  <1>1. CalmInv => NeverStuck
    BY DEF CalmInv
  <1> QED
    BY <1>1, CalmInvariance, PTL
=============================================================================
