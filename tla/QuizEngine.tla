----------------------------- MODULE QuizEngine -----------------------------
(***************************************************************************)
(* The quiz engine of one room: the match.created and round.completed       *)
(* consumers, the round manager with its in-memory timer, and the           *)
(* SubmitAnswer RPC.  One action per step between two accesses to shared    *)
(* state (Redis, a queue, the timer map), so that every interleaving of     *)
(* the goroutines is a behaviour.                                           *)
(***************************************************************************)
EXTENDS Room

CONSTANTS
  Call,           \* slots for SubmitAnswer RPCs in flight at the same time
  QuestionCounts  \* how many questions a selection may come back with

ASSUME EngineAssumption ==
  QuestionCounts \subseteq 0..TotalRounds

VARIABLES
  \* Redis
  roomState,   \* room:{id}:state
  roundKey,    \* room:{id}:round
  questions,   \* room:{id}:questions, the list the rounds are read from
  answers,     \* room:{id}:answers:{round} for all rounds
  \* RabbitMQ
  createdQ,    \* is match.created of this room unacknowledged?
  completedQ,  \* round-completed-queue, the round of every message
  \* what the clients have been sent
  asked,       \* the question last broadcast for every round
  revealed,    \* the question whose answer was last revealed for every round
  ended,       \* has MatchEnd been broadcast?
  standings,   \* the scores the last MatchEnd carried
  \* memory of the process
  timer,       \* timers[roomID]: the round whose timer runs, 0 for none
  fired,       \* timer callbacks that have fired and not yet published
  sleeping,    \* goroutines in the 5 s pause before the round they start
  arming,      \* StartRound calls between their broadcast and their timer
  call,        \* the SubmitAnswer RPCs
  selections,  \* selections of questions made so far
  mc,          \* the match.created handler
  rcPc         \* the round.completed handler

redisVars  == <<roomState, roundKey, questions, answers>>
clientVars == <<asked, revealed, ended, standings>>
timerVars  == <<timer, fired, sleeping, arming>>
mcVars     == <<createdQ, selections, mc>>
engineVars == <<redisVars, clientVars, timerVars, mcVars, completedQ, call, rcPc>>

-----------------------------------------------------------------------------
(* A question is named by the selection it came from and its place in it.   *)
Question   == (1..(MaxFaults + 1)) \X Rounds
NoQuestion == <<0, 0>>

Started(r) == asked[r] # NoQuestion

NoCall == [pc |-> "idle"]
InFlight ==
  [pc : {"validated", "stored", "published", "completing", "stopped"}, ans : Answer]

(* How far the match.created handler has come: how many questions it has    *)
(* selected, and how many of them it has pushed.                            *)
Selection == [pc : {"idle", "push", "arm"}, size : 0..TotalRounds, pushed : 0..TotalRounds]
NoSelection == [pc |-> "idle", size |-> 0, pushed |-> 0]

RedisTypeOK ==
  /\ roomState \in {"waiting", "in_progress", "finished"}
  /\ roundKey \in 0..TotalRounds
  /\ questions \in Seq(Question)
  /\ answers \subseteq Answer

ClientTypeOK ==
  /\ asked \in [Rounds -> Question \cup {NoQuestion}]
  /\ revealed \in [Rounds -> Question \cup {NoQuestion}]
  /\ ended \in BOOLEAN
  /\ standings \in [Player -> Nat]

TimerTypeOK ==
  /\ timer \in 0..TotalRounds
  /\ fired \in [Rounds -> Nat]
  /\ sleeping \in [Rounds -> Nat]
  /\ arming \in [Rounds -> Nat]

MatchCreatedTypeOK ==
  /\ createdQ \in BOOLEAN
  /\ selections \in 0..(MaxFaults + 1)
  /\ mc \in Selection

RoundCompletedTypeOK ==
  /\ completedQ \in Seq(Rounds)
  /\ rcPc \in {"idle", "revealed", "ended", "finished"}

CallTypeOK == call \in [Call -> InFlight \cup {NoCall}]

(* Every variable of the engine has its type. *)
EngineTypeOK ==
  /\ SharedTypeOK
  /\ RedisTypeOK
  /\ ClientTypeOK
  /\ TimerTypeOK
  /\ MatchCreatedTypeOK
  /\ RoundCompletedTypeOK
  /\ CallTypeOK

(* A room as CreateRoom left it, with its match.created on the queue. *)
EngineInit ==
  /\ roomState = "waiting"
  /\ roundKey = 0
  /\ questions = <<>>
  /\ answers = {}
  /\ createdQ = TRUE
  /\ completedQ = <<>>
  /\ asked = [r \in Rounds |-> NoQuestion]
  /\ revealed = [r \in Rounds |-> NoQuestion]
  /\ ended = FALSE
  /\ standings = [u \in Player |-> 0]
  /\ timer = 0
  /\ fired = [r \in Rounds |-> 0]
  /\ sleeping = [r \in Rounds |-> 0]
  /\ arming = [r \in Rounds |-> 0]
  /\ call = [c \in Call |-> NoCall]
  /\ selections = 0
  /\ mc = NoSelection
  /\ rcPc = "idle"

-----------------------------------------------------------------------------
(* StartRound: the round key is set (an error is ignored) and the question  *)
(* broadcast, ...                                                           *)
OpenRound(r, q) ==
  /\ \/ roundKey' = r /\ UNCHANGED faults
     \/ UNCHANGED roundKey /\ Fault
  /\ asked' = [asked EXCEPT ![r] = q]

(* Mutant: the first timer of a room is kept. *)
KeepNoTimer(r) == UNCHANGED timer

(* ... then the timer of the room is replaced by a timer for the round.     *)
ArmTimer(r) == timer' = r

-----------------------------------------------------------------------------
(* Mutant: the consumer takes the message again while it is being handled. *)
SelectAgain ==
  /\ createdQ
  /\ \E n \in QuestionCounts : mc' = [pc |-> "push", size |-> n, pushed |-> 0]
  /\ selections' = selections + 1
  /\ UNCHANGED <<sharedVars, redisVars, clientVars, timerVars, createdQ, completedQ, call, rcPc>>

(* The match.created handler.  A message redelivered after a crash selects  *)
(* anew and pushes behind what is already in the list.                      *)
SelectQuestions ==
  /\ createdQ
  /\ mc.pc = "idle"
  /\ \E n \in QuestionCounts : mc' = [pc |-> "push", size |-> n, pushed |-> 0]
  /\ selections' = selections + 1
  /\ UNCHANGED <<sharedVars, redisVars, clientVars, timerVars, createdQ, completedQ, call, rcPc>>

(* The selection fails: the message goes to the dead-letter queue. *)
SelectFails ==
  /\ createdQ
  /\ mc.pc = "idle"
  /\ Fault
  /\ createdQ' = FALSE
  /\ UNCHANGED <<leaderboard, answerQ, finishedQ, redisVars, clientVars, timerVars,
                 selections, mc, completedQ, call, rcPc>>

(* RPUSH of the next question id; an error is ignored and the id is lost.   *)
PushQuestion ==
  /\ mc.pc = "push"
  /\ mc.pushed < mc.size
  /\ mc' = [mc EXCEPT !.pushed = @ + 1]
  /\ Published(questions, questions', <<selections, mc.pushed + 1>>)
  /\ UNCHANGED <<leaderboard, answerQ, finishedQ, roomState, roundKey, answers, clientVars,
                 timerVars, createdQ, selections, completedQ, call, rcPc>>

(* RPUSH took place but its reply is lost, and the client sends it again:   *)
(* the list gets the question twice.                                        *)
PushResent ==
  /\ mc.pc = "push"
  /\ mc.pushed < mc.size
  /\ Fault
  /\ questions' = Append(questions, <<selections, mc.pushed + 1>>)
  /\ UNCHANGED <<leaderboard, answerQ, finishedQ, roomState, roundKey, answers, clientVars,
                 timerVars, mcVars, completedQ, call, rcPc>>

(* All pushed: the questions are cached, the room is in progress and round  *)
(* 1 is opened with the first question of this selection.  Without any      *)
(* question the handler succeeds and nothing is started.                    *)
BeginMatch ==
  /\ mc.pc = "push"
  /\ mc.pushed = mc.size
  /\ roomState' = "in_progress"
  /\ IF mc.size > 0
     THEN /\ OpenRound(1, <<selections, 1>>)
          /\ mc' = [mc EXCEPT !.pc = "arm"]
          /\ UNCHANGED createdQ
     ELSE /\ mc' = NoSelection
          /\ createdQ' = FALSE
          /\ UNCHANGED <<faults, roundKey, asked>>
  /\ UNCHANGED <<leaderboard, answerQ, finishedQ, questions, answers, revealed, ended,
                 standings, timerVars, selections, completedQ, call, rcPc>>

(* The timer of round 1 starts and the message is acknowledged.  No step    *)
(* can tell the two apart: a crash between them forgets the timer.          *)
ArmFirstRound ==
  /\ mc.pc = "arm"
  /\ ArmTimer(1)
  /\ mc' = NoSelection
  /\ createdQ' = FALSE
  /\ UNCHANGED <<sharedVars, redisVars, clientVars, fired, sleeping, arming, selections,
                 completedQ, call, rcPc>>

-----------------------------------------------------------------------------
(* SubmitAnswer.  A client answers a round it has been asked; the round is  *)
(* compared with the round key once, before the answer is stored.           *)
ValidateAnswer(c, a) ==
  /\ call[c] = NoCall
  /\ Started(a.round)
  /\ roundKey = a.round
  /\ call' = [call EXCEPT ![c] = [pc |-> "validated", ans |-> a]]
  /\ UNCHANGED <<sharedVars, redisVars, clientVars, timerVars, mcVars, completedQ, rcPc>>

HasAnswered(u, r) == \E a \in answers : a.round = r /\ a.player = u

(* Mutant: HSET instead of HSETNX. *)
WithLatestAnswer(a) == {b \in answers : b.round # a.round \/ b.player # a.player} \cup {a}

(* HSETNX: the first answer of a player to a round is kept, a later one     *)
(* changes nothing.                                                         *)
WithAnswer(a) == IF HasAnswered(a.player, a.round) THEN answers ELSE answers \cup {a}

StoreAnswer(c) ==
  /\ call[c].pc = "validated"
  /\ answers' = WithAnswer(call[c].ans)
  /\ call' = IF HasAnswered(call[c].ans.player, call[c].ans.round)
             THEN [call EXCEPT ![c] = NoCall]  \* already_answered
             ELSE [call EXCEPT ![c].pc = "stored"]
  /\ UNCHANGED <<sharedVars, roomState, roundKey, questions, clientVars, timerVars, mcVars,
                 completedQ, rcPc>>

(* Redis does not reply: the RPC fails, whether or not HSETNX took place.   *)
(* When the client then sends HSETNX again and finds the field it set       *)
(* itself, the RPC answers already_answered, and the state is the same.     *)
StoreFails(c) ==
  /\ call[c].pc = "validated"
  /\ Fault
  /\ answers' \in {answers, WithAnswer(call[c].ans)}
  /\ call' = [call EXCEPT ![c] = NoCall]
  /\ UNCHANGED <<leaderboard, answerQ, finishedQ, roomState, roundKey, questions, clientVars,
                 timerVars, mcVars, completedQ, rcPc>>

(* Mutant: the answer that completes the round takes another path. *)
PublishUnlessLast(c) ==
  /\ call[c].pc = "stored"
  /\ LET a == call[c].ans
     IN  IF Cardinality({b \in answers : b.round = a.round}) < Cardinality(Player)
         THEN Published(answerQ, answerQ', a)
         ELSE UNCHANGED <<answerQ, faults>>
  /\ call' = [call EXCEPT ![c].pc = "published"]
  /\ UNCHANGED <<leaderboard, finishedQ, redisVars, clientVars, timerVars, mcVars,
                 completedQ, rcPc>>

PublishAnswer(c) ==
  /\ call[c].pc = "stored"
  /\ Published(answerQ, answerQ', call[c].ans)
  /\ call' = [call EXCEPT ![c].pc = "published"]
  /\ UNCHANGED <<leaderboard, finishedQ, redisVars, clientVars, timerVars, mcVars,
                 completedQ, rcPc>>

(* CheckAllAnswered compares the sizes of two hashes; when it cannot read   *)
(* them the error is ignored and the answer is no.                          *)
AllAnswered(r) ==
  Cardinality({a \in answers : a.round = r}) >= Cardinality(Player)

CheckAllAnswered(c) ==
  /\ call[c].pc = "published"
  /\ call' = [call EXCEPT ![c] =
                IF AllAnswered(@.ans.round) THEN [@ EXCEPT !.pc = "completing"] ELSE NoCall]
  /\ UNCHANGED <<sharedVars, redisVars, clientVars, timerVars, mcVars, completedQ, rcPc>>

CheckFails(c) ==
  /\ call[c].pc = "published"
  /\ Fault
  /\ call' = [call EXCEPT ![c] = NoCall]
  /\ UNCHANGED <<leaderboard, answerQ, finishedQ, redisVars, clientVars, timerVars, mcVars,
                 completedQ, rcPc>>

(* CompleteRound stops the timer of the room, whichever round it is for, ... *)
StopTimer(c) ==
  /\ call[c].pc = "completing"
  /\ timer' = 0
  /\ call' = [call EXCEPT ![c].pc = "stopped"]
  /\ UNCHANGED <<sharedVars, redisVars, clientVars, fired, sleeping, arming, mcVars,
                 completedQ, rcPc>>

(* Mutant: a call whose round is no longer current publishes nothing. *)
PublishIfCurrent(c) ==
  /\ call[c].pc = "stopped"
  /\ IF roundKey = call[c].ans.round
     THEN Published(completedQ, completedQ', call[c].ans.round)
     ELSE UNCHANGED <<completedQ, faults>>
  /\ call' = [call EXCEPT ![c] = NoCall]
  /\ UNCHANGED <<leaderboard, answerQ, finishedQ, redisVars, clientVars, timerVars, mcVars,
                 rcPc>>

(* ... and publishes round.completed. *)
PublishCompleted(c) ==
  /\ call[c].pc = "stopped"
  /\ Published(completedQ, completedQ', call[c].ans.round)
  /\ call' = [call EXCEPT ![c] = NoCall]
  /\ UNCHANGED <<leaderboard, answerQ, finishedQ, redisVars, clientVars, timerVars, mcVars,
                 rcPc>>

-----------------------------------------------------------------------------
(* The timer runs out: its callback becomes a goroutine that no Stop ends.  *)
FireTimer ==
  /\ timer # 0
  /\ fired' = [fired EXCEPT ![timer] = @ + 1]
  /\ timer' = 0
  /\ UNCHANGED <<sharedVars, redisVars, clientVars, sleeping, arming, mcVars, completedQ,
                 call, rcPc>>

(* onRoundTimeout *)
PublishTimeout(r) ==
  /\ fired[r] > 0
  /\ fired' = [fired EXCEPT ![r] = @ - 1]
  /\ Published(completedQ, completedQ', r)
  /\ UNCHANGED <<leaderboard, answerQ, finishedQ, redisVars, clientVars, timer, sleeping,
                 arming, mcVars, call, rcPc>>

-----------------------------------------------------------------------------
(* Mutant: the list is indexed with the number of the round. *)
RevealFollowing ==
  /\ completedQ # <<>>
  /\ rcPc = "idle"
  /\ rcPc' = "revealed"
  /\ LET r == Head(completedQ)
     IN  revealed' = IF r < Len(questions)
                     THEN [revealed EXCEPT ![r] = questions[r + 1]]
                     ELSE revealed
  /\ UNCHANGED <<sharedVars, redisVars, asked, ended, standings, timerVars, mcVars,
                 completedQ, call>>

(* The round.completed handler.  It reveals the answer of the round (unless *)
(* reading the question fails) and sends the leaderboard.                   *)
RevealRound ==
  /\ completedQ # <<>>
  /\ rcPc = "idle"
  /\ rcPc' = "revealed"
  /\ LET r == Head(completedQ)
     IN  \/ /\ r <= Len(questions)
            /\ revealed' = [revealed EXCEPT ![r] = questions[r]]
            /\ UNCHANGED faults
         \/ /\ r > Len(questions)
            /\ UNCHANGED <<revealed, faults>>
         \/ /\ Fault
            /\ UNCHANGED revealed
  /\ UNCHANGED <<leaderboard, answerQ, finishedQ, redisVars, asked, ended, standings,
                 timerVars, mcVars, completedQ, call>>

(* A round before the last: the goroutine of the next round goes to sleep   *)
(* and the message is acknowledged.                                         *)
ScheduleNext ==
  /\ rcPc = "revealed"
  /\ Head(completedQ) < TotalRounds
  /\ Head(completedQ) < Len(questions)
  /\ sleeping' = [sleeping EXCEPT ![Head(completedQ) + 1] = @ + 1]
  /\ completedQ' = Tail(completedQ)
  /\ rcPc' = "idle"
  /\ UNCHANGED <<sharedVars, redisVars, clientVars, timer, fired, arming, mcVars, call>>

(* No question for the next round: the message goes to the dead-letter      *)
(* queue, because the list is too short ...                                 *)
NoNextQuestion ==
  /\ rcPc = "revealed"
  /\ Head(completedQ) < TotalRounds
  /\ Head(completedQ) >= Len(questions)
  /\ completedQ' = Tail(completedQ)
  /\ rcPc' = "idle"
  /\ UNCHANGED <<sharedVars, redisVars, clientVars, timerVars, mcVars, call>>

(* ... or because reading it fails. *)
NextQuestionFails ==
  /\ rcPc = "revealed"
  /\ Head(completedQ) < TotalRounds
  /\ Fault
  /\ completedQ' = Tail(completedQ)
  /\ rcPc' = "idle"
  /\ UNCHANGED <<leaderboard, answerQ, finishedQ, redisVars, clientVars, timerVars, mcVars,
                 call>>

(* Mutant: the rounds are counted from 0. *)
EndMatchEarly ==
  /\ rcPc = "revealed"
  /\ Head(completedQ) >= TotalRounds - 1
  /\ ended' = TRUE
  /\ standings' = leaderboard
  /\ rcPc' = "ended"
  /\ UNCHANGED <<sharedVars, redisVars, asked, revealed, timerVars, mcVars, completedQ, call>>

(* The last round: MatchEnd is broadcast with the leaderboard of the moment *)
(* (unless reading it fails), ...                                           *)
EndMatch ==
  /\ rcPc = "revealed"
  /\ Head(completedQ) >= TotalRounds
  /\ \/ ended' = TRUE /\ standings' = leaderboard /\ UNCHANGED faults
     \/ Fault /\ UNCHANGED <<ended, standings>>
  /\ rcPc' = "ended"
  /\ UNCHANGED <<leaderboard, answerQ, finishedQ, redisVars, asked, revealed, timerVars,
                 mcVars, completedQ, call>>

(* Mutant: match.finished is published after every round. *)
FinishEveryRound ==
  /\ rcPc \in {"revealed", "ended"}
  /\ Published(finishedQ, finishedQ', MatchFinished)
  /\ rcPc' = "finished"
  /\ UNCHANGED <<leaderboard, answerQ, redisVars, clientVars, timerVars, mcVars, completedQ,
                 call>>

(* Mutant: broadcastMatchEnd returns early when nobody has scored, and      *)
(* FinishMatch is called from it.                                           *)
FinishIfScored ==
  /\ rcPc = "ended"
  /\ IF \E u \in Player : leaderboard[u] > 0
     THEN Published(finishedQ, finishedQ', MatchFinished)
     ELSE UNCHANGED <<finishedQ, faults>>
  /\ rcPc' = "finished"
  /\ UNCHANGED <<leaderboard, answerQ, redisVars, clientVars, timerVars, mcVars, completedQ,
                 call>>

(* ... match.finished is published, ...                                     *)
FinishMatch ==
  /\ rcPc = "ended"
  /\ Published(finishedQ, finishedQ', MatchFinished)
  /\ rcPc' = "finished"
  /\ UNCHANGED <<leaderboard, answerQ, redisVars, clientVars, timerVars, mcVars, completedQ,
                 call>>

(* ... and round.completed acknowledged.                                    *)
AckCompleted ==
  /\ rcPc = "finished"
  /\ completedQ' = Tail(completedQ)
  /\ rcPc' = "idle"
  /\ UNCHANGED <<sharedVars, redisVars, clientVars, timerVars, mcVars, call>>

-----------------------------------------------------------------------------
(* The pause is over: StartRound opens the round with the question that was *)
(* read when the goroutine was spawned; the list only grows at its end.     *)
WakeUp(r) ==
  /\ sleeping[r] > 0
  /\ sleeping' = [sleeping EXCEPT ![r] = @ - 1]
  /\ OpenRound(r, questions[r])
  /\ arming' = [arming EXCEPT ![r] = @ + 1]
  /\ UNCHANGED <<leaderboard, answerQ, finishedQ, roomState, questions, answers, revealed,
                 ended, standings, timer, fired, mcVars, completedQ, call, rcPc>>

ArmRound(r) ==
  /\ arming[r] > 0
  /\ arming' = [arming EXCEPT ![r] = @ - 1]
  /\ ArmTimer(r)
  /\ UNCHANGED <<sharedVars, redisVars, clientVars, fired, sleeping, mcVars, completedQ,
                 call, rcPc>>

-----------------------------------------------------------------------------
(* The engine dies and restarts: its memory is gone, Redis and the queues   *)
(* stay, and a message whose handler was running is delivered again.        *)
EngineCrash ==
  /\ Fault
  /\ timer' = 0
  /\ fired' = [r \in Rounds |-> 0]
  /\ sleeping' = [r \in Rounds |-> 0]
  /\ arming' = [r \in Rounds |-> 0]
  /\ call' = [c \in Call |-> NoCall]
  /\ mc' = NoSelection
  /\ rcPc' = "idle"
  /\ UNCHANGED <<leaderboard, answerQ, finishedQ, redisVars, clientVars, createdQ,
                 selections, completedQ>>

-----------------------------------------------------------------------------
CallStep(c) ==
  \/ StoreAnswer(c)
  \/ PublishAnswer(c)
  \/ CheckAllAnswered(c)
  \/ StopTimer(c)
  \/ PublishCompleted(c)

MatchCreatedStep == SelectQuestions \/ PushQuestion \/ BeginMatch \/ ArmFirstRound

RoundCompletedStep ==
  \/ RevealRound
  \/ ScheduleNext
  \/ NoNextQuestion
  \/ EndMatch
  \/ FinishMatch
  \/ AckCompleted

TimerStep ==
  \/ FireTimer
  \/ \E r \in Rounds : PublishTimeout(r) \/ WakeUp(r) \/ ArmRound(r)

EngineFaultStep ==
  \/ SelectFails
  \/ PushResent
  \/ NextQuestionFails
  \/ \E c \in Call : StoreFails(c) \/ CheckFails(c)
  \/ EngineCrash

EngineNext ==
  \/ MatchCreatedStep
  \/ RoundCompletedStep
  \/ TimerStep
  \/ \E c \in Call : CallStep(c) \/ \E a \in Answer : ValidateAnswer(c, a)
  \/ EngineFaultStep

(* The handlers, the timers and the goroutines of the engine run; a player  *)
(* need not answer and a fault need not happen.                             *)
EngineFairness ==
  /\ WF_<<sharedVars, engineVars>>(MatchCreatedStep)
  /\ WF_<<sharedVars, engineVars>>(RoundCompletedStep)
  /\ WF_<<sharedVars, engineVars>>(FireTimer)
  /\ \A r \in Rounds :
       /\ WF_<<sharedVars, engineVars>>(PublishTimeout(r))
       /\ WF_<<sharedVars, engineVars>>(WakeUp(r))
       /\ WF_<<sharedVars, engineVars>>(ArmRound(r))
  /\ \A c \in Call : WF_<<sharedVars, engineVars>>(CallStep(c))

(* The engine by itself. *)
EngineAloneInit == SharedInit /\ EngineInit

EngineSpec ==
  /\ EngineAloneInit
  /\ [][EngineNext]_<<sharedVars, engineVars>>
  /\ EngineFairness

-----------------------------------------------------------------------------
(* No round is opened before its predecessor, although completions of a     *)
(* round may be published twice and handled late (round_completed.go:107);  *)
(* and the match ends only with all rounds opened.                          *)
NoRoundSkipped ==
  /\ \A r \in Rounds : r > 1 /\ Started(r) => Started(r - 1)
  /\ ended => \A r \in Rounds : Started(r)

(* When nothing fails, a round is opened only after the answer to the       *)
(* question of the round before was revealed, and what is revealed answers  *)
(* the question that was asked (match_created.go:63-68,                     *)
(* round_completed.go:56-91).                                               *)
RevealedBeforeNext ==
  faults = 0 =>
    \A r \in Rounds :
      /\ revealed[r] # NoQuestion => revealed[r] = asked[r]
      /\ r < TotalRounds /\ Started(r + 1) => revealed[r] # NoQuestion

(* The database has enough questions of every difficulty. *)
FullSelections == QuestionCounts = {TotalRounds}

(* What will move an unfinished match on without any help of the players: a *)
(* message, a running or fired timer, a goroutine between two rounds, or a  *)
(* call that has stopped the timer and is about to publish.                 *)
WillMove ==
  \/ createdQ
  \/ completedQ # <<>>
  \/ timer # 0
  \/ \E r \in Rounds : fired[r] > 0 \/ sleeping[r] > 0 \/ arming[r] > 0
  \/ \E c \in Call : call[c].pc = "stopped"

(* CompleteRound stops whichever timer the room has, even that of a later   *)
(* round (round.go:143-149), and StartRound replaces it: yet, when nothing  *)
(* fails and there are questions enough, the match is never left without    *)
(* anything that moves it on.                                               *)
NeverStuck == faults = 0 /\ FullSelections => ended \/ WillMove

(* Reached is the last round that has been opened. *)
Reached == CHOOSE n \in 0..TotalRounds : \A r \in Rounds : Started(r) <=> r <= n

-----------------------------------------------------------------------------
(* The engine by itself: nobody scores the answers or takes match.finished. *)
EngineProgress ==
  INSTANCE MatchProgress WITH reached <- Reached, over <- ended, recorded <- finishedQ # <<>>

(* Through crashes, lost messages and failing stores the engine opens the   *)
(* rounds in order, and ends and reports the match only after the last      *)
(* round was opened (round_completed.go:102-123).                           *)
EngineImplementsProgressSafety == EngineProgress!ProgressSafety

(* When nothing fails and a question was selected for every round, the      *)
(* match runs to its end and is reported, whatever the players do: timers,  *)
(* not answers, drive it (round.go:71-79).                                  *)
EngineKeepsGoing ==
  [](faults = 0) /\ <>(Len(questions) = TotalRounds) => EngineProgress!KeepsGoing
=============================================================================
