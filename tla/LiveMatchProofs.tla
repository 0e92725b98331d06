-------------------------- MODULE LiveMatchProofs --------------------------
(***************************************************************************)
(* Proofs about a match as the app of one player sees it, for any number of *)
(* rounds, players, streams and events that are under way.                  *)
(***************************************************************************)
EXTENDS LiveMatch, EngineProgressProofs

-----------------------------------------------------------------------------
(* The invariant.                                                           *)

(* The kinds of events that change what the app shows of a round.  The      *)
(* countdown matters as long as every round lasts until its time is up.     *)
Kinds == {"question", "roundResult"} \cup (IF hurried THEN {} ELSE {"timerSync"})

(* The round r is on the screen, or its question is on the way. *)
Ahead(s, n, r) == n = r \/ \E i \in 1..Len(s) : s[i] = QuestionBroadcast(r)

(* The events s come in the order of their rounds to an app that shows      *)
(* round n, and those of a round after its question.                        *)
Follows(s, n, K) ==
  /\ \A j \in 1..Len(s) : s[j].kind \in K => n <= s[j].round
  /\ \A i, j \in 1..Len(s) : i < j /\ s[i].kind \in K /\ s[j].kind \in K => s[i].round <= s[j].round
  /\ \A j \in 1..Len(s) : s[j].kind \in K /\ s[j].kind # "question" =>
       n = s[j].round \/ \E i \in 1..Len(s) : i < j /\ s[i] = QuestionBroadcast(s[j].round)

(* They are of the rounds S that were opened, and the last one is among     *)
(* them.                                                                    *)
Opened == {r \in Rounds : Started(r)}

UpToDate(s, n, K, S) ==
  /\ n # NoRound => n \in S
  /\ \A j \in 1..Len(s) : s[j].kind \in K => s[j].round \in S
  /\ \A r \in S : (r < TotalRounds => r + 1 \notin S) => Ahead(s, n, r)

(* Before the app has a stream it knows nothing. *)
StreamInv ==
  Mine \notin serving \cup served =>
    /\ channel[Mine] = <<>> /\ registered[Me] # Mine
    /\ ~early /\ currentRound = NoRound /\ clock = NoRound /\ ~matchResult /\ Mine \notin hungUp
    /\ \A r \in Rounds \cup {NoRound} : roundResults[r] = NoRound

OrderInv ==
  early /\ ~dropped /\ ~late /\ Mine \notin hungUp /\ ~matchResult =>
    /\ Follows(channel[Mine], currentRound, Kinds)
    /\ registered[Me] = Mine => UpToDate(channel[Mine], currentRound, Kinds, Opened)

(* As long as no answer completes a round one thing at a time is under way: *)
(* the timer of a round, its callback, its completion, or the goroutine     *)
(* that sleeps before the next round or is about to start its timer.        *)
Stage == {"none", "timer", "fired", "done", "sleep", "arm"}

UnderWay(k, r) ==
  /\ timer = IF k = "timer" THEN r ELSE 0
  /\ completedQ = IF k = "done" THEN <<r>> ELSE <<>>
  /\ \A s \in Rounds : /\ fired[s] = IF k = "fired" /\ s = r THEN 1 ELSE 0
                       /\ sleeping[s] = IF k = "sleep" /\ s = r THEN 1 ELSE 0
                       /\ arming[s] = IF k = "arm" /\ s = r THEN 1 ELSE 0
  /\ createdQ => k = "none" /\ \A s \in Rounds : Started(s) => s = 1
  /\ k \in {"timer", "fired", "done", "arm"} => Started(r) /\ ~NextBegan(r)
  /\ k = "sleep" => ~Started(r)

SingleInv ==
  ~hurried =>
    /\ \A c \in Call : call[c].pc # "stopped"
    /\ syncing \subseteq {timer}
    /\ \E k \in Stage, r \in Rounds : UnderWay(k, r)

LiveInv == LiveTypeOK /\ CalmInv /\ StreamInv /\ SingleInv /\ OrderInv
           /\ BookedUnderItsRound /\ CountdownOfTheRound

-----------------------------------------------------------------------------
(* Facts about sequences of events. *)

LEMMA AppendFacts ==
  ASSUME NEW S, NEW s \in Seq(S), NEW e \in S
  PROVE  /\ Append(s, e) \in Seq(S)
         /\ Len(s) \in Nat /\ Len(Append(s, e)) = Len(s) + 1
         /\ \A i \in 1..Len(s) : Append(s, e)[i] = s[i]
         /\ Append(s, e)[Len(s) + 1] = e
         /\ \A i \in 1..Len(Append(s, e)) : i \in 1..Len(s) \/ i = Len(s) + 1
  OBVIOUS

LEMMA TailFacts ==
  ASSUME NEW S, NEW s \in Seq(S), s # <<>>
  PROVE  /\ Tail(s) \in Seq(S) /\ Len(s) \in Nat /\ Len(Tail(s)) = Len(s) - 1
         /\ Head(s) = s[1] /\ Head(s) \in S /\ 1 \in 1..Len(s)
         /\ \A i \in 1..Len(Tail(s)) : i + 1 \in 1..Len(s) /\ Tail(s)[i] = s[i + 1]
         /\ \A i \in 1..Len(s) : i = 1 \/ (i - 1 \in 1..Len(Tail(s)) /\ Tail(s)[i - 1] = s[i])
  OBVIOUS

LEMMA EventTypes ==
  /\ Event = GameEvent /\ Round = Rounds /\ Rounds \subseteq Nat /\ NoRound \notin Rounds
  /\ NoRound = 0
  /\ \A e \in GameEvent : e.round \in Rounds
  /\ \A r \in Rounds : /\ QuestionBroadcast(r) \in GameEvent /\ TimerSync(r) \in GameEvent
                       /\ RoundResult(r) \in GameEvent /\ LeaderboardUpdate(r) \in GameEvent
                       /\ MatchEnd(r) \in GameEvent
                       /\ QuestionBroadcast(r).kind = "question" /\ QuestionBroadcast(r).round = r
                       /\ TimerSync(r).kind = "timerSync" /\ TimerSync(r).round = r
                       /\ RoundResult(r).kind = "roundResult" /\ RoundResult(r).round = r
                       /\ LeaderboardUpdate(r).kind = "leaderboard"
                       /\ MatchEnd(r).kind = "matchEnd"
  /\ \A e \in GameEvent : e.kind = "question" => e = QuestionBroadcast(e.round)
  BY RoomAssumption, LiveAssumption
  DEF LiveAssumption, GameEvent, Rounds, NoRound, QuestionBroadcast, TimerSync, RoundResult,
      LeaderboardUpdate, MatchEnd

(* An event is sent to an app to which the events s are on the way. *)
LEMMA FollowsAppend ==
  ASSUME NEW s \in Seq(GameEvent), NEW e \in GameEvent, NEW n, NEW K, Follows(s, n, K),
         e.kind \in K => /\ n <= e.round
                         /\ \A j \in 1..Len(s) : s[j].kind \in K => s[j].round <= e.round,
         e.kind \in K /\ e.kind # "question" => Ahead(s, n, e.round)
  PROVE  Follows(Append(s, e), n, K)
  <1> DEFINE t == Append(s, e)
  <1>1. /\ Len(s) \in Nat
        /\ \A i \in 1..Len(s) : t[i] = s[i]
        /\ t[Len(s) + 1] = e
        /\ \A i \in 1..Len(t) : i \in 1..Len(s) \/ i = Len(s) + 1
    BY AppendFacts
  <1>2. Len(t) = Len(s) + 1
    BY AppendFacts
  <1> HIDE DEF t
  <1>3. \A j \in 1..Len(t) : t[j].kind \in K => n <= t[j].round
    BY <1>1 DEF Follows
  <1>4. ASSUME NEW i \in 1..Len(t), NEW j \in 1..Len(t), i < j, t[i].kind \in K, t[j].kind \in K
        PROVE  t[i].round <= t[j].round
    <2>1. i \in 1..Len(s)
      BY <1>1, <1>2, <1>4
    <2> QED
      BY <1>1, <1>4, <2>1 DEF Follows
  <1>5. ASSUME NEW j \in 1..Len(t), t[j].kind \in K, t[j].kind # "question"
        PROVE  n = t[j].round \/ \E i \in 1..Len(t) : i < j /\ t[i] = QuestionBroadcast(t[j].round)
    <2>1. CASE j \in 1..Len(s)
      <3>1. n = s[j].round \/ \E i \in 1..Len(s) : i < j /\ s[i] = QuestionBroadcast(s[j].round)
        BY <1>1, <1>5, <2>1 DEF Follows
      <3> QED
        BY <1>1, <1>2, <2>1, <3>1
    <2>2. CASE j = Len(s) + 1
      <3>1. n = e.round \/ \E i \in 1..Len(s) : s[i] = QuestionBroadcast(e.round)
        BY <1>1, <1>5, <2>2 DEF Ahead
      <3>2. \A i \in 1..Len(s) : i \in 1..Len(t) /\ i < j
        BY <1>1, <1>2, <2>2
      <3> QED
        BY <1>1, <2>2, <3>1, <3>2
    <2> QED
      BY <1>1, <2>1, <2>2
  <1> QED
    BY <1>3, <1>4, <1>5 DEF Follows, t

(* The app takes the next event. *)
LEMMA FollowsTail ==
  ASSUME NEW s \in Seq(GameEvent), s # <<>>, NEW n \in Nat, NEW K, "question" \in K, Follows(s, n, K)
  PROVE  LET m == IF Head(s).kind = "question" THEN Head(s).round ELSE n
         IN  /\ Follows(Tail(s), m, K)
             /\ Head(s).kind \in K /\ Head(s).kind # "question" => n = Head(s).round
             /\ \A r \in Rounds : Ahead(s, n, r) =>
                  Ahead(Tail(s), m, r) \/ (Head(s).kind = "question" /\ n = r)
  <1> DEFINE m == IF Head(s).kind = "question" THEN Head(s).round ELSE n
             t == Tail(s)
  <1>1. /\ Len(s) \in Nat /\ Head(s) = s[1] /\ Head(s) \in GameEvent /\ 1 \in 1..Len(s)
        /\ \A i \in 1..Len(t) : i + 1 \in 1..Len(s) /\ t[i] = s[i + 1]
        /\ \A i \in 1..Len(s) : i = 1 \/ (i - 1 \in 1..Len(t) /\ t[i - 1] = s[i])
    BY TailFacts
  <1>2. \A i \in 1..Len(s) : s[i] \in GameEvent /\ s[i].round \in Rounds /\ s[i].round \in Nat
    <2>1. \A i \in 1..Len(s) : s[i] \in GameEvent
      OBVIOUS
    <2>2. (\A e \in GameEvent : e.round \in Rounds) /\ Rounds \subseteq Nat
      BY EventTypes
    <2> QED
      BY ONLY <2>1, <2>2
  <1> HIDE DEF t
  <1>3. ASSUME NEW j \in 1..Len(t), t[j].kind \in K PROVE m <= t[j].round
    <2>1. j + 1 \in 1..Len(s) /\ t[j] = s[j + 1] /\ 1 < j + 1
      BY <1>1
    <2>2. n <= s[j + 1].round
      BY <1>3, <2>1 DEF Follows
    <2>3. s[1].kind = "question" => s[1].round <= s[j + 1].round
      BY <1>1, <1>3, <2>1 DEF Follows
    <2> QED
      BY <1>1, <2>1, <2>2, <2>3
  <1>4. ASSUME NEW i \in 1..Len(t), NEW j \in 1..Len(t), i < j, t[i].kind \in K, t[j].kind \in K
        PROVE  t[i].round <= t[j].round
    <2>1. i + 1 < j + 1
      BY <1>4
    <2> QED
      BY <1>1, <1>4, <2>1 DEF Follows
  <1>5. ASSUME NEW j \in 1..Len(t), t[j].kind \in K, t[j].kind # "question"
        PROVE  m = t[j].round \/ \E i \in 1..Len(t) : i < j /\ t[i] = QuestionBroadcast(t[j].round)
    <2>1. j + 1 \in 1..Len(s) /\ t[j] = s[j + 1]
      BY <1>1
    <2>2. CASE n = t[j].round
      <3>1. m <= t[j].round
        BY <1>3, <1>5
      <3>2. s[1].kind = "question" => n <= s[1].round
        BY <1>1 DEF Follows
      <3> QED
        BY <1>1, <1>2, <2>1, <2>2, <3>1, <3>2
    <2>3. ASSUME NEW i \in 1..Len(s), i < j + 1, s[i] = QuestionBroadcast(t[j].round)
          PROVE  m = t[j].round \/ \E k \in 1..Len(t) : k < j /\ t[k] = QuestionBroadcast(t[j].round)
      <3>1. CASE i = 1
        <4>1. t[j].round \in Rounds
          BY <1>2, <2>1
        <4>2. /\ QuestionBroadcast(t[j].round).kind = "question"
              /\ QuestionBroadcast(t[j].round).round = t[j].round
          BY <4>1, EventTypes
        <4>3. Head(s) = QuestionBroadcast(t[j].round)
          BY <1>1, <2>3, <3>1
        <4> QED
          BY <4>2, <4>3
      <3>2. CASE i # 1
        <4>1. i - 1 \in 1..Len(t) /\ t[i - 1] = s[i] /\ i - 1 < j
          BY <1>1, <2>3, <3>2
        <4> QED
          BY <2>3, <4>1
      <3> QED
        BY <3>1, <3>2
    <2>4. n = s[j + 1].round \/ \E i \in 1..Len(s) : i < j + 1 /\ s[i] = QuestionBroadcast(s[j + 1].round)
      BY <1>5, <2>1 DEF Follows
    <2> QED
      BY <2>1, <2>2, <2>3, <2>4
  <1>6. Follows(t, m, K)
    BY <1>3, <1>4, <1>5 DEF Follows
  <1>7. Head(s).kind \in K /\ Head(s).kind # "question" => n = Head(s).round
    <2>1. \A i \in 1..Len(s) : ~(i < 1)
      BY <1>1
    <2> QED
      BY <1>1, <2>1 DEF Follows
  <1>8. ASSUME NEW r \in Rounds, Ahead(s, n, r)
        PROVE  Ahead(t, m, r) \/ (Head(s).kind = "question" /\ n = r)
    <2>1. ASSUME NEW i \in 1..Len(s), s[i] = QuestionBroadcast(r) PROVE Ahead(t, m, r)
      <3>1. CASE i = 1
        BY <1>1, <2>1, <3>1, EventTypes DEF Ahead
      <3>2. CASE i # 1
        BY SMTT(30), <1>1, <2>1, <3>2 DEF Ahead
      <3> QED
        BY <3>1, <3>2
    <2>2. n = r /\ Head(s).kind # "question" => Ahead(t, m, r)
      BY DEF Ahead
    <2> QED
      BY <1>8, <2>1, <2>2 DEF Ahead
  <1> QED
    BY <1>6, <1>7, <1>8 DEF t
-----------------------------------------------------------------------------
(* Every step of the match is a step of the engine, or leaves it alone.     *)
LEMMA EngineRuns ==
  ASSUME LiveNext
  PROVE  EngineNext \/ UNCHANGED <<sharedVars, engineVars>>
  <1>1. HandlerStep => EngineNext
    BY DEF HandlerStep, QuietStep, LiveBeginMatch, LiveArmFirstRound, LiveRevealRound, LiveEndMatch,
           LiveFireTimer, LiveStopTimer, LiveWakeUp, LiveArmRound, EngineNext, MatchCreatedStep,
           RoundCompletedStep, TimerStep, CallStep
  <1>2. ASSUME NEW r \in Rounds, Answers(r)
        PROVE  EngineNext \/ UNCHANGED <<sharedVars, engineVars>>
    <2>1. ASSUME NEW c \in Call, NEW p \in Points, ValidateAnswer(c, AnswerRequest(r, p))
          PROVE  EngineNext
      <3>1. AnswerRequest(r, p) \in Answer
        BY LiveAssumption DEF LiveAssumption, AnswerRequest, Answer
      <3> QED
        BY <2>1, <3>1 DEF EngineNext
    <2> QED
      BY <1>2, <2>1 DEF Answers
  <1>3. ASSUME NEW c \in Conn, Subscribe(c) \/ ClientGone(c) \/ Deliver(c) \/ EndStream(c)
        PROVE  UNCHANGED <<sharedVars, engineVars>>
    BY <1>3 DEF Subscribe, ClientGone, Deliver, EndStream
  <1>4. ASSUME NEW r \in Rounds, SyncTimer(r) PROVE UNCHANGED <<sharedVars, engineVars>>
    BY <1>4 DEF SyncTimer
  <1>5. ASSUME NEW c \in Call, OthersAnswer(c) PROVE EngineNext
    BY <1>5 DEF OthersAnswer, EngineNext
  <1> QED
    BY <1>1, <1>2, <1>3, <1>4, <1>5 DEF LiveNext

LEMMA CalmStep ==
  ASSUME CalmInv, [LiveNext]_liveVars
  PROVE  CalmInv'
  <1>1. UNCHANGED liveVars => UNCHANGED <<sharedVars, engineVars>>
    BY DEF liveVars
  <1> QED
    BY <1>1, EngineRuns, CalmInvStep, CalmInvStutter

(* Nothing fails. *)
LEMMA NoFaults ==
  ASSUME CalmInv
  PROVE  faults = 0 /\ ~Fault
  BY LiveAssumption DEF CalmInv, EngineInv, EngineTypeOK, SharedTypeOK, LiveAssumption, Fault

-----------------------------------------------------------------------------
(* The types. *)

(* What is sent to a channel that holds ch. *)
LEMMA FilledType ==
  ASSUME NEW ch \in Seq(Event), Len(ch) <= Capacity, NEW es \in Seq(Event)
  PROVE  /\ Filled(ch, es) \in Seq(Event)
         /\ Len(Filled(ch, es)) <= Capacity
         /\ Len(ch) + Len(es) <= Capacity => Filled(ch, es) = ch \o es
  <1>1. Capacity \in Nat /\ Len(ch) \in Nat /\ Len(es) \in Nat
    BY StreamsAssumption DEF StreamsAssumption
  <1>2. CASE Len(es) <= Capacity - Len(ch)
    <2>1. Filled(ch, es) = ch \o es
      BY <1>2 DEF Filled
    <2>2. ch \o es \in Seq(Event) /\ Len(ch \o es) = Len(ch) + Len(es)
      OBVIOUS
    <2> QED
      BY <1>1, <1>2, <2>1, <2>2
  <1>3. CASE ~(Len(es) <= Capacity - Len(ch))
    <2> DEFINE room == Capacity - Len(ch)
               front == SubSeq(es, 1, room)
    <2>1. room \in Nat /\ room <= Len(es)
      BY <1>1, <1>3
    <2>2. Filled(ch, es) = ch \o front
      BY <1>3 DEF Filled
    <2> HIDE DEF room
    <2>3. front \in Seq(Event) /\ Len(front) = room
      BY <1>1, <2>1
    <2> HIDE DEF front
    <2>4. ch \o front \in Seq(Event) /\ Len(ch \o front) = Len(ch) + room
      BY <2>3
    <2> QED
      BY <1>1, <1>3, <2>2, <2>4 DEF room
  <1> QED
    BY <1>2, <1>3

LEMMA BroadcastType ==
  ASSUME StreamsTypeOK, NEW es \in Seq(Event), BroadcastToRoom(es)
  PROVE  StreamsTypeOK'
  <1>1. \A c \in Conn : channel[c] \in Seq(Event) /\ Len(channel[c]) <= Capacity
    BY DEF StreamsTypeOK
  <1>2. \A c \in Conn : /\ Filled(channel[c], es) \in Seq(Event)
                        /\ Len(Filled(channel[c], es)) <= Capacity
    BY <1>1, FilledType
  <1>3. channel' = [c \in Conn |-> IF registered[Owner[c]] = c
                                   THEN Filled(channel[c], es) ELSE channel[c]]
    BY DEF BroadcastToRoom
  <1>4. channel' \in [Conn -> Seq(Event)] /\ \A c \in Conn : Len(channel'[c]) <= Capacity
    BY <1>1, <1>2, <1>3
  <1> QED
    BY <1>4 DEF BroadcastToRoom, StreamsTypeOK

LEMMA StreamsType ==
  ASSUME StreamsTypeOK, NEW c \in Conn,
         Register(c) \/ HangUp(c) \/ Return(c) \/ \E e \in Event : Receive(c, e)
  PROVE  StreamsTypeOK'
  <1>1. /\ Owner[c] \in User /\ NoConn \notin Conn
        /\ registered \in [User -> Conn \cup {NoConn}]
        /\ channel \in [Conn -> Seq(Event)] /\ Capacity \in Nat
        /\ \A d \in Conn : Len(channel[d]) <= Capacity
    BY StreamsAssumption DEF StreamsAssumption, StreamsTypeOK, NoConn
  <1>2. CASE Register(c)
    BY <1>1, <1>2 DEF Register, StreamsTypeOK
  <1>3. CASE HangUp(c)
    BY <1>3 DEF HangUp, StreamsTypeOK
  <1>4. CASE Return(c)
    <2>1. closed' \subseteq Conn /\ registered' \in [User -> Conn \cup {NoConn}]
      BY <1>1, <1>4 DEF Return, Unregister, StreamsTypeOK
    <2> QED
      BY <1>4, <2>1 DEF Return, StreamsTypeOK
  <1>5. ASSUME NEW e \in Event, Receive(c, e) PROVE StreamsTypeOK'
    <2>1. channel[c] \in Seq(Event) /\ channel[c] # <<>>
          /\ channel' = [channel EXCEPT ![c] = Tail(@)]
      BY <1>1, <1>5 DEF Receive
    <2>2. Tail(channel[c]) \in Seq(Event) /\ Len(channel[c]) \in Nat
          /\ Len(Tail(channel[c])) = Len(channel[c]) - 1
      BY <2>1, TailFacts
    <2>3. channel' \in [Conn -> Seq(Event)]
      BY <1>1, <2>1, <2>2
    <2>4. \A d \in Conn : Len(channel'[d]) <= Capacity
      BY <1>1, <2>1, <2>2
    <2> QED
      BY <1>5, <2>3, <2>4 DEF Receive, StreamsTypeOK
  <1> QED
    BY <1>2, <1>3, <1>4, <1>5

LEMMA ClientType ==
  ASSUME ClientTypeInv, startGame \/ (\E e \in Event : OnEvent(e)) \/ (\E r \in Rounds : selectAnswer(r))
  PROVE  ClientTypeInv'
  <1>1. CASE startGame
    BY <1>1 DEF startGame, ClientTypeInv
  <1>2. ASSUME NEW e \in Event, OnEvent(e) PROVE ClientTypeInv'
    <2>1. e.round \in Round
      BY EventTypes
    <2>2. CASE onRoundResult(e)
      <3>1. roundResults' \in [Round \cup {NoRound} -> Round \cup {NoRound}]
        BY <2>1, <2>2 DEF onRoundResult, ClientTypeInv
      <3> QED
        BY <2>2, <3>1 DEF onRoundResult, ClientTypeInv
    <2>3. CASE onQuestionBroadcast(e) \/ onTimerSync(e) \/ onLeaderboardUpdate \/ onMatchEnd
      BY <2>1, <2>3 DEF onQuestionBroadcast, onTimerSync, onLeaderboardUpdate, onMatchEnd,
                        appVars, ClientTypeInv
    <2> QED
      BY <1>2, <2>2, <2>3 DEF OnEvent
  <1>3. ASSUME NEW r \in Rounds, selectAnswer(r) PROVE ClientTypeInv'
    BY <1>3 DEF selectAnswer, ClientTypeInv
  <1> QED
    BY <1>1, <1>2, <1>3

(* The events the engine sends. *)
LEMMA SentEvents ==
  /\ 1 \in Rounds /\ TotalRounds \in Rounds
  /\ \A r \in Rounds : /\ <<QuestionBroadcast(r)>> \in Seq(Event) /\ <<TimerSync(r)>> \in Seq(Event)
                       /\ <<LeaderboardUpdate(r)>> \in Seq(Event) /\ <<MatchEnd(r)>> \in Seq(Event)
                       /\ <<RoundResult(r)>> \o <<LeaderboardUpdate(r)>> \in Seq(Event)
                       /\ <<>> \o <<LeaderboardUpdate(r)>> \in Seq(Event)
  <1>1. \A e \in Event : <<e>> \in Seq(Event) /\ <<>> \o <<e>> \in Seq(Event)
    OBVIOUS
  <1>2. \A e, d \in Event : <<e>> \o <<d>> \in Seq(Event)
    OBVIOUS
  <1> QED
    BY <1>1, <1>2, EventTypes, RoomAssumption DEF Rounds

(* Events are sent when a round begins, when it is completed, when the      *)
(* match ends, and by the syncTimers.                                       *)
Sends ==
  \/ LiveBeginMatch /\ mc.size > 0
  \/ \E r \in Rounds : LiveWakeUp(r) \/ SyncTimer(r)
  \/ LiveRevealRound
  \/ LiveEndMatch

LEMMA RevealSends ==
  ASSUME EngineInv, LiveRevealRound
  PROVE  LET r == Head(completedQ)
         IN  /\ r \in Rounds /\ Started(r)
             /\ late' = (late \/ NextBegan(r))
             /\ \/ Sent(<<RoundResult(r)>> \o <<LeaderboardUpdate(r)>>)
                \/ Sent(<<>> \o <<LeaderboardUpdate(r)>>)
  <1> DEFINE r == Head(completedQ)
  <1>1. completedQ # <<>> /\ completedQ \in Seq(Rounds)
    BY DEF LiveRevealRound, RevealRound, EngineInv, EngineTypeOK, RoundCompletedTypeOK
  <1>2. r \in Rounds /\ r = completedQ[1] /\ 1 \in 1..Len(completedQ)
    BY <1>1, TailFacts
  <1>3. Started(r)
    BY <1>2 DEF EngineInv, RoundsInv
  <1> HIDE DEF r
  <1>4. late' = (late \/ NextBegan(r))
    BY Zenon DEF LiveRevealRound, r
  <1>5. \/ Sent(<<RoundResult(r)>> \o <<LeaderboardUpdate(r)>>)
        \/ Sent(<<>> \o <<LeaderboardUpdate(r)>>)
    BY Zenon DEF LiveRevealRound, r
  <1> QED
    BY <1>2, <1>3, <1>4, <1>5 DEF r

LEMMA SendsSends ==
  ASSUME EngineInv, Sends
  PROVE  \E es \in Seq(Event) : Sent(es)
  <1>1. CASE LiveBeginMatch /\ mc.size > 0
    BY <1>1, SentEvents DEF LiveBeginMatch
  <1>2. ASSUME NEW r \in Rounds, LiveWakeUp(r) \/ SyncTimer(r)
        PROVE  \E es \in Seq(Event) : Sent(es)
    BY <1>2, SentEvents DEF LiveWakeUp, SyncTimer
  <1>3. CASE LiveRevealRound
    BY <1>3, RevealSends, SentEvents
  <1>4. CASE LiveEndMatch
    BY <1>4, SentEvents DEF LiveEndMatch
  <1> QED
    BY <1>1, <1>2, <1>3, <1>4 DEF Sends

(* What a step does to the streams and to the app. *)
LEMMA StreamSteps ==
  ASSUME EngineInv, LiveNext
  PROVE  \/ Sends /\ UNCHANGED appVars
         \/ UNCHANGED <<streamVars, appVars, early, dropped, late>>
         \/ /\ UNCHANGED <<streamVars, early, dropped, late, hurried>>
            /\ \E r \in Rounds : selectAnswer(r)
         \/ /\ UNCHANGED <<sharedVars, engineVars, syncing, syncs, dropped, late, hurried>>
            /\ \E c \in Conn : Subscribe(c) \/ ClientGone(c) \/ Deliver(c) \/ EndStream(c)
  <1>1. CASE LiveBeginMatch
    <2>1. mc.size \in 0..TotalRounds
      BY SelectionFacts DEF EngineInv, EngineTypeOK, MatchCreatedTypeOK
    <2>2. mc.size > 0 => Sends /\ UNCHANGED appVars
      BY <1>1 DEF Sends, LiveBeginMatch
    <2>3. ~(mc.size > 0) => UNCHANGED <<streamVars, appVars, early, dropped, late>>
      BY <1>1 DEF LiveBeginMatch
    <2> QED
      BY <2>2, <2>3
  <1>2. QuietStep \/ LiveArmFirstRound \/ LiveFireTimer
          => UNCHANGED <<streamVars, appVars, early, dropped, late>>
    BY DEF QuietStep, LiveArmFirstRound, LiveFireTimer, watchVars
  <1>3. LiveRevealRound \/ LiveEndMatch => Sends /\ UNCHANGED appVars
    BY DEF LiveRevealRound, LiveEndMatch, Sends
  <1>4. (\E c \in Call : LiveStopTimer(c)) => UNCHANGED <<streamVars, appVars, early, dropped, late>>
    BY DEF LiveStopTimer
  <1>5. ASSUME NEW r \in Rounds, LiveWakeUp(r) \/ SyncTimer(r) PROVE Sends /\ UNCHANGED appVars
    BY <1>5 DEF LiveWakeUp, SyncTimer, Sends
  <1>6. ASSUME NEW r \in Rounds, LiveArmRound(r)
        PROVE  UNCHANGED <<streamVars, appVars, early, dropped, late>>
    BY <1>6 DEF LiveArmRound, watchVars
  <1>7. ASSUME NEW r \in Rounds, Answers(r)
        PROVE  /\ UNCHANGED <<streamVars, early, dropped, late, hurried>>
               /\ \E s \in Rounds : selectAnswer(s)
    BY <1>7 DEF Answers, watchVars
  <1>8. ASSUME NEW c \in Conn, Subscribe(c) \/ ClientGone(c) \/ Deliver(c) \/ EndStream(c)
        PROVE  UNCHANGED <<sharedVars, engineVars, syncing, syncs, dropped, late, hurried>>
    BY <1>8 DEF Subscribe, ClientGone, Deliver, EndStream, watchVars
  <1>9. (\E c \in Call : OthersAnswer(c)) => UNCHANGED <<streamVars, appVars, early, dropped, late>>
    BY DEF OthersAnswer, watchVars
  <1> QED
    BY <1>1, <1>2, <1>3, <1>4, <1>5, <1>6, <1>7, <1>8, <1>9 DEF LiveNext, HandlerStep

LEMMA LiveTypeStep ==
  ASSUME CalmInv, LiveTypeOK, LiveNext
  PROVE  LiveTypeOK'
  <1>0. EngineInv /\ StreamsTypeOK /\ ClientTypeInv
    BY DEF CalmInv, LiveTypeOK
  <1>1. EngineTypeOK'
    BY CalmStep DEF CalmInv, EngineInv
  <1>2. UNCHANGED appVars => ClientTypeInv'
    BY <1>0 DEF appVars, ClientTypeInv
  <1>3. UNCHANGED streamVars => StreamsTypeOK'
    BY <1>0 DEF streamVars, StreamsTypeOK
  <1>4. StreamsTypeOK' /\ ClientTypeInv'
    <2>1. CASE Sends /\ UNCHANGED appVars
      <3>1. PICK es \in Seq(Event) : Sent(es)
        BY <1>0, <2>1, SendsSends
      <3>2. StreamsTypeOK'
        BY <1>0, <3>1, BroadcastType DEF Sent
      <3> QED
        BY <1>2, <2>1, <3>2
    <2>2. CASE UNCHANGED <<streamVars, appVars>>
      BY <1>2, <1>3, <2>2
    <2>3. CASE UNCHANGED streamVars /\ \E r \in Rounds : selectAnswer(r)
      BY <1>0, <1>3, <2>3, ClientType
    <2>4. ASSUME NEW c \in Conn, Subscribe(c) \/ ClientGone(c) \/ Deliver(c) \/ EndStream(c)
          PROVE  StreamsTypeOK' /\ ClientTypeInv'
      <3>1. Register(c) \/ HangUp(c) \/ Return(c) \/ \E e \in Event : Receive(c, e)
        BY <2>4 DEF Subscribe, ClientGone, Deliver, EndStream
      <3>2. UNCHANGED appVars \/ startGame \/ \E e \in Event : OnEvent(e)
        BY <2>4 DEF Subscribe, ClientGone, Deliver, EndStream
      <3> QED
        BY <1>0, <1>2, <3>1, <3>2, StreamsType, ClientType
    <2> QED
      BY <1>0, <2>1, <2>2, <2>3, <2>4, StreamSteps
  <1>5. syncing' \subseteq Rounds /\ syncs' \in 0..MaxSyncs
    <2> USE DEF LiveTypeOK
    <2>0. syncing \subseteq Rounds /\ syncs \in 0..MaxSyncs /\ MaxSyncs \in Nat /\ 1 \in Rounds
      BY LiveAssumption, SentEvents DEF LiveAssumption
    <2>1. HandlerStep => syncing' \subseteq Rounds /\ syncs' = syncs
      BY <2>0 DEF HandlerStep, QuietStep, LiveBeginMatch, LiveArmFirstRound, LiveRevealRound, LiveEndMatch,
             LiveFireTimer, LiveStopTimer, LiveWakeUp, LiveArmRound
    <2>2. ASSUME NEW r \in Rounds, SyncTimer(r) PROVE syncing' = syncing /\ syncs' \in 0..MaxSyncs
      BY <2>0, <2>2 DEF SyncTimer
    <2>3. ASSUME NEW r \in Rounds, Answers(r) PROVE UNCHANGED <<syncing, syncs>>
      BY <2>3 DEF Answers
    <2>4. ASSUME NEW c \in Conn, Subscribe(c) \/ ClientGone(c) \/ Deliver(c) \/ EndStream(c)
          PROVE  UNCHANGED <<syncing, syncs>>
      BY <2>4 DEF Subscribe, ClientGone, Deliver, EndStream
    <2>5. (\E c \in Call : OthersAnswer(c)) => UNCHANGED <<syncing, syncs>>
      BY DEF OthersAnswer
    <2> QED
      BY <2>0, <2>1, <2>2, <2>3, <2>4, <2>5 DEF LiveNext
  <1>6. {early, dropped, late, hurried}' \subseteq BOOLEAN
    <2>0. {early, dropped, late, hurried} \subseteq BOOLEAN
      BY DEF LiveTypeOK
    <2>1. early' \in BOOLEAN
      <3>1. UNCHANGED early \/ early' = ~Started(1)
        BY DEF LiveNext, HandlerStep, QuietStep, LiveBeginMatch, LiveArmFirstRound, LiveRevealRound,
               LiveEndMatch, LiveFireTimer, LiveStopTimer, LiveWakeUp, LiveArmRound, SyncTimer, Answers, OthersAnswer,
               Subscribe, ClientGone, Deliver, EndStream, watchVars
      <3> QED
        BY <2>0, <3>1
    <2>2. dropped' \in BOOLEAN
      <3>1. Sends => dropped' \in BOOLEAN
        <4>1. ASSUME NEW es \in Seq(Event), Sent(es) PROVE dropped' \in BOOLEAN
          BY <4>1, Zenon DEF Sent
        <4> QED
          BY <1>0, <4>1, SendsSends
      <3> QED
        BY <1>0, <2>0, <3>1, StreamSteps
    <2>3. late' \in BOOLEAN
      <3>1. LiveRevealRound => late' \in BOOLEAN
        BY Zenon DEF LiveRevealRound
      <3>2. ASSUME NEW r \in Rounds, LiveWakeUp(r) PROVE late' \in BOOLEAN
        BY <3>2, Zenon DEF LiveWakeUp
      <3>3. Sends /\ ~LiveRevealRound /\ (\A r \in Rounds : ~LiveWakeUp(r)) => late' = late
        BY DEF Sends, LiveBeginMatch, SyncTimer, LiveEndMatch
      <3> QED
        BY <1>0, <2>0, <3>1, <3>2, <3>3, StreamSteps
    <2>4. hurried' \in BOOLEAN
      <3>1. hurried' = hurried \/ hurried' = TRUE
        BY DEF LiveNext, HandlerStep, QuietStep, LiveBeginMatch, LiveArmFirstRound, LiveRevealRound,
               LiveEndMatch, LiveFireTimer, LiveStopTimer, LiveWakeUp, LiveArmRound, SyncTimer, Answers, OthersAnswer,
               Subscribe, ClientGone, Deliver, EndStream, watchVars
      <3> QED
        BY <2>0, <3>1
    <2> QED
      BY <2>1, <2>2, <2>3, <2>4
  <1> QED
    BY <1>1, <1>4, <1>5, <1>6 DEF LiveTypeOK

-----------------------------------------------------------------------------
(* Until the app subscribes no event goes to its stream. *)
LEMMA StreamInvStep ==
  ASSUME CalmInv, LiveTypeOK, StreamInv, LiveNext
  PROVE  StreamInv'
  <1>0. EngineInv
    BY DEF CalmInv
  <1>1. /\ Mine \in Conn /\ Owner[Mine] = Me /\ Mine # NoConn
        /\ registered \in [User -> Conn \cup {NoConn}] /\ channel \in [Conn -> Seq(Event)]
    BY LiveAssumption, StreamsAssumption
    DEF LiveAssumption, StreamsAssumption, NoConn, LiveTypeOK, StreamsTypeOK
  <1>2. Owner[Mine] \in User /\ \A c \in Conn : Owner[c] \in User
    BY <1>1, StreamsAssumption DEF StreamsAssumption
  <1> DEFINE Nothing == /\ channel[Mine] = <<>> /\ registered[Me] # Mine
                        /\ ~early /\ currentRound = NoRound /\ clock = NoRound
                        /\ ~matchResult /\ Mine \notin hungUp
                        /\ \A r \in Rounds \cup {NoRound} : roundResults[r] = NoRound
  <1> SUFFICES ASSUME Mine \notin serving' \cup served' PROVE Nothing'
    BY DEF StreamInv
  <1>3. CASE Sends /\ UNCHANGED appVars
    <2>1. PICK es \in Seq(Event) : Sent(es)
      BY <1>0, <1>3, SendsSends
    <2>2. UNCHANGED <<registered, serving, served, hungUp>>
          /\ channel' = [c \in Conn |-> IF registered[Owner[c]] = c
                                        THEN Filled(channel[c], es) ELSE channel[c]]
      BY <2>1 DEF Sent, BroadcastToRoom
    <2>3. Nothing
      BY <2>2 DEF StreamInv
    <2>4. channel'[Mine] = channel[Mine]
      BY <1>1, <2>2, <2>3
    <2>5. UNCHANGED early
      BY <1>3 DEF Sends, LiveBeginMatch, LiveWakeUp, SyncTimer, LiveRevealRound, LiveEndMatch
    <2> QED
      BY <1>3, <2>2, <2>3, <2>4, <2>5 DEF appVars
  <1>4. CASE UNCHANGED <<streamVars, appVars, early>>
    BY <1>4 DEF streamVars, appVars, StreamInv
  <1>5. CASE UNCHANGED <<streamVars, early>> /\ \E r \in Rounds : selectAnswer(r)
    BY <1>5 DEF streamVars, selectAnswer, StreamInv
  <1>6. ASSUME NEW c \in Conn, Subscribe(c) \/ ClientGone(c) \/ Deliver(c) \/ EndStream(c)
        PROVE  Nothing'
    <2> USE DEF watchVars
    <2>1. CASE Subscribe(c)
      <3>1. c # Mine /\ serving \subseteq serving' /\ served' = served
        BY <2>1 DEF Subscribe, Register
      <3>2. Nothing
        BY <3>1 DEF StreamInv
      <3>3. registered' = [registered EXCEPT ![Owner[c]] = c]
            /\ UNCHANGED <<channel, hungUp, early, appVars>>
        BY <2>1, <3>1 DEF Subscribe, Register
      <3>4. registered'[Me] # Mine
        BY <1>1, <1>2, <3>1, <3>2, <3>3
      <3> QED
        BY <3>2, <3>3, <3>4 DEF appVars
    <2>2. CASE ClientGone(c)
      <3>1. UNCHANGED <<registered, serving, served, channel, appVars, early>>
            /\ c \in serving /\ hungUp' = hungUp \cup {c}
        BY <2>2 DEF ClientGone, HangUp
      <3> QED
        BY <3>1 DEF StreamInv, appVars
    <2>3. CASE Deliver(c)
      <3>1. /\ UNCHANGED <<registered, serving, served, hungUp, early>>
            /\ c \in serving /\ channel' = [channel EXCEPT ![c] = Tail(@)]
        BY <2>3 DEF Deliver, Receive
      <3>2. c # Mine
        BY <3>1
      <3>3. UNCHANGED appVars /\ channel'[Mine] = channel[Mine]
        BY <1>1, <2>3, <3>1, <3>2 DEF Deliver
      <3> QED
        BY <3>1, <3>3 DEF StreamInv, appVars
    <2>4. CASE EndStream(c)
      <3>1. /\ c \in serving /\ serving' = serving \ {c} /\ served' = served \cup {c}
            /\ registered' = [registered EXCEPT ![Owner[c]] = NoConn]
            /\ UNCHANGED <<channel, hungUp, appVars, early>>
        BY <2>4 DEF EndStream, Return, Unregister
      <3>2. Nothing
        BY <3>1 DEF StreamInv
      <3>3. registered'[Me] # Mine
        BY <1>1, <1>2, <3>1, <3>2
      <3> QED
        BY <3>1, <3>2, <3>3 DEF appVars
    <2> QED
      BY <1>6, <2>1, <2>2, <2>3, <2>4
  <1> QED
    BY <1>0, <1>3, <1>4, <1>5, <1>6, StreamSteps

-----------------------------------------------------------------------------
(* The goroutines take turns. *)
LEMMA SingleStep ==
  ASSUME CalmInv, LiveTypeOK, SingleInv, LiveNext
  PROVE  SingleInv'
  <1> SUFFICES ASSUME ~hurried' PROVE SingleInv'
    BY DEF SingleInv
  <1>1. ~hurried /\ \A c \in Call : ~LiveStopTimer(c)
    <2>1. \A c \in Call : ~LiveStopTimer(c)
      BY DEF LiveStopTimer
    <2>2. \/ hurried' = hurried
          \/ \E c \in Call : LiveStopTimer(c)
      BY DEF LiveNext, HandlerStep, QuietStep, LiveBeginMatch, LiveArmFirstRound, LiveRevealRound,
             LiveEndMatch, LiveFireTimer, LiveWakeUp, LiveArmRound, SyncTimer, Answers, OthersAnswer,
             Subscribe, ClientGone, Deliver, EndStream, watchVars
    <2> QED
      BY <2>1, <2>2
  <1>2. (\A c \in Call : call[c].pc # "stopped") /\ syncing \subseteq {timer}
    BY <1>1 DEF SingleInv
  <1>3. PICK k \in Stage, r \in Rounds : UnderWay(k, r)
    BY <1>1 DEF SingleInv
  <1>4. /\ timer \in 0..TotalRounds /\ completedQ \in Seq(Rounds)
        /\ fired \in [Rounds -> Nat] /\ sleeping \in [Rounds -> Nat] /\ arming \in [Rounds -> Nat]
        /\ call \in [Call -> InFlight \cup {NoCall}] /\ mc \in Selection
        /\ rcPc # "idle" => completedQ # <<>>
        /\ mc.pc # "idle" => createdQ
        /\ mc.pc = "arm" => Started(1)
    BY DEF CalmInv, EngineInv, EngineTypeOK, TimerTypeOK, RoundCompletedTypeOK, CallTypeOK,
           MatchCreatedTypeOK, HandlersInv
  <1>5. EngineInv /\ ~Fault /\ faults = 0
    BY NoFaults DEF CalmInv
  <1>6. Rounds \subseteq Nat /\ 0 \notin Rounds /\ 1 \in Rounds /\ TotalRounds \in Nat
        /\ \A s \in Rounds : s # 0 /\ (s < TotalRounds => s + 1 \in Rounds)
    BY RoomAssumption DEF Rounds
  (* Steps that leave what is under way, and the rounds, alone. *)
  <1>7. ASSUME UNCHANGED <<timer, completedQ, fired, sleeping, arming, createdQ, asked, syncing>>,
               \A c \in Call : call'[c].pc # "stopped"
        PROVE  SingleInv'
    <2>1. UnderWay(k, r)'
      BY <1>3, <1>7 DEF UnderWay, Started, NextBegan
    <2> QED
      BY <1>2, <1>7, <2>1 DEF SingleInv
  <1>8. (timer # 0 => k = "timer" /\ timer = r) /\ (completedQ # <<>> => k = "done" /\ completedQ = <<r>>)
    BY <1>3 DEF UnderWay
  <1>9. /\ \A s \in Rounds : fired[s] > 0 => k = "fired" /\ s = r
        /\ \A s \in Rounds : sleeping[s] > 0 => k = "sleep" /\ s = r
        /\ \A s \in Rounds : arming[s] > 0 => k = "arm" /\ s = r
        /\ createdQ => k = "none"
    BY <1>3 DEF UnderWay
  <1>10. UNCHANGED call => \A c \in Call : call'[c].pc # "stopped"
    BY <1>2
  <1> USE DEF sharedVars, redisVars, clientVars, timerVars, mcVars, engineVars
  <1>11. CASE QuietStep
    <2>0. UNCHANGED syncing
      BY <1>11 DEF QuietStep
    <2>1. CASE SelectQuestions \/ PushQuestion \/ FinishMatch
      BY <1>7, <1>10, <2>0, <2>1 DEF SelectQuestions, PushQuestion, FinishMatch
    <2>2. CASE ScheduleNext
      <3>1. k = "done" /\ completedQ = <<r>>
        BY <1>4, <1>8, <2>2 DEF ScheduleNext
      <3>2. Head(completedQ) = r /\ Tail(completedQ) = <<>>
        BY <3>1
      <3>3. /\ r < TotalRounds /\ r + 1 \in Rounds
            /\ sleeping' = [sleeping EXCEPT ![r + 1] = @ + 1] /\ completedQ' = <<>>
            /\ UNCHANGED <<timer, fired, arming, createdQ, asked, call>>
        BY <1>6, <2>2, <3>2 DEF ScheduleNext
      <3>4. ~Started(r + 1) /\ ~createdQ
        BY <1>3, <3>1, <3>3 DEF UnderWay, NextBegan
      <3>5. \A s \in Rounds : sleeping'[s] = IF s = r + 1 THEN 1 ELSE 0
        BY <1>3, <1>4, <3>1, <3>3 DEF UnderWay
      <3>6. UnderWay("sleep", r + 1)'
        BY <1>3, <3>1, <3>3, <3>4, <3>5 DEF UnderWay, Started
      <3> QED
        BY <1>2, <1>10, <2>0, <3>3, <3>6 DEF SingleInv, Stage
    <2>3. CASE NoNextQuestion \/ AckCompleted
      <3>1. k = "done" /\ completedQ = <<r>>
        BY <1>4, <1>8, <2>3 DEF NoNextQuestion, AckCompleted
      <3>2. Tail(completedQ) = <<>>
        BY <3>1
      <3>3. completedQ' = <<>> /\ UNCHANGED <<timer, fired, sleeping, arming, createdQ, asked, call>>
        BY <2>3, <3>2 DEF NoNextQuestion, AckCompleted
      <3>4. UnderWay("none", r)'
        BY <1>3, <3>1, <3>3 DEF UnderWay, Started
      <3> QED
        BY <1>2, <1>10, <2>0, <3>3, <3>4 DEF SingleInv, Stage
    <2>4. ASSUME NEW s \in Rounds, PublishTimeout(s) PROVE SingleInv'
      <3>1. k = "fired" /\ s = r
        BY <1>9, <2>4 DEF PublishTimeout
      <3>2. completedQ = <<>> /\ Append(completedQ, r) = <<r>>
        <4>1. completedQ = <<>>
          BY <1>3, <3>1 DEF UnderWay
        <4> QED
          BY <4>1
      <3>3. fired' = [fired EXCEPT ![r] = @ - 1] /\ completedQ' = <<r>>
            /\ UNCHANGED <<timer, sleeping, arming, createdQ, asked, call>>
        BY <1>5, <2>4, <3>1, <3>2 DEF PublishTimeout, Published
      <3>4. \A x \in Rounds : fired'[x] = 0
        BY <1>3, <1>4, <3>1, <3>3 DEF UnderWay
      <3>5. UnderWay("done", r)'
        BY <1>3, <3>1, <3>3, <3>4 DEF UnderWay, Started, NextBegan
      <3> QED
        BY <1>2, <1>10, <2>0, <3>3, <3>5 DEF SingleInv, Stage
    <2>5. ASSUME NEW c \in Call,
                 StoreAnswer(c) \/ PublishAnswer(c) \/ CheckAllAnswered(c) \/ PublishCompleted(c)
          PROVE  SingleInv'
      <3>1. ~PublishCompleted(c)
        BY <1>2 DEF PublishCompleted
      <3>2. /\ UNCHANGED <<timer, completedQ, fired, sleeping, arming, createdQ, asked>>
            /\ \E x : call' = [call EXCEPT ![c] = x] /\ x.pc # "stopped"
        <4>1. CASE StoreAnswer(c)
          <5>1. UNCHANGED <<timer, completedQ, fired, sleeping, arming, createdQ, asked>>
            BY <4>1 DEF StoreAnswer
          <5>2. [call[c] EXCEPT !.pc = "stored"].pc = "stored" \/ call[c] = NoCall
            BY <1>4 DEF InFlight
          <5>3. call[c] # NoCall
            BY <4>1 DEF StoreAnswer, NoCall
          <5>4. \/ call' = [call EXCEPT ![c] = NoCall]
                \/ call' = [call EXCEPT ![c] = [call[c] EXCEPT !.pc = "stored"]]
            BY <4>1 DEF StoreAnswer
          <5> QED
            BY ZenonT(40), <5>1, <5>2, <5>3, <5>4 DEF NoCall
        <4>2. CASE PublishAnswer(c)
          <5>1. UNCHANGED <<timer, completedQ, fired, sleeping, arming, createdQ, asked>>
            BY <4>2 DEF PublishAnswer
          <5>2. call[c] \in InFlight
            BY <1>4, <4>2 DEF PublishAnswer, NoCall
          <5>3. [call[c] EXCEPT !.pc = "published"].pc = "published"
            BY <5>2 DEF InFlight
          <5>4. call' = [call EXCEPT ![c] = [call[c] EXCEPT !.pc = "published"]]
            BY <4>2 DEF PublishAnswer
          <5> QED
            BY <5>1, <5>3, <5>4
        <4>3. CASE CheckAllAnswered(c)
          <5>1. UNCHANGED <<timer, completedQ, fired, sleeping, arming, createdQ, asked>>
            BY <4>3 DEF CheckAllAnswered
          <5>2. call[c] \in InFlight
            BY <1>4, <4>3 DEF CheckAllAnswered, NoCall
          <5>3. [call[c] EXCEPT !.pc = "completing"].pc = "completing"
            BY <5>2 DEF InFlight
          <5>4. \/ call' = [call EXCEPT ![c] = NoCall]
                \/ call' = [call EXCEPT ![c] = [call[c] EXCEPT !.pc = "completing"]]
            BY <4>3 DEF CheckAllAnswered
          <5> QED
            BY <5>1, <5>3, <5>4 DEF NoCall
        <4> QED
          BY <2>5, <3>1, <4>1, <4>2, <4>3
      <3>3. \A d \in Call : call'[d].pc # "stopped"
        BY <1>2, <1>4, <3>2
      <3> QED
        BY <1>7, <2>0, <3>2, <3>3
    <2> QED
      BY <1>11, <2>1, <2>2, <2>3, <2>4, <2>5 DEF QuietStep
  <1>12. CASE LiveBeginMatch
    <2>1. BeginMatch /\ UNCHANGED syncing
      BY <1>12 DEF LiveBeginMatch
    <2>2. createdQ /\ \A s \in Rounds : ~Started(s)
      BY <1>4, <1>5, <2>1 DEF BeginMatch, CalmInv, QuestionsInv
    <2>3. \A s \in Rounds : s # 1 => ~Started(s)'
      BY <1>5, <2>1, <2>2, BeginMatchOpens
    <2>4. UNCHANGED <<timer, completedQ, fired, sleeping, arming, call>>
      BY <2>1 DEF BeginMatch
    <2>5. UnderWay("none", r)'
      BY <1>3, <1>9, <2>2, <2>3, <2>4 DEF UnderWay
    <2> QED
      BY <1>2, <1>10, <2>1, <2>4, <2>5 DEF SingleInv, Stage
  <1>13. CASE LiveArmFirstRound
    <2>1. /\ mc.pc = "arm" /\ timer' = 1 /\ createdQ' = FALSE /\ syncing' = syncing \cup {1}
          /\ UNCHANGED <<completedQ, fired, sleeping, arming, call, asked>>
      BY <1>13 DEF LiveArmFirstRound, ArmFirstRound, ArmTimer
    <2>2. k = "none" /\ Started(1) /\ \A s \in Rounds : Started(s) => s = 1
      BY <1>3, <1>4, <1>9, <2>1 DEF UnderWay
    <2>3. ~NextBegan(1)
      BY <1>6, <2>2 DEF NextBegan
    <2>4. timer = 0 /\ syncing = {}
      <3>1. timer = 0
        BY <1>3, <2>2 DEF UnderWay
      <3>2. syncing \subseteq Rounds
        BY DEF LiveTypeOK
      <3> QED
        BY <1>2, <1>6, <3>1, <3>2
    <2>5. UnderWay("timer", 1)'
      BY <1>3, <2>1, <2>2, <2>3 DEF UnderWay, Started, NextBegan
    <2> QED
      BY <1>6, <1>10, <2>1, <2>4, <2>5, <1>2 DEF SingleInv, Stage
  <1>14. CASE LiveRevealRound \/ LiveEndMatch
    <2>1. UNCHANGED <<timer, completedQ, fired, sleeping, arming, createdQ, asked, syncing, call>>
      BY <1>14 DEF LiveRevealRound, RevealRound, LiveEndMatch, EndMatch
    <2> QED
      BY <1>7, <1>10, <2>1
  <1>15. CASE LiveFireTimer
    <2>1. /\ timer # 0 /\ fired' = [fired EXCEPT ![timer] = @ + 1] /\ timer' = 0
          /\ syncing' = syncing \ {timer}
          /\ UNCHANGED <<completedQ, sleeping, arming, call, asked, createdQ>>
      BY <1>15 DEF LiveFireTimer, FireTimer
    <2>2. k = "timer" /\ timer = r /\ syncing' = {}
      BY <1>2, <1>8, <2>1
    <2>3. \A s \in Rounds : fired'[s] = IF s = r THEN 1 ELSE 0
      BY <1>3, <1>4, <2>1, <2>2 DEF UnderWay
    <2>4. UnderWay("fired", r)'
      BY <1>3, <2>1, <2>2, <2>3 DEF UnderWay, Started, NextBegan
    <2> QED
      BY <1>10, <2>1, <2>2, <2>4 DEF SingleInv, Stage
  <1>16. ASSUME NEW s \in Rounds, LiveWakeUp(s) PROVE SingleInv'
    <2>1. WakeUp(s) /\ UNCHANGED syncing /\ k = "sleep" /\ s = r
      BY <1>9, <1>16 DEF LiveWakeUp, WakeUp
    <2>2. /\ sleeping' = [sleeping EXCEPT ![r] = @ - 1] /\ arming' = [arming EXCEPT ![r] = @ + 1]
          /\ UNCHANGED <<timer, completedQ, fired, call, createdQ>>
      BY <2>1 DEF WakeUp
    <2>3. \A x \in Rounds : sleeping'[x] = 0 /\ arming'[x] = IF x = r THEN 1 ELSE 0
      <3>1. \A x \in Rounds : (sleeping[x] = IF x = r THEN 1 ELSE 0) /\ arming[x] = 0
        BY <1>3, <2>1 DEF UnderWay
      <3>2. \A x \in Rounds : /\ sleeping'[x] = IF x = r THEN sleeping[r] - 1 ELSE sleeping[x]
                              /\ arming'[x] = IF x = r THEN arming[r] + 1 ELSE arming[x]
        BY <1>4, <2>2
      <3> QED
        BY <1>3, <3>1, <3>2
    <2>4. ~Started(r) /\ Started(r)' /\ \A x \in Rounds : x # r => (Started(x)' <=> Started(x))
      <3>1. ~Started(r)
        BY <1>3, <2>1 DEF UnderWay
      <3>2. WakeUp(r)
        BY <2>1
      <3>3. Started(r)' /\ \A x \in Rounds : x # r => (Started(x)' <=> Started(x))
        BY ONLY <1>5, <3>2, WakeUpOpens, r \in Rounds
      <3> QED
        BY <3>1, <3>3
    <2>5. ~NextBegan(r)'
      <3>1. r < TotalRounds => r + 1 \in Rounds /\ r <= r + 1 /\ r + 1 # r
        BY <1>6
      <3>2. r < TotalRounds => ~Started(r + 1)
        BY <1>5, <2>4, <3>1 DEF EngineInv, PrefixInv
      <3>3. r < TotalRounds => ~Started(r + 1)'
        BY <2>4, <3>1, <3>2
      <3> QED
        BY <3>3 DEF NextBegan
    <2>6. UnderWay("arm", r)'
      BY <1>3, <1>9, <2>1, <2>2, <2>3, <2>4, <2>5 DEF UnderWay
    <2> QED
      BY <1>2, <1>10, <2>1, <2>2, <2>6 DEF SingleInv, Stage
  <1>17. ASSUME NEW s \in Rounds, LiveArmRound(s) PROVE SingleInv'
    <2>1. /\ k = "arm" /\ s = r /\ timer' = r /\ arming' = [arming EXCEPT ![r] = @ - 1]
          /\ syncing' = syncing \cup {r}
          /\ UNCHANGED <<completedQ, fired, sleeping, call, createdQ, asked>>
      BY <1>9, <1>17 DEF LiveArmRound, ArmRound, ArmTimer
    <2>2. timer = 0 /\ syncing = {}
      <3>1. timer = 0
        BY <1>3, <2>1 DEF UnderWay
      <3>2. syncing \subseteq Rounds
        BY DEF LiveTypeOK
      <3> QED
        BY <1>2, <1>6, <3>1, <3>2
    <2>3. \A x \in Rounds : arming'[x] = 0
      BY <1>3, <1>4, <2>1 DEF UnderWay
    <2>4. UnderWay("timer", r)'
      BY <1>3, <2>1, <2>3 DEF UnderWay, Started, NextBegan
    <2> QED
      BY <1>10, <2>1, <2>2, <2>4 DEF SingleInv, Stage
  <1>18. ASSUME NEW c \in Call, NEW a, ValidateAnswer(c, a), UNCHANGED syncing PROVE SingleInv'
    <2>1. /\ UNCHANGED <<timer, completedQ, fired, sleeping, arming, createdQ, asked>>
          /\ call' = [call EXCEPT ![c] = [pc |-> "validated", ans |-> a]]
      BY <1>18 DEF ValidateAnswer
    <2>2. \A d \in Call : call'[d].pc # "stopped"
      BY <1>2, <1>4, <2>1
    <2> QED
      BY <1>7, <1>18, <2>1, <2>2
  <1>19. ASSUME NEW s \in Rounds, SyncTimer(s) \/ Answers(s) PROVE SingleInv'
    <2>1. CASE SyncTimer(s)
      BY <1>7, <1>10, <2>1 DEF SyncTimer
    <2>2. CASE UNCHANGED <<sharedVars, engineVars, syncing>>
      BY <1>7, <1>10, <2>2
    <2>3. ASSUME NEW c \in Call, NEW p \in Points, ValidateAnswer(c, AnswerRequest(s, p)), UNCHANGED syncing
          PROVE  SingleInv'
      BY <1>18, <2>3
    <2> QED
      BY <1>19, <2>1, <2>2, <2>3 DEF Answers
  <1>20. ASSUME NEW c \in Conn, Subscribe(c) \/ ClientGone(c) \/ Deliver(c) \/ EndStream(c)
         PROVE  SingleInv'
    <2>1. UNCHANGED <<sharedVars, engineVars, syncing>>
      BY <1>20 DEF Subscribe, ClientGone, Deliver, EndStream
    <2> QED
      BY <1>7, <1>10, <2>1
  <1>21. ASSUME NEW c \in Call, OthersAnswer(c) PROVE SingleInv'
    BY <1>18, <1>21 DEF OthersAnswer
  <1> QED
    BY <1>1, <1>11, <1>12, <1>13, <1>14, <1>15, <1>16, <1>17, <1>18, <1>19, <1>20, <1>21 DEF LiveNext, HandlerStep

-----------------------------------------------------------------------------
(* The order of the events.                                                 *)

LEMMA FollowsFewer ==
  ASSUME NEW s, NEW n, NEW K, NEW L, NEW S, L \subseteq K
  PROVE  /\ Follows(s, n, K) => Follows(s, n, L)
         /\ UpToDate(s, n, K, S) => UpToDate(s, n, L, S)
  BY DEF Follows, UpToDate

LEMMA UpToDateAppend ==
  ASSUME NEW s \in Seq(GameEvent), NEW n, NEW K, NEW e \in GameEvent, NEW S, NEW T,
         UpToDate(s, n, K, S), S \subseteq T,
         e.kind \in K => e.round \in T,
         \A r \in T : r \in S \/ e = QuestionBroadcast(r)
  PROVE  UpToDate(Append(s, e), n, K, T)
  <1> DEFINE t == Append(s, e)
  <1>1. /\ Len(s) \in Nat
        /\ \A i \in 1..Len(s) : t[i] = s[i]
        /\ t[Len(s) + 1] = e
        /\ \A i \in 1..Len(t) : i \in 1..Len(s) \/ i = Len(s) + 1
        /\ Len(t) = Len(s) + 1
    BY AppendFacts
  <1> HIDE DEF t
  <1>2. \A j \in 1..Len(t) : t[j].kind \in K => t[j].round \in T
    BY <1>1 DEF UpToDate
  <1>3. ASSUME NEW r \in T, r < TotalRounds => r + 1 \notin T PROVE Ahead(t, n, r)
    <2>1. CASE r \in S
      <3>1. Ahead(s, n, r)
        BY <1>3, <2>1 DEF UpToDate
      <3>2. \A i \in 1..Len(s) : i \in 1..Len(t)
        BY <1>1
      <3> QED
        BY <1>1, <3>1, <3>2 DEF Ahead
    <2>2. CASE r \notin S
      <3>1. Len(s) + 1 \in 1..Len(t)
        BY <1>1
      <3> QED
        BY <1>1, <2>2, <3>1 DEF Ahead
    <2> QED
      BY <2>1, <2>2
  <1> QED
    BY <1>2, <1>3 DEF UpToDate, t

(* One event is sent to an app that is up to date. *)
LEMMA SendOne ==
  ASSUME NEW s \in Seq(GameEvent), NEW n \in Rounds \cup {NoRound}, NEW K, NEW e \in GameEvent,
         NEW S, NEW T, S \subseteq T, T \subseteq Rounds,
         Follows(s, n, K), UpToDate(s, n, K, S),
         e.kind \in K => e.round \in T /\ \A r \in S : r <= e.round,
         e.kind \in K /\ e.kind # "question" =>
           e.round \in S /\ (e.round < TotalRounds => e.round + 1 \notin S),
         \A r \in T : r \in S \/ e = QuestionBroadcast(r)
  PROVE  Follows(Append(s, e), n, K) /\ UpToDate(Append(s, e), n, K, T)
  <1>1. UpToDate(Append(s, e), n, K, T)
    BY UpToDateAppend
  <1>2. e.kind \in K => /\ n <= e.round
                        /\ \A j \in 1..Len(s) : s[j].kind \in K => s[j].round <= e.round
    <2>1. e.round \in Nat /\ NoRound = 0
      BY EventTypes
    <2>2. e.kind \in K /\ n # NoRound => n <= e.round
      BY DEF UpToDate
    <2>3. n = NoRound => n <= e.round
      BY <2>1
    <2>4. e.kind \in K => \A j \in 1..Len(s) : s[j].kind \in K => s[j].round <= e.round
      BY DEF UpToDate
    <2> QED
      BY <2>2, <2>3, <2>4
  <1>3. e.kind \in K /\ e.kind # "question" => Ahead(s, n, e.round)
    BY DEF UpToDate
  <1> QED
    BY <1>1, <1>2, <1>3, FollowsAppend

(* Rounds are opened in order: if the one after r is not open, none after r *)
(* is.                                                                      *)
LEMMA NoneAfter ==
  ASSUME EngineInv, NEW r \in Rounds, ~NextBegan(r), NEW x \in Rounds, Started(x)
  PROVE  x <= r
  <1>1. r \in Nat /\ x \in Nat /\ x <= TotalRounds /\ TotalRounds \in Nat
    BY RoomAssumption DEF Rounds
  <1> SUFFICES ASSUME r < x PROVE FALSE
    BY <1>1
  <1>2. r + 1 \in Rounds /\ r + 1 <= x /\ r < TotalRounds
    BY <1>1 DEF Rounds
  <1>3. Started(r + 1)
    BY <1>2 DEF EngineInv, PrefixInv
  <1> QED
    BY <1>2, <1>3 DEF NextBegan

(* Nothing is sent to the stream of the app, and it handles nothing. *)
LEMMA OrderKept ==
  ASSUME OrderInv, early' => early, dropped => dropped', late => late', hurried => hurried',
         hungUp \subseteq hungUp', matchResult => matchResult',
         channel'[Mine] = channel[Mine], currentRound' = currentRound, asked' = asked,
         registered'[Me] = Mine => registered[Me] = Mine
  PROVE  OrderInv'
  <1>1. Kinds' \subseteq Kinds
    BY DEF Kinds
  <1>2. Opened' = Opened
    BY DEF Opened, Started
  <1>3. /\ Follows(channel[Mine], currentRound, Kinds) => Follows(channel[Mine], currentRound, Kinds')
        /\ UpToDate(channel[Mine], currentRound, Kinds, Opened)
             => UpToDate(channel[Mine], currentRound, Kinds', Opened)
    BY ONLY <1>1, FollowsFewer
  <1>4. (Follows(channel[Mine], currentRound, Kinds) => Follows(channel[Mine], currentRound, Kinds)')
        /\ (UpToDate(channel[Mine], currentRound, Kinds, Opened)
             => UpToDate(channel[Mine], currentRound, Kinds, Opened)')
    BY <1>2, <1>3
  <1> QED
    BY <1>4 DEF OrderInv

(* What is sent to the room reaches the stream that is registered, if it    *)
(* has room.                                                                *)
LEMMA SentToMine ==
  ASSUME StreamsTypeOK, NEW es \in Seq(Event), Sent(es), ~dropped'
  PROVE  /\ ~dropped
         /\ UNCHANGED <<registered, serving, served, hungUp>>
         /\ channel'[Mine] = IF registered[Me] = Mine THEN channel[Mine] \o es ELSE channel[Mine]
  <1>1. /\ Mine \in Conn /\ Owner[Mine] = Me /\ Me \in User /\ Mine # NoConn
        /\ channel[Mine] \in Seq(Event) /\ Len(channel[Mine]) <= Capacity
        /\ Len(channel[Mine]) \in Nat /\ Len(es) \in Nat /\ Capacity \in Nat
    BY LiveAssumption, StreamsAssumption DEF LiveAssumption, StreamsAssumption, StreamsTypeOK, NoConn
  <1>2. /\ ~dropped
        /\ \A u \in User : registered[u] = NoConn \/ ~(Len(channel[registered[u]]) + Len(es) > Capacity)
    BY DEF Sent
  <1>3. registered[Me] = Mine => Filled(channel[Mine], es) = channel[Mine] \o es
    BY SMTT(30), <1>1, <1>2, FilledType
  <1>4. channel'[Mine] = IF registered[Me] = Mine THEN Filled(channel[Mine], es) ELSE channel[Mine]
    BY <1>1 DEF Sent, BroadcastToRoom
  <1> QED
    BY <1>2, <1>3, <1>4 DEF Sent, BroadcastToRoom

(* Events are sent that an app that is up to date can take. *)
LEMMA OrderSend ==
  ASSUME LiveTypeOK, OrderInv, NEW es \in Seq(Event), Sent(es),
         UNCHANGED <<appVars, early, hurried>>, late => late',
         ASSUME ~late', Follows(channel[Mine], currentRound, Kinds),
                UpToDate(channel[Mine], currentRound, Kinds, Opened)
         PROVE  /\ Follows(channel[Mine] \o es, currentRound, Kinds)
                /\ UpToDate(channel[Mine] \o es, currentRound, Kinds, Opened')
  PROVE  OrderInv'
  <1> DEFINE n == currentRound
             K == Kinds
             s == channel[Mine]
  <1>1. Kinds' = K /\ currentRound' = n /\ matchResult' = matchResult
    BY DEF Kinds, appVars
  <1> SUFFICES ASSUME early', ~dropped', ~late', Mine \notin hungUp', ~matchResult'
               PROVE  /\ Follows(channel[Mine], currentRound, Kinds)'
                      /\ registered'[Me] = Mine => UpToDate(channel[Mine], currentRound, Kinds, Opened)'
    BY DEF OrderInv
  <1>2. /\ ~dropped /\ UNCHANGED <<registered, serving, served, hungUp>>
        /\ channel'[Mine] = IF registered[Me] = Mine THEN s \o es ELSE s
    BY SentToMine DEF LiveTypeOK
  <1>3. Follows(s, n, K) /\ (registered[Me] = Mine => UpToDate(s, n, K, Opened))
    BY <1>1, <1>2 DEF OrderInv
  <1>4. CASE registered[Me] = Mine
    <2>1. Follows(s \o es, n, K) /\ UpToDate(s \o es, n, K, Opened')
      BY <1>3, <1>4
    <2> QED
      BY <1>1, <1>2, <1>4, <2>1
  <1>5. CASE registered[Me] # Mine
    BY <1>1, <1>2, <1>3, <1>5
  <1> QED
    BY <1>4, <1>5

(* An event is put at the end. *)
LEMMA SeqConcat ==
  ASSUME NEW S, NEW s \in Seq(S), NEW d \in S, NEW e \in S
  PROVE  /\ s \o <<e>> = Append(s, e)
         /\ s \o (<<>> \o <<e>>) = Append(s, e)
         /\ s \o (<<d>> \o <<e>>) = Append(Append(s, d), e)
  OBVIOUS

(* What the engine and the syncTimers send comes in the order of the rounds *)
(* as long as none is completed or opened again after the next one began.   *)
LEMMA OrderSends ==
  ASSUME CalmInv, LiveTypeOK, SingleInv, OrderInv, Sends
  PROVE  OrderInv'
  <1> DEFINE n == currentRound
             K == Kinds
             s == channel[Mine]
             S == Opened
             T == Opened'
  <1>1. EngineInv /\ EngineTypeOK
    BY DEF CalmInv, EngineInv
  <1>2. s \in Seq(GameEvent) /\ n \in Rounds \cup {NoRound}
    BY EventTypes, LiveAssumption, StreamsAssumption
    DEF LiveTypeOK, StreamsTypeOK, ClientTypeInv, LiveAssumption
  <1>3. S \subseteq Rounds /\ T \subseteq Rounds /\ "question" \in K
        /\ \A e \in GameEvent : e.kind \in K => e.kind \in {"question", "roundResult", "timerSync"}
    BY DEF Opened, Kinds
  <1>4. \A x \in Rounds : Started(x) <=> x \in S
    BY DEF Opened
  <1>5. \A r \in Rounds : ~NextBegan(r) => /\ r < TotalRounds => r + 1 \notin S
                                           /\ \A x \in S : x <= r
    <2>1. \A r \in Rounds, x \in S : ~NextBegan(r) => x <= r
      BY <1>1, NoneAfter DEF Opened
    <2> QED
      BY <2>1 DEF NextBegan, Opened
  <1>6. asked' = asked => T = S
    BY DEF Opened, Started
  <1> HIDE DEF S, T, K
  (* One event of a round that is open, and is the last one. *)
  <1>7. ASSUME T = S, Follows(s, n, K), UpToDate(s, n, K, S), NEW e \in GameEvent,
               e.kind \in K => e.round \in S /\ ~NextBegan(e.round)
        PROVE  Follows(Append(s, e), n, K) /\ UpToDate(Append(s, e), n, K, T)
    <2>1. e.round \in Rounds
      BY EventTypes
    <2>2. /\ e.kind \in K => e.round \in T /\ \A r \in S : r <= e.round
          /\ e.kind \in K /\ e.kind # "question" =>
               e.round \in S /\ (e.round < TotalRounds => e.round + 1 \notin S)
          /\ \A r \in T : r \in S
      <3>1. e.kind \in K => /\ e.round < TotalRounds => e.round + 1 \notin S
                            /\ \A x \in S : x <= e.round
        BY ONLY <1>5, <1>7, <2>1
      <3> QED
        BY ONLY <1>7, <3>1
    <2> QED
      BY ONLY <1>2, <1>3, <1>7, <2>2, SendOne
  <1>8. CASE LiveBeginMatch /\ mc.size > 0
    <2>1. BeginMatch /\ Sent(<<QuestionBroadcast(1)>>) /\ UNCHANGED <<appVars, early, late, hurried>>
      BY <1>8 DEF LiveBeginMatch
    <2>2. faults = 0
      BY NoFaults
    <2>3. \A r \in Rounds : ~Started(r)
      BY <1>1, <2>1, <2>2 DEF BeginMatch, CalmInv, QuestionsInv, EngineInv, HandlersInv
    <2>4. Started(1)' /\ \A r \in Rounds : r # 1 => ~Started(r)'
      BY <1>1, <1>8, <2>1, <2>3, BeginMatchOpens
    <2>5. 1 \in Rounds /\ S = {} /\ T = {1}
      BY <2>3, <2>4, SentEvents DEF Opened, S, T
    <2>6. QuestionBroadcast(1) \in GameEvent /\ QuestionBroadcast(1).kind = "question"
          /\ QuestionBroadcast(1).round = 1
      BY <2>5, EventTypes
    <2>7. ASSUME Follows(s, n, K), UpToDate(s, n, K, S)
          PROVE  Follows(Append(s, QuestionBroadcast(1)), n, K)
                 /\ UpToDate(Append(s, QuestionBroadcast(1)), n, K, T)
      BY ONLY <1>2, <1>3, <2>5, <2>6, <2>7, SendOne
    <2>8. s \o <<QuestionBroadcast(1)>> = Append(s, QuestionBroadcast(1))
      BY <1>2, <2>6, SeqConcat
    <2>9. <<QuestionBroadcast(1)>> \in Seq(Event)
      BY <2>5, SentEvents
    <2> QED
      BY <2>1, <2>7, <2>8, <2>9, OrderSend DEF S, T, K
  <1>9. ASSUME NEW r \in Rounds, LiveWakeUp(r) PROVE OrderInv'
    <2> DEFINE e == QuestionBroadcast(r)
    <2>1. WakeUp(r) /\ Sent(<<e>>) /\ UNCHANGED <<appVars, early, hurried>>
          /\ late' = (late \/ NextBegan(r))
      BY <1>9 DEF LiveWakeUp
    <2>2. T = S \cup {r}
      <3>1. Started(r)' /\ \A x \in Rounds : x # r => (Started(x)' <=> Started(x))
        BY <1>1, <2>1, WakeUpOpens
      <3> QED
        BY <3>1 DEF Opened, S, T
    <2>3. e \in GameEvent /\ e.kind = "question" /\ e.round = r
      BY EventTypes
    <2>4. ASSUME ~late', Follows(s, n, K), UpToDate(s, n, K, S)
          PROVE  Follows(Append(s, e), n, K) /\ UpToDate(Append(s, e), n, K, T)
      <3>0. ~NextBegan(r)
        BY <2>1, <2>4
      <3>1. \A x \in S : x <= r
        BY ONLY <1>5, <3>0, r \in Rounds
      <3> HIDE DEF e
      <3>2. /\ e.kind \in K => e.round \in T /\ \A x \in S : x <= e.round
            /\ e.kind = "question"
        BY <2>2, <2>3, <3>1
      <3>3. S \subseteq T /\ \A x \in T : x \in S \/ e = QuestionBroadcast(x)
        BY <2>2 DEF e
      <3> QED
        BY ONLY <1>2, <1>3, <2>3, <2>4, <3>2, <3>3, SendOne
    <2>5. s \o <<e>> = Append(s, e)
      BY <1>2, <2>3, SeqConcat
    <2>6. <<e>> \in Seq(Event)
      BY SentEvents
    <2>7. late => late'
      BY <2>1
    <2> QED
      BY <2>1, <2>4, <2>5, <2>6, <2>7, OrderSend DEF S, T, K
  <1>10. ASSUME NEW r \in Rounds, SyncTimer(r) PROVE OrderInv'
    <2> DEFINE e == TimerSync(r)
    <2>1. r \in syncing /\ Sent(<<e>>) /\ UNCHANGED <<appVars, early, late, hurried, asked>>
      BY <1>10 DEF SyncTimer, engineVars, clientVars
    <2>2. e \in GameEvent /\ e.kind = "timerSync" /\ e.round = r
      BY EventTypes
    <2>3. e.kind \in K => r \in S /\ ~NextBegan(r)
      <3>1. e.kind \in K => ~hurried
        BY <2>2 DEF Kinds, K
      <3>2. ~hurried => Started(r) /\ ~NextBegan(r)
        <4> SUFFICES ASSUME ~hurried PROVE Started(r) /\ ~NextBegan(r)
          OBVIOUS
        <4>1. PICK k \in Stage, x \in Rounds : UnderWay(k, x)
          BY DEF SingleInv
        <4>2. timer = r /\ r # 0
          BY <2>1, EventTypes DEF SingleInv, NoRound
        <4> QED
          BY <4>1, <4>2 DEF UnderWay
      <3> QED
        BY <1>4, <3>1, <3>2
    <2>4. ASSUME Follows(s, n, K), UpToDate(s, n, K, S)
          PROVE  Follows(Append(s, e), n, K) /\ UpToDate(Append(s, e), n, K, T)
      BY <1>6, <1>7, <2>1, <2>2, <2>3, <2>4
    <2>5. s \o <<e>> = Append(s, e)
      BY <1>2, <2>2, SeqConcat
    <2>6. <<e>> \in Seq(Event)
      BY SentEvents
    <2> QED
      BY <2>1, <2>4, <2>5, <2>6, OrderSend DEF S, T, K
  <1>11. CASE LiveRevealRound
    <2> DEFINE r == Head(completedQ)
               d == RoundResult(r)
               e == LeaderboardUpdate(r)
    <2>1. /\ r \in Rounds /\ Started(r) /\ late' = (late \/ NextBegan(r))
          /\ Sent(<<d>> \o <<e>>) \/ Sent(<<>> \o <<e>>)
      BY <1>1, <1>11, RevealSends
    <2>2. UNCHANGED <<appVars, early, hurried, asked>>
      BY <1>11 DEF LiveRevealRound, RevealRound
    <2> HIDE DEF r
    <2>3. /\ d \in GameEvent /\ d.kind = "roundResult" /\ d.round = r
          /\ e \in GameEvent /\ e.kind = "leaderboard"
      BY <2>1, EventTypes
    <2>4. r \in S /\ T = S /\ e.kind \notin K
      BY <1>3, <1>4, <1>6, <2>1, <2>2, <2>3
    <2>5. /\ <<d>> \o <<e>> \in Seq(Event) /\ <<>> \o <<e>> \in Seq(Event)
          /\ s \o (<<>> \o <<e>>) = Append(s, e)
          /\ s \o (<<d>> \o <<e>>) = Append(Append(s, d), e)
      BY <1>2, <2>1, <2>3, SentEvents, SeqConcat
    <2>6. ASSUME ~late', Follows(s, n, K), UpToDate(s, n, K, S)
          PROVE  /\ Follows(Append(s, e), n, K) /\ UpToDate(Append(s, e), n, K, T)
                 /\ Follows(Append(Append(s, d), e), n, K) /\ UpToDate(Append(Append(s, d), e), n, K, T)
      <3>1. Follows(Append(s, e), n, K) /\ UpToDate(Append(s, e), n, K, T)
        BY <1>7, <2>3, <2>4, <2>6
      <3>2. Follows(Append(s, d), n, K) /\ UpToDate(Append(s, d), n, K, T)
        BY <1>7, <2>1, <2>3, <2>4, <2>6
      <3>3. Append(s, d) \in Seq(GameEvent)
        BY <1>2, <2>3
      <3> HIDE DEF d, e
      <3>4. \A x \in T : x \in T
        OBVIOUS
      <3> QED
        BY ONLY <1>2, <1>3, <2>3, <2>4, <3>1, <3>2, <3>3, <3>4, SendOne
    <2>7. late => late'
      BY <2>1
    <2> QED
      BY <2>1, <2>2, <2>5, <2>6, <2>7, OrderSend DEF S, T, K
  <1>12. CASE LiveEndMatch
    <2> DEFINE e == MatchEnd(TotalRounds)
    <2>1. Sent(<<e>>) /\ UNCHANGED <<appVars, early, late, hurried, asked>>
      BY <1>12 DEF LiveEndMatch, EndMatch
    <2>2. TotalRounds \in Rounds /\ e \in GameEvent /\ e.kind = "matchEnd" /\ <<e>> \in Seq(Event)
      BY EventTypes, SentEvents
    <2>3. e.kind \notin K
      BY <1>3, <2>2
    <2>4. ASSUME Follows(s, n, K), UpToDate(s, n, K, S)
          PROVE  Follows(Append(s, e), n, K) /\ UpToDate(Append(s, e), n, K, T)
      BY <1>6, <1>7, <2>1, <2>2, <2>3, <2>4
    <2>5. s \o <<e>> = Append(s, e)
      BY <1>2, <2>2, SeqConcat
    <2> QED
      BY <2>1, <2>2, <2>4, <2>5, OrderSend DEF S, T, K
  <1> QED
    BY <1>8, <1>9, <1>10, <1>11, <1>12 DEF Sends

(* The app takes the next event, and is still up to date. *)
LEMMA UpToDateTail ==
  ASSUME NEW s \in Seq(GameEvent), s # <<>>, NEW n \in Nat, NEW K, NEW S, "question" \in K,
         S \subseteq Rounds, Follows(s, n, K), UpToDate(s, n, K, S),
         \A r \in S : (r < TotalRounds => r + 1 \notin S) => \A x \in S : x <= r
  PROVE  UpToDate(Tail(s), IF Head(s).kind = "question" THEN Head(s).round ELSE n, K, S)
  <1> DEFINE m == IF Head(s).kind = "question" THEN Head(s).round ELSE n
             t == Tail(s)
  <1>1. /\ Head(s) = s[1] /\ 1 \in 1..Len(s)
        /\ \A i \in 1..Len(t) : i + 1 \in 1..Len(s) /\ t[i] = s[i + 1]
    BY TailFacts
  <1>2. m # NoRound => m \in S
    BY <1>1 DEF UpToDate
  <1>3. \A j \in 1..Len(t) : t[j].kind \in K => t[j].round \in S
    BY <1>1 DEF UpToDate
  <1>4. ASSUME NEW r \in S, r < TotalRounds => r + 1 \notin S PROVE Ahead(t, m, r)
    <2>1. Ahead(s, n, r)
      BY <1>4 DEF UpToDate
    <2>2. Ahead(t, m, r) \/ (Head(s).kind = "question" /\ n = r)
      BY <2>1, FollowsTail
    <2>3. ASSUME Head(s).kind = "question", n = r PROVE m = r
      <3>1. m \in S /\ m <= r /\ n <= m
        BY <1>1, <1>4, <2>3 DEF UpToDate, Follows
      <3>2. m \in Nat /\ r \in Nat
        BY <3>1, EventTypes
      <3> QED
        BY <2>3, <3>1, <3>2
    <2> QED
      BY <2>2, <2>3 DEF Ahead
  <1> QED
    BY <1>2, <1>3, <1>4 DEF UpToDate

(* What has happened once stays on record, and an app whose stream was not  *)
(* there before the first round was late.                                   *)
LEMMA WatchSteps ==
  ASSUME EngineInv, LiveNext
  PROVE  /\ dropped => dropped'
         /\ late => late'
         /\ hurried => hurried'
         /\ early' => early \/ Subscribe(Mine)
  <1>1. dropped => dropped'
    <2>1. \A es \in Seq(Event) : Sent(es) => (dropped => dropped')
      BY DEF Sent
    <2> QED
      BY <2>1, SendsSends, StreamSteps
  <1>2. Sends => (late => late')
    BY DEF Sends, LiveBeginMatch, LiveWakeUp, SyncTimer, LiveRevealRound, LiveEndMatch
  <1>3. late => late'
    BY <1>2, StreamSteps
  <1>4. hurried => hurried'
    BY DEF LiveNext, HandlerStep, QuietStep, LiveBeginMatch, LiveArmFirstRound, LiveRevealRound,
           LiveEndMatch, LiveFireTimer, LiveStopTimer, LiveWakeUp, LiveArmRound, SyncTimer, Answers, OthersAnswer,
           Subscribe, ClientGone, Deliver, EndStream, watchVars
  <1>5. early' => early \/ Subscribe(Mine)
    <2>1. Sends => UNCHANGED early
      BY DEF Sends, LiveBeginMatch, LiveWakeUp, SyncTimer, LiveRevealRound, LiveEndMatch
    <2>2. ASSUME NEW c \in Conn, Subscribe(c) \/ ClientGone(c) \/ Deliver(c) \/ EndStream(c)
          PROVE  UNCHANGED early \/ Subscribe(Mine)
      BY <2>2 DEF Subscribe, ClientGone, Deliver, EndStream, watchVars
    <2> QED
      BY <2>1, <2>2, StreamSteps
  <1> QED
    BY <1>1, <1>3, <1>4, <1>5

(* What the app handles is the next event of its stream. *)
LEMMA AppHandles ==
  ASSUME LiveTypeOK, Deliver(Mine), Mine \notin hungUp, ~matchResult
  PROVE  LET e == Head(channel[Mine])
         IN  /\ channel[Mine] \in Seq(GameEvent) /\ channel[Mine] # <<>>
             /\ e \in GameEvent /\ e.round \in Rounds
             /\ OnEvent(e) /\ channel'[Mine] = Tail(channel[Mine])
             /\ UNCHANGED <<sharedVars, engineVars, registered, hungUp, watchVars>>
             /\ currentRound' = IF e.kind = "question" THEN e.round ELSE currentRound
             /\ currentRound \in Nat
  <1> DEFINE e == Head(channel[Mine])
  <1>1. channel \in [Conn -> Seq(GameEvent)] /\ Mine \in Conn /\ currentRound \in Nat
    BY EventTypes, LiveAssumption
    DEF LiveTypeOK, StreamsTypeOK, ClientTypeInv, LiveAssumption
  <1>2. /\ channel[Mine] # <<>> /\ OnEvent(e) /\ channel' = [channel EXCEPT ![Mine] = Tail(@)]
        /\ UNCHANGED <<sharedVars, engineVars, registered, hungUp, watchVars>>
    BY DEF Deliver, Receive
  <1>3. channel[Mine] \in Seq(GameEvent) /\ e \in GameEvent /\ e.round \in Rounds
    BY <1>1, <1>2, TailFacts, EventTypes
  <1>4. channel'[Mine] = Tail(channel[Mine])
    BY <1>1, <1>2
  <1>5. currentRound' = IF e.kind = "question" THEN e.round ELSE currentRound
    BY <1>2 DEF OnEvent, onQuestionBroadcast, onTimerSync, onRoundResult, onLeaderboardUpdate,
                onMatchEnd, appVars
  <1> QED
    BY <1>1, <1>2, <1>3, <1>4, <1>5

LEMMA OrderApp ==
  ASSUME CalmInv, LiveTypeOK, StreamInv, OrderInv, NEW c \in Conn,
         Subscribe(c) \/ ClientGone(c) \/ Deliver(c) \/ EndStream(c)
  PROVE  OrderInv'
  <1> USE DEF watchVars
  <1>1. /\ Mine \in Conn /\ Owner[Mine] = Me /\ Me \in User /\ Owner[c] \in User /\ Mine # NoConn
        /\ registered \in [User -> Conn \cup {NoConn}] /\ channel \in [Conn -> Seq(Event)]
    BY LiveAssumption, StreamsAssumption
    DEF LiveAssumption, StreamsAssumption, NoConn, LiveTypeOK, StreamsTypeOK
  <1>2. UNCHANGED <<asked, dropped, late, hurried>>
    BY DEF Subscribe, ClientGone, Deliver, EndStream, engineVars, clientVars
  <1>3. CASE Subscribe(Mine)
    <2>1. /\ early' = ~Started(1) /\ Mine \notin serving \cup served
          /\ UNCHANGED <<channel, currentRound>>
      BY <1>3 DEF Subscribe, Register, startGame
    <2>2. channel[Mine] = <<>> /\ currentRound = NoRound
      BY <2>1 DEF StreamInv
    <2> SUFFICES ASSUME early' PROVE OrderInv'
      BY DEF OrderInv
    <2>3. Opened' = {}
      <3>1. \A r \in Rounds : 1 \in Rounds /\ 1 <= r
        BY SentEvents DEF Rounds
      <3>2. \A r \in Rounds : ~Started(r)
        BY <2>1, <3>1 DEF CalmInv, EngineInv, PrefixInv
      <3> QED
        BY <1>2, <3>2 DEF Opened, Started
    <2>4. Follows(channel'[Mine], currentRound', Kinds')
      BY <2>1, <2>2 DEF Follows
    <2>5. UpToDate(channel'[Mine], currentRound', Kinds', Opened')
      BY <2>1, <2>2, <2>3 DEF UpToDate
    <2> QED
      BY <2>4, <2>5 DEF OrderInv
  <1>4. CASE Deliver(Mine)
    <2> DEFINE s == channel[Mine]
               n == currentRound
               e == Head(s)
               m == IF e.kind = "question" THEN e.round ELSE n
    <2>1. UNCHANGED <<hungUp, early>> /\ (matchResult => matchResult')
      BY <1>4 DEF Deliver, Receive, OnEvent, onQuestionBroadcast, onTimerSync, onRoundResult,
                  onLeaderboardUpdate, onMatchEnd, appVars
    <2> SUFFICES ASSUME early', ~dropped', ~late', Mine \notin hungUp', ~matchResult'
                 PROVE  /\ Follows(channel[Mine], currentRound, Kinds)'
                        /\ registered'[Me] = Mine => UpToDate(channel[Mine], currentRound, Kinds, Opened)'
      BY DEF OrderInv
    <2>2. /\ s \in Seq(GameEvent) /\ s # <<>> /\ n \in Nat /\ channel'[Mine] = Tail(s)
          /\ currentRound' = m /\ registered' = registered
      BY <1>4, <2>1, AppHandles
    <2>3. Follows(s, n, Kinds) /\ (registered[Me] = Mine => UpToDate(s, n, Kinds, Opened))
      BY <1>2, <2>1 DEF OrderInv
    <2>4. Kinds' = Kinds /\ Opened' = Opened /\ "question" \in Kinds /\ Opened \subseteq Rounds
      BY <1>2 DEF Kinds, Opened, Started
    <2>5. \A r \in Opened : (r < TotalRounds => r + 1 \notin Opened) => \A x \in Opened : x <= r
      <3>1. \A r, x \in Opened : ~NextBegan(r) => x <= r
        BY NoneAfter DEF CalmInv, Opened
      <3>2. \A r \in Rounds : (r < TotalRounds => r + 1 \notin Opened) => ~NextBegan(r)
        <4>1. \A r \in Rounds : r < TotalRounds => r + 1 \in Rounds
          BY RoomAssumption DEF Rounds
        <4> QED
          BY <4>1 DEF NextBegan, Opened
      <3> QED
        BY <2>4, <3>1, <3>2
    <2>6. Follows(Tail(s), m, Kinds)
      BY ONLY <2>2, <2>3, <2>4, FollowsTail
    <2>7. registered[Me] = Mine => UpToDate(Tail(s), m, Kinds, Opened)
      BY ONLY <2>2, <2>3, <2>4, <2>5, UpToDateTail
    <2> HIDE DEF m
    <2> QED
      BY <2>2, <2>4, <2>6, <2>7
  <1>5. CASE c # Mine /\ Subscribe(c)
    <2>1. /\ registered' = [registered EXCEPT ![Owner[c]] = c]
          /\ UNCHANGED <<channel, hungUp, early, appVars>>
      BY <1>5 DEF Subscribe, Register
    <2>2. registered'[Me] = Mine => registered[Me] = Mine
      BY <1>1, <1>5, <2>1
    <2> QED
      BY <1>2, <2>1, <2>2, OrderKept DEF appVars
  <1>6. CASE ClientGone(c)
    <2>1. UNCHANGED <<registered, channel, early, appVars>> /\ hungUp \subseteq hungUp'
      BY <1>6 DEF ClientGone, HangUp
    <2> QED
      BY <1>2, <2>1, OrderKept DEF appVars
  <1>7. CASE c # Mine /\ Deliver(c)
    <2>1. /\ channel' = [channel EXCEPT ![c] = Tail(@)]
          /\ UNCHANGED <<registered, hungUp, early, appVars>>
      BY <1>7 DEF Deliver, Receive
    <2>2. channel'[Mine] = channel[Mine]
      BY <1>1, <1>7, <2>1
    <2> QED
      BY <1>2, <2>1, <2>2, OrderKept DEF appVars
  <1>8. CASE EndStream(c)
    <2>1. /\ registered' = [registered EXCEPT ![Owner[c]] = NoConn]
          /\ UNCHANGED <<channel, hungUp, early, appVars>>
      BY <1>8 DEF EndStream, Return, Unregister
    <2>2. registered'[Me] = Mine => registered[Me] = Mine
      BY <1>1, <2>1
    <2> QED
      BY <1>2, <2>1, <2>2, OrderKept DEF appVars
  <1> QED
    BY <1>3, <1>4, <1>5, <1>6, <1>7, <1>8

(* No round is opened without its question being sent. *)
LEMMA AskedSends ==
  ASSUME LiveNext, ~Sends
  PROVE  asked' = asked
  <1> USE DEF clientVars, engineVars
  <1>1. QuietStep => asked' = asked
    BY DEF QuietStep, SelectQuestions, PushQuestion, ScheduleNext, NoNextQuestion, FinishMatch,
           AckCompleted, PublishTimeout, StoreAnswer, PublishAnswer, CheckAllAnswered, PublishCompleted
  <1>2. LiveBeginMatch => asked' = asked
    BY DEF LiveBeginMatch, BeginMatch, Sends
  <1>3. LiveArmFirstRound \/ LiveFireTimer => asked' = asked
    BY DEF LiveArmFirstRound, LiveFireTimer, ArmFirstRound, FireTimer
  <1>4. ASSUME NEW c \in Call, LiveStopTimer(c) PROVE asked' = asked
    BY <1>4 DEF LiveStopTimer, StopTimer
  <1>5. ASSUME NEW r \in Rounds, LiveArmRound(r) PROVE asked' = asked
    BY <1>5 DEF LiveArmRound, ArmRound
  <1>6. ASSUME NEW r \in Rounds, Answers(r) PROVE asked' = asked
    BY <1>6 DEF Answers, ValidateAnswer
  <1>7. ASSUME NEW c \in Conn, Subscribe(c) \/ ClientGone(c) \/ Deliver(c) \/ EndStream(c)
        PROVE  asked' = asked
    BY <1>7 DEF Subscribe, ClientGone, Deliver, EndStream
  <1>8. ASSUME NEW c \in Call, OthersAnswer(c) PROVE asked' = asked
    BY <1>8 DEF OthersAnswer, ValidateAnswer
  <1> QED
    BY <1>1, <1>2, <1>3, <1>4, <1>5, <1>6, <1>7, <1>8 DEF LiveNext, HandlerStep, Sends

LEMMA OrderStep ==
  ASSUME CalmInv, LiveTypeOK, StreamInv, SingleInv, OrderInv, LiveNext
  PROVE  OrderInv'
  <1>0. EngineInv
    BY DEF CalmInv
  <1>1. CASE Sends
    BY <1>1, OrderSends
  <1>2. CASE ~Sends /\ UNCHANGED <<streamVars, early, dropped, late>> /\ UNCHANGED <<currentRound, matchResult>>
    <2>1. hurried => hurried'
      BY <1>0, WatchSteps
    <2>2. asked' = asked
      BY <1>2, AskedSends
    <2> QED
      BY <1>2, <2>1, <2>2, OrderKept DEF streamVars
  <1>3. ASSUME NEW c \in Conn, Subscribe(c) \/ ClientGone(c) \/ Deliver(c) \/ EndStream(c)
        PROVE  OrderInv'
    BY <1>3, OrderApp
  <1>4. UNCHANGED appVars \/ (\E r \in Rounds : selectAnswer(r)) => UNCHANGED <<currentRound, matchResult>>
    BY DEF appVars, selectAnswer
  <1> QED
    BY <1>0, <1>1, <1>2, <1>3, <1>4, StreamSteps

-----------------------------------------------------------------------------
(* What the app shows.                                                      *)

LEMMA BookedStep ==
  ASSUME CalmInv, LiveTypeOK, StreamInv, OrderInv, BookedUnderItsRound, LiveNext
  PROVE  BookedUnderItsRound'
  <1>0. EngineInv
    BY DEF CalmInv
  <1> SUFFICES ASSUME early', ~dropped', ~late'
               PROVE  /\ roundResults'[NoRound] = NoRound
                      /\ \A r \in Rounds : roundResults'[r] \in {NoRound, r}
    BY DEF BookedUnderItsRound
  <1>1. ~dropped /\ ~late /\ (early \/ Subscribe(Mine))
    BY <1>0, WatchSteps
  <1>2. ASSUME early, roundResults' = roundResults
        PROVE  /\ roundResults'[NoRound] = NoRound
               /\ \A r \in Rounds : roundResults'[r] \in {NoRound, r}
    BY <1>1, <1>2 DEF BookedUnderItsRound
  <1>3. CASE Subscribe(Mine)
    BY <1>3 DEF Subscribe, startGame, Register, StreamInv
  <1>4. CASE Deliver(Mine) /\ Mine \notin hungUp /\ ~matchResult /\ early
    <2> DEFINE e == Head(channel[Mine])
    <2>1. /\ channel[Mine] \in Seq(GameEvent) /\ channel[Mine] # <<>>
          /\ OnEvent(e) /\ e.round \in Rounds /\ currentRound \in Nat
      BY <1>4, AppHandles
    <2>2. Follows(channel[Mine], currentRound, Kinds)
      BY <1>1, <1>4 DEF OrderInv
    <2>3. "question" \in Kinds /\ "roundResult" \in Kinds
      BY DEF Kinds
    <2>4. e.kind = "roundResult" => currentRound = e.round
      <3>1. e.kind \in Kinds /\ e.kind # "question" => currentRound = e.round
        BY ONLY <2>1, <2>2, <2>3, FollowsTail
      <3> QED
        BY <2>3, <3>1
    <2>5. \/ roundResults' = roundResults
          \/ roundResults' = [roundResults EXCEPT ![currentRound] = currentRound] /\ currentRound \in Rounds
      BY <2>1, <2>4 DEF OnEvent, onQuestionBroadcast, onTimerSync, onRoundResult,
                        onLeaderboardUpdate, onMatchEnd, appVars
    <2>6. roundResults \in [Rounds \cup {NoRound} -> Rounds \cup {NoRound}] /\ NoRound \notin Rounds
      BY EventTypes DEF LiveTypeOK, ClientTypeInv
    <2>7. roundResults[NoRound] = NoRound /\ \A r \in Rounds : roundResults[r] \in {NoRound, r}
      BY <1>1, <1>4 DEF BookedUnderItsRound
    <2> QED
      BY <2>5, <2>6, <2>7
  <1>5. early /\ ~(Deliver(Mine) /\ Mine \notin hungUp /\ ~matchResult) => roundResults' = roundResults
    <2>1. ASSUME NEW c \in Conn, Subscribe(c) \/ ClientGone(c) \/ Deliver(c) \/ EndStream(c),
                 ~(Deliver(Mine) /\ Mine \notin hungUp /\ ~matchResult)
          PROVE  roundResults' = roundResults
      BY <2>1 DEF Subscribe, ClientGone, Deliver, EndStream, startGame, appVars
    <2>2. UNCHANGED appVars \/ (\E r \in Rounds : selectAnswer(r)) => roundResults' = roundResults
      BY DEF appVars, selectAnswer
    <2> QED
      BY <1>0, <2>1, <2>2, StreamSteps
  <1> QED
    BY <1>1, <1>2, <1>3, <1>4, <1>5

LEMMA CountdownStep ==
  ASSUME CalmInv, LiveTypeOK, StreamInv, OrderInv, CountdownOfTheRound, LiveNext
  PROVE  CountdownOfTheRound'
  <1>0. EngineInv
    BY DEF CalmInv
  <1> SUFFICES ASSUME early', ~dropped', ~late', ~hurried' PROVE clock' = currentRound'
    BY DEF CountdownOfTheRound
  <1>1. ~dropped /\ ~late /\ ~hurried /\ (early \/ Subscribe(Mine))
    BY <1>0, WatchSteps
  <1>2. early /\ clock' = clock /\ currentRound' = currentRound => clock' = currentRound'
    BY <1>1 DEF CountdownOfTheRound
  <1>3. CASE Subscribe(Mine)
    BY <1>3 DEF Subscribe, startGame, Register, StreamInv
  <1>4. CASE Deliver(Mine) /\ Mine \notin hungUp /\ ~matchResult /\ early
    <2> DEFINE e == Head(channel[Mine])
    <2>1. /\ channel[Mine] \in Seq(GameEvent) /\ channel[Mine] # <<>>
          /\ OnEvent(e) /\ e.round \in Rounds /\ currentRound \in Nat
      BY <1>4, AppHandles
    <2>2. Follows(channel[Mine], currentRound, Kinds)
      BY <1>1, <1>4 DEF OrderInv
    <2>3. "question" \in Kinds /\ "timerSync" \in Kinds
      BY <1>1 DEF Kinds
    <2>4. e.kind = "timerSync" => currentRound = e.round
      <3>1. e.kind \in Kinds /\ e.kind # "question" => currentRound = e.round
        BY ONLY <2>1, <2>2, <2>3, FollowsTail
      <3> QED
        BY <2>3, <3>1
    <2> QED
      BY <1>2, <1>4, <2>1, <2>4 DEF OnEvent, onQuestionBroadcast, onTimerSync, onRoundResult,
                        onLeaderboardUpdate, onMatchEnd, appVars
  <1>5. early /\ ~(Deliver(Mine) /\ Mine \notin hungUp /\ ~matchResult)
          => clock' = clock /\ currentRound' = currentRound
    <2>1. ASSUME NEW c \in Conn, Subscribe(c) \/ ClientGone(c) \/ Deliver(c) \/ EndStream(c),
                 ~(Deliver(Mine) /\ Mine \notin hungUp /\ ~matchResult)
          PROVE  clock' = clock /\ currentRound' = currentRound
      BY <2>1 DEF Subscribe, ClientGone, Deliver, EndStream, startGame, appVars
    <2>2. UNCHANGED appVars \/ (\E r \in Rounds : selectAnswer(r))
            => clock' = clock /\ currentRound' = currentRound
      BY DEF appVars, selectAnswer
    <2> QED
      BY <1>0, <2>1, <2>2, StreamSteps
  <1> QED
    BY <1>1, <1>2, <1>3, <1>4, <1>5

-----------------------------------------------------------------------------
LEMMA LiveInvInit ==
  ASSUME LiveInit
  PROVE  LiveInv
  <1> USE DEF LiveInit, StreamsInit, ClientInit
  <1>1. /\ Mine \in Conn /\ Me \in User /\ Capacity \in Nat /\ MaxSyncs \in Nat
        /\ Event = GameEvent /\ Round = Rounds /\ NoRound = 0 /\ NoRound \notin Rounds
    BY LiveAssumption, StreamsAssumption, EventTypes DEF LiveAssumption, StreamsAssumption
  <1>2. CalmInv
    BY CalmInvInit DEF EngineAloneInit
  <1>3. EngineTypeOK
    BY <1>2 DEF CalmInv, EngineInv
  <1>4. StreamsTypeOK /\ ClientTypeInv
    <2>1. ClientTypeInv
      BY <1>1 DEF ClientTypeInv
    <2>2. channel \in [Conn -> Seq(Event)] /\ \A c \in Conn : channel[c] = <<>> /\ Len(channel[c]) = 0
      OBVIOUS
    <2>3. registered \in [User -> Conn \cup {NoConn}]
      OBVIOUS
    <2> QED
      BY <1>1, <2>1, <2>2, <2>3 DEF StreamsTypeOK
  <1>5. LiveTypeOK
    <2>1. syncing = {} /\ syncs = 0
      OBVIOUS
    <2>2. ~early /\ ~dropped /\ ~late /\ ~hurried
      OBVIOUS
    <2>3. early \in BOOLEAN /\ dropped \in BOOLEAN /\ late \in BOOLEAN /\ hurried \in BOOLEAN
      BY Zenon
    <2>4. syncing \subseteq Rounds /\ syncs \in 0..MaxSyncs
      BY ONLY <1>1, <2>1
    <2> QED
      BY ONLY <1>3, <1>4, <2>3, <2>4 DEF LiveTypeOK
  <1>6. StreamInv
    <2>1. channel[Mine] = <<>> /\ registered[Me] # Mine
      BY <1>1, StreamsAssumption DEF StreamsAssumption, NoConn
    <2> QED
      BY <1>1, <2>1 DEF StreamInv
  <1>7. SingleInv
    <2>1. 1 \in Rounds /\ 1 # 0
      BY SentEvents
    <2>2. UnderWay("none", 1)
      BY DEF UnderWay, EngineInit, Started
    <2>3. \A c \in Call : call[c].pc # "stopped"
      BY DEF EngineInit, NoCall
    <2> QED
      BY <2>1, <2>2, <2>3 DEF SingleInv, Stage
  <1>8. OrderInv /\ BookedUnderItsRound /\ CountdownOfTheRound
    BY DEF OrderInv, BookedUnderItsRound, CountdownOfTheRound
  <1> QED
    BY <1>2, <1>5, <1>6, <1>7, <1>8 DEF LiveInv

LEMMA LiveInvStep ==
  ASSUME LiveInv, LiveNext
  PROVE  LiveInv'
  <1>1. CalmInv'
    BY CalmStep DEF LiveInv
  <1> QED
    BY <1>1, LiveTypeStep, StreamInvStep, SingleStep, OrderStep, BookedStep, CountdownStep DEF LiveInv

LEMMA LiveInvStutter ==
  ASSUME LiveInv, UNCHANGED liveVars
  PROVE  LiveInv'
  <1> USE DEF liveVars
  <1>1. UNCHANGED <<sharedVars, engineVars>> /\ UNCHANGED <<streamVars, appVars, syncing, syncs, watchVars>>
    OBVIOUS
  <1>2. CalmInv'
    BY <1>1, CalmInvStutter DEF LiveInv
  <1> USE DEF sharedVars, engineVars, redisVars, clientVars, timerVars, mcVars, streamVars, appVars, watchVars
  <1>3. LiveTypeOK'
    <2>1. EngineTypeOK'
      BY <1>2 DEF CalmInv, EngineInv
    <2>2. StreamsTypeOK' /\ ClientTypeInv'
      BY <1>1 DEF LiveInv, LiveTypeOK, StreamsTypeOK, ClientTypeInv
    <2> QED
      BY <1>1, <2>1, <2>2 DEF LiveInv, LiveTypeOK
  <1>4. StreamInv'
    BY <1>1 DEF LiveInv, StreamInv
  <1>5. OrderInv'
    BY <1>1, OrderKept DEF LiveInv
  <1>6. SingleInv'
    <2>1. \A k, r : UnderWay(k, r) => UnderWay(k, r)'
      BY <1>1 DEF UnderWay, Started, NextBegan
    <2> QED
      BY <1>1, <2>1 DEF LiveInv, SingleInv
  <1>7. BookedUnderItsRound' /\ CountdownOfTheRound'
    BY <1>1 DEF LiveInv, BookedUnderItsRound, CountdownOfTheRound
  <1> QED
    BY <1>2, <1>3, <1>4, <1>5, <1>6, <1>7 DEF LiveInv

LEMMA LiveInvariance == LiveSpec => []LiveInv
  <1>1. LiveInit => LiveInv
    BY LiveInvInit
  <1>2. LiveInv /\ [LiveNext]_liveVars => LiveInv'
    BY LiveInvStep, LiveInvStutter
  <1> QED
    BY <1>1, <1>2, PTL DEF LiveSpec

(* Every variable of the match and of the app has its type, and no channel  *)
(* of a stream holds more events than it has room for (streamer.go:33-60,   *)
(* game_provider.dart:51-97).                                               *)
THEOREM LiveTypeCorrect == LiveSpec => []LiveTypeOK
  <1>1. LiveInv => LiveTypeOK
    BY DEF LiveInv
  <1> QED
    BY <1>1, LiveInvariance, PTL

(* The app books every result under its own round, although it does not     *)
(* look at the round of the event (game_provider.dart:78-97): a stream that *)
(* was there before the first round and dropped nothing gets the question   *)
(* of a round before the result, and no later question before it, as long   *)
(* as no round is completed or opened again after the next one began.       *)
THEOREM ResultsAreBookedRight == LiveSpec => []BookedUnderItsRound
  <1>1. LiveInv => BookedUnderItsRound
    BY DEF LiveInv
  <1> QED
    BY <1>1, LiveInvariance, PTL

(* The countdown on the screen is that of the round on the screen, as long  *)
(* as every round lasts until its time is up: the syncTimer of a round ends *)
(* at its deadline (round.go:87-112), before the round is completed and the *)
(* next question is sent.                                                   *)
THEOREM CountdownIsRight == LiveSpec => []CountdownOfTheRound
  <1>1. LiveInv => CountdownOfTheRound
    BY DEF LiveInv
  <1> QED
    BY <1>1, LiveInvariance, PTL
=============================================================================
