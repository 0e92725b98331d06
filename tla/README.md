# Live Quiz Battle in TLA+

This directory holds the formal model of the backend of Live Quiz Battle: TLA+
modules translated from the Go source, TLC configurations that check them on
small instances, and TLAPS proofs of what holds for every instance. Paths like
`services/quizengine/round.go` are relative to the repository.

## 1. The system

Three Go services share Redis, RabbitMQ and MongoDB; a Flutter application is
their client. Everything a match needs is keyed by its room, so one room is
the unit of most of the model.

```
 JoinMatchmaking     match.created        answer.submitted
 ---------------> matchmaking ----> quiz engine ----> scoring ---> match_history
                     |          |   ^   |  match.finished           users
                     | Redis    |   |   |
                     +----------+   round.completed (the engine to itself)
```

### Components: state, operations, what is hard, what makes them correct

| Component | State | Operations | Hard behaviour | Correct when |
|---|---|---|---|---|
| **Matchmaking** (`services/matchmaking`) | `matchmaking:pool` (sorted set by rating), `matchmaking:player:{id}` (hash, 5 min), `room:{id}:*` | `JoinMatchmaking`, `LeaveMatchmaking`, `SubscribeToMatch`; a tick every second that reads the pool, forms buckets, removes the players atomically, creates the room and publishes `match.created` | players come and go between the read and the removal; several instances tick at once; a failure after the removal; the hash expires before its entry | a player is in at most one room per stay in the pool; a removed player is in a room; a room has 2 to 10 players; a waiting player is matched in the end |
| **Quiz engine** (`services/quizengine`) | `room:{id}:state`, `:round`, `:questions`, `:answers:{r}`; the timer map; sleeping goroutines | consumers of `match.created` and `round.completed`; `StartRound`, the timer callback, `CompleteRound`; RPC `SubmitAnswer` | a timer that fires while the last answer is counted; two calls that both see the last answer; completions that arrive late or twice; crashes that forget timers; publishes that fail | the rounds are opened in order, revealed before the next one opens, and the match ends after the last; nothing ever leaves a match without something that moves it on |
| **Scoring** (`services/scoring`) | `room:{id}:leaderboard`, `:scored:{r}`; `match_history`, `users` | consumers of `answer.submitted` and `match.finished`; RPCs `CalculateScore`, `GetLeaderboard` | redelivery between the mark and the update; a script that the Redis client sends again on its own; a partial failure of the persistence | points are added only for accepted answers, at most once for every time the script is sent, and in the end for all of them; history and statistics agree |
| **RabbitMQ wrapper** (`internal/rabbitmq`) | durable queues, one consumer goroutine per queue | `Publish` (errors are logged by the callers), `Start` (ack after the handler, nack without requeue on an error) | loss, redelivery, dead letters, a channel that closes | a message is handled at least once or dead-lettered |
| **Streamers** (both services) | a channel per user (and room) | `Register`, `Unregister`, `Send`/`Broadcast` that drop when the channel is full | a reconnect races the `Unregister` of the old stream; late subscribers; full channels | an event reaches every client that is subscribed; nothing is sent on a closed channel |
| **Selector**, **Calculator** | none | a selection of one query per difficulty; a pure function | a collection that is dropped and filled meanwhile; rounding; response times that nobody checks | the difficulties come in their order and add up; points stay within 0 and 1.5 times the base, for a response time that is not negative |
| **Flutter providers** (`flutter_app/lib/providers`) | game and matchmaking state, subscriptions, a countdown | event handlers, `selectAnswer`, join and leave | callbacks that run after the state was reset; events of another round | the state shown is that of the current match |

The components interact only through Redis, the queues and the streams. The
engine writes `answers` and reads the leaderboard; scoring reads the queues and
writes the leaderboard; matchmaking creates the room and is not involved again.

## 2. Modules

| Module | Models | Extends |
|---|---|---|
| `Room` | what engine and scoring share about a room: the leaderboard, the two queues, the count of faults, the outcome of a publish, the order of the standings | - |
| `QuizEngine` | the engine process of one room | `Room` |
| `Scoring` | the scoring process for one room | `Room` |
| `QuizMatch` | both processes over the shared state, and the properties that need both | `QuizEngine`, `Scoring` |
| `MatchProgress` | abstract: rounds one after the other, then the end, then the record | - |
| `ScoreLedger` | abstract: accept an answer per player and round, award it once | - |
| `Matchmaking` | the pool in Redis, the RPCs, and the tick of any number of instances | - |
| `Seating` | abstract: a ticket waits, is seated in one room with others, or is forgotten | - |
| `Streams` | the streamer of a service: channels and their capacity, registration, reconnection, the end of a stream | - |
| `Service` | the life of a service process: startup, its RabbitMQ consumer, its streams, shutdown, crashes | `Streams` |
| `WorkQueue` | abstract: what engine and scoring rely on from a queue and its consumer | - |
| `GameClient` | `GameNotifier`, the state of a match in the Flutter app | - |
| `LiveMatch` | engine, game streams, the app of one player, and the answers of the others | `QuizEngine`, `Streams`, `GameClient` |
| `AppFlow` | the app of one player around the match: screens, `MatchmakingNotifier`, subscriptions, statistics | - |
| `Calculator` | `CalculatePoints`, for any response time | - |
| `Questions` | the seeder, the selector, and answers to what it selected | `Calculator` |
| `MCQuizEngine`, `MCQuizMatch`, `MCMatchmaking`, `MCLiveMatch`, `MCService`, `MCQuestions` | model values and symmetry for TLC | |
| `QuizEngineProofs`, `QuizMatchProofs`, `MatchmakingProofs`, `ServiceProofs`, `QuestionsProofs`, `AppFlowProofs`, `LiveMatchProofs` | the inductive invariants and the theorems | the module they are about |
| `EngineProgressProofs` | that the engine implements `MatchProgress`, and what it keeps as long as nothing fails | `QuizEngineProofs` |

The modules compose as the services do. `Matchmaking` ends where it publishes
`match.created`, `QuizEngine` begins there; `QuizMatch` joins it with
`Scoring`, `LiveMatch` with its clients. `QuizEngine` and `Scoring` take their
queues to be as `WorkQueue` says, and `Service` is shown to implement that.

### How the state of a match corresponds to the code

*Data.* A player is a number, because Redis breaks ties of the leaderboard by
member. A question is named by the selection it came from and its position in
it, which is all the properties tell apart. An answer is its round, its player
and the points `CalculatePoints` will give it (`pts`, any member of `Points`);
the correctness and the response time, which the points depend on, and the
difficulty are abstracted into it. The `answers` hash of every round is one set
of answers; `room:{id}:scored:{r}` is the set `scored` of pairs of round and
player.

*Messages.* RabbitMQ has one queue per kind of message and each service one
consumer that handles one message after another (`consumer.go:55-83`). A queue
is a sequence, the message being handled is its head, and it is removed when
the handler returns (acknowledged, or dead-lettered on an error; no code reads
the dead letters). `createdQ` is a Boolean because only one `match.created` is
ever published for a room (its id is a fresh UUID).

*Handlers.* `mc`, `rcPc`, `ansPc`, `finPc` and `call[c]` are the program
counters of the consumers and of the concurrent `SubmitAnswer` calls. A handler
is split into one action per access to state that another goroutine or process
can see; everything between two accesses is part of one of the actions.

| Action of `QuizEngine` | Code |
|---|---|
| `SelectQuestions`, `PushQuestion`, `PushResent`, `BeginMatch`, `ArmFirstRound` | `match_created.go:49-87`: the selection, one `RPUSH` after the other, the state key and `StartRound` of round 1 |
| `OpenRound`, `ArmTimer` | the two halves of `StartRound` (`round.go:49-85`): round key and broadcast, then the timer that replaces the old one |
| `ValidateAnswer`, `StoreAnswer`, `PublishAnswer`, `CheckAllAnswered`, `StopTimer`, `PublishCompleted` | `SubmitAnswer` (`server.go:87-151`) and `CompleteRound` (`round.go:142-159`) |
| `FireTimer`, `PublishTimeout` | the `time.AfterFunc` callback; a callback that has fired is not undone by `Stop` |
| `RevealRound`, `ScheduleNext`, `NoNextQuestion`, `EndMatch`, `FinishMatch`, `AckCompleted` | `round_completed.go:48-126` |
| `WakeUp`, `ArmRound` | the goroutine that sleeps 5 s and calls `StartRound` |
| `SelectFails`, `NextQuestionFails`, `StoreFails`, `CheckFails`, `EngineCrash` | failing stores and the loss of the process |

| Action of `Scoring` | Code |
|---|---|
| `MarkScored`, `AddPoints`, `AckAnswer` | `answer_worker.go:45-71`, `leaderboard.go:10-38` |
| `ReadLeaderboard`, `InsertHistory`, `UpdateStats`, `AckFinished` | `match_finished.go:44-127` |
| `AddResent` | the Redis client sends the script again, whose reply it did not get (`redisclient/client.go:11-13`: three retries, the default) |
| `MarkFails`, `AddFails`, `FinishFails`, `ScoringCrash` | failing stores and the loss of the process |

*Faults.* A crash, a lost publish, a failing read or write and a timeout whose
write took place nevertheless each count one in `faults`, bounded by
`MaxFaults`. With `MaxFaults = 0` nothing fails. So does a command that the Redis
client sends again because it got no reply. Most commands do the same twice as
once, or what a fault or a lost reply may do to them anyway; where two runs differ
from one there is an action for the resend (`PushResent`, `AddResent`, and
`RemoveResent` of `Matchmaking`). A crash empties the memory of
its process and leaves Redis, MongoDB and the queues; the message that was
being handled is at the head of its queue again.

*Variables that are not in the code.* `asked`, `revealed`, `ended` and
`standings` record what the clients were sent; `selections` numbers the
selections; `awards` counts how often the answer of a player to a round was
added, and `resent` how often the client sent its script again. Guards do not depend on them, with one exception: `ValidateAnswer` lets
a client answer only a round it was asked, because a client takes the round and
the question from the broadcast.

### Matchmaking

A *ticket* is one stay in the pool: `<<player, n>>` for the nth run of the
pipeline with which `JoinMatchmaking` adds the player. The code knows players only; tickets are what
the properties count. `pool` is the sorted set, `data` the set of players whose
hash exists. Ratings are constants of the players. A room is the set of the
tickets it was made of; its id is fresh, so it is a position in `rooms`. Every
instance of the service has its own tick (`pc`, `rest`, `unread`, `entries`,
`groups`, `group`, `hand`, `untold`) and its own streams (`streams`, and `backlog`,
how many events wait in each channel). `told`, `dropped`, `lost`, `gone` and
`active` are history: which MatchFound went into a channel or found it full, which
tickets got no room, and who was taken from the pool since a tick read of him.

| Action of `Matchmaking` | Code |
|---|---|
| `JoinMatchmaking`, `LeaveMatchmaking` | `server.go`, `pool.go:34-66`: the pipelines that write or delete the entry and the hash; a failing pipeline may have done any part of it, and one that fails to leave keeps the stream |
| `SubscribeToMatch`, `PassOn`, `Unsubscribe` | the stream RPC, which hands the events of its channel to the client, and its deferred `Unregister` |
| `ExpireData` | the hash expires after 5 minutes, the entry does not |
| `ReadPool`, `ReadEntry`, `FormGroups` | `GetAll` (`ZRANGE`, then one `HGETALL` after another), and the buckets (`matcher.go:62-112`); once for the buckets, once for all that are left; with too few players a WaitUpdate for every stream |
| `AcquireLock`, `AtomicRemove`, `CreateRoom`, `PublishCreated`, `TellPlayer`, `FinishGroup` | `createMatch` (`matcher.go:114-187`), one action per access to Redis, RabbitMQ or a stream; with fewer than `MinPlayers` removed, the ones removed are `lost`; a full channel drops the MatchFound |
| `RemoveResent` | the script has run, its reply is lost, and the client sends it again |
| `EndTick`, `InstanceCrash` | the tick returns; the process is lost with its streams and what it has in hand |

### Streams, service and live match

A connection is a number that stands for its RPC and its channel. `registered`
is the map of the streamer; `Unregister` closes whatever is registered for the
user, as the code does. `Service` walks through `main`: `ConnectRedis`,
`ConnectMongo`, `Dial` (up to ten attempts), `NewConsumer` (declare, bind, QoS),
`StartConsumer`, `Serve`, then `Terminate`, `Cancel` after `GracefulStop`, and
`MainReturns`. `Take`, `Handle`, `Ack`, `Nack` and `ConsumerReturns` are the
goroutine of `consumer.go:55-83`; `DeliverMsg` is RabbitMQ, which keeps to the
prefetch count; `Requeue` is what RabbitMQ does when the connection is lost.
The model is the quiz engine. The other two services start and stop alike,
matchmaking without a consumer and scoring without streams.

`LiveMatch` adds to each action of `QuizEngine` that broadcasts (`BeginMatch`,
`WakeUp`, `RevealRound`, `EndMatch`) the events it sends, adds the `syncTimer`
goroutine (`round.go:80-112`), and lets the app handle what its stream delivers
(`onQuestionBroadcast`, ... in `game_provider.dart`) and answer by
`selectAnswer`. The app is taken to use `RealQuizGrpcClient`; the default,
`QuizGrpcClient`, simulates a server inside the app (`grpc_providers.dart:10`).
The other players of the room answer as well (`OthersAnswer`): their calls end a
round early, or together with its timer. Their apps and streams are left out.
The RPC of an answer and its validation are one step, since an answer that is
under way longer is an answer given later. The app starts its game once here
(the guard `~playing`); what it does around a match is in `AppFlow`.

### The app

`AppFlow` follows one player through the screens. Every entry of the matchmaking
screen is a *visit*, which names its call of `joinMatchmaking`, its call of
`leaveMatchmaking` and its stream; every `startGame` is a *game*, which names its
stream. Rooms are numbered, since each is made with this player. The services are
reduced to what the player sees of them.

| Action of `AppFlow` | Code |
|---|---|
| `EnterMatchmaking`, `Added`, `Subscribe`, `JoinFails` | `joinMatchmaking` (`matchmaking_provider.dart:26-56`): the call, its effect on the pool, and what follows the `await`, wherever the player is by then |
| `Cancel`, `Removed`, `LeaveReplied`, `LeaveFails` | `leaveMatchmaking` in the same way |
| `ShowProfile` | the button at the top of the screen, which calls nothing |
| `OnMatchEvent`, `Navigate`, `MatchStreamFails` | the listeners of the stream and of the screen, and the navigation 1.5 s later |
| `Subscribed`, `Unsubscribed` | `SubscribeToMatch` (`server.go:66-85`) |
| `Taken`, `CreateRoomFails`, `Told`, `BroadcastWaitUpdate` | the tick, as far as it concerns the player |
| `OnRoundResult`, `OnQuestion`, `OnMatchEnd`, `GameStreamFails` | what the events of a match do to the screen and the result |
| `ExitGame`, `RecordStats`, `LeaveResults` | the exit dialog, the results screen, and the resets of both notifiers |

`strayed`, `hasty`, `lost` and `nudged` are history: they name the circumstances
that the properties have to exclude, and no guard reads them.

### Questions

`SeedQuestions`, `InsertQuestions` and `SeederDies` are `scripts/seed.go`; the
collection is empty or partly filled while it runs. `SelectForMatch`,
`SelectByDifficulty` (one aggregation each, in the order of a Go map, hence any)
and `Reorder` are `selector.go`. `CalculatePoints` computes in floating point:
`SpeedBonus` is the set of the values it may yield, the exact floor and, where
the quotient is a whole number, one less. The response time is any integer: nothing
checks what a client sends (`quizengine/server.go:118`). Points beyond an int32 are
any int32, as the conversion of Go leaves open.

## 3. What is checked

### Runs of a match

Players, rounds and calls are counted in the columns P, R and C; F is
`MaxFaults`.

| Run | P | R | C | F | Checks |
|---|---|---|---|---|---|
| `engine` | 2 | 2 | 2 | 0 | `EngineTypeOK`, `RevealedBeforeNext`, `NeverStuck` |
| `engine_faults` | 2 | 2 | 1 | 1 | `NoRoundSkipped`, `EngineImplementsProgressSafety`, `EngineKeepsGoing` (liveness), with selections of 0, 1 or 2 questions |
| `match` | 2 | 1 | 2 | 0 | `TypeOK`, `NoAnswerLost`, `ImplementsLedger`, `ImplementsProgress` (liveness) |
| `match_faults` | 2 | 1 | 1 | 1 | `StatsMatchHistory`, `AwardedOncePerSend`, `LeaderboardAddsUp`, `ImplementsLedgerSafety`, with two values of points |

They have 580,000 (by symmetry of the calls), 272,000, 377,000 and 2,844,000
states; the last two take two minutes each.

*What they show.*

- **The match is never stuck** (`NeverStuck`, `EngineKeepsGoing`).
  `CompleteRound` stops whichever timer the room has, also that of a later
  round, and a duplicate completion starts a round again. Checked over every
  interleaving: as long as nothing fails, a message, a timer, a goroutine or a
  call that is about to publish is always left, and a match with a question for
  every round runs to its end even if nobody answers.
- **Rounds in order** (`NoRoundSkipped`, `RevealedBeforeNext`, the refinement
  of `MatchProgress`). Completions may be published twice and handled after
  later rounds, and the round key may go back; no round is ever opened before
  its predecessor, and without faults none before the predecessor's answer was
  revealed.
- **Points** (`AwardedOncePerSend`, `LeaderboardAddsUp`, `NoAnswerLost`, the
  refinement of `ScoreLedger`). Redelivery at any point of the handler never
  adds points twice; the only thing that does is the Redis client, when it sends
  the script again after a lost reply (section 4). So a score is at most the sum of
  the accepted answers, each counted as often as its script was sent, and without
  faults at least the sum of those that are under way no more. Without faults an
  accepted answer is with its call, on the queue or on the leaderboard, and in the
  end on the leaderboard. A lost `answer.submitted`, or a crash between mark and
  update, does lose points: `NoAnswerLost` speaks of runs without faults.
- **History and statistics** (`StatsMatchHistory`). A statistic never counts a
  match or a win that is not in the history. Without faults they are equal.

*The bounds, and why they are enough.* Two players are the fewest for which
"all have answered" depends on an interleaving, and for which a second call can
see the last answer of the first. Two calls at the same time are enough for the
double completion: a third would repeat what the second does. Two rounds give a
round with a successor and a last round, and a late completion of the first
while the second runs. That a longer match brings
nothing new for the order of the rounds is proved. The composition uses one
round, because the scoring service treats rounds independently (`Slot` is a
pair); the interleaving of the two processes is what it adds. One fault puts a
crash, a lost message, a failing store or a resend at every step of both services.
With faults there is one call at a time, to which either player may send
answers of different worth, so that it is visible which of them counted; calls
that overlap are in `engine` and `match`, and the theorems of section 5 have any
number of calls and faults together. Calls are interchangeable and are a symmetry
set in `engine`, which checks no liveness; players are not, as Redis orders equal
scores by id.

### Runs of matchmaking

`matchmaking` has three players, two of them in one bucket and one in another,
rooms of two, channels of one event, three tickets and one fault (187,000 states).
The instances that run are chosen at the start among the `Deployments`: two over one
pool, with nobody subscribed, or one at which players subscribe.

- **One room per ticket** (`OneRoomPerTicket`, `ImplementsSeating`). Two
  instances read the same players, players leave and join again between the read
  and the removal, and hashes expire. A ticket is in one place always. The lock
  does not achieve this, for it has the fresh id of the room in its name and
  never excludes anybody; the `ZREM` of the script does.
- **Lost tickets have a cause** (`LossHasACause`). When the script finds fewer
  than two of the group, those it removed are in no pool and no room, and nobody
  tells them. The property is about the step that loses them: either it is a fault,
  or somebody of that very group is not in the pool any more and was taken from it
  after this tick had read of him, by leaving, by another instance, or by the same
  script before it was sent again. An earlier departure is no excuse.
- **MatchFound** (`SubscribersAreTold`). With one instance, whatever fails, a
  player whose stream was registered before the ticket was given out is told of
  the room, or his channel was full (`dropped`). The app subscribes after it joined
  and has no such promise.
- **Two are taken soon** (`TwoAreTakenSoon`). The tick matches what is left over
  from the buckets, whatever the ratings, so of two players with their data in
  Redis one is taken sooner or later. A player whose hash expired is skipped for
  ever, unless he joins again.

Three players give a full group and one that is left over, or a group formed in
spite of the ratings; the third ticket lets a player join again or joins a
third one. `MaxPlayers = 2` makes the eleventh player of the code the third of
the model. One player is restless (subscribes, leaves, loses his data), which
puts each of these between any two steps of the two ticks. A channel of one event
is full after a WaitUpdate, a call that fails in part or is sent twice is one fault.

### Runs of a live match

`live`: one player whose app is modelled, two rounds, channels of two events, one
`timerSync` at any time (766,000 states). With a single player every answer ends its
round. In `live_room` there are two players, the second of whom answers without an
app that is modelled, so that a round ends by one answer, by the other, or by its
timer while they are on the way, and an answer of the app no longer ends the round
at once; it leaves the `timerSync` out (1,719,000 states).

- `BookedUnderItsRound`: the app books a result under the round on its screen,
  not under the round of the event. This is right if its stream was there before
  round 1, no event was dropped and no round was completed or opened again after
  the next began; each of the three exceptions is needed.
- `CountdownOfTheRound`: under the same conditions and while no round ends
  early, the countdown is that of the round on the screen. When all have answered
  early, the `syncTimer` of the finished round overwrites the next countdown.
- `EndIsSeen`: a player who stays sees the final result, provided no event is
  dropped and nobody else opens a stream under his name.

A channel of two is filled by the result and the leaderboard of one round, so
that drops do happen; a second `timerSync` or a third round repeats what the
first does, and other streams of the room are independent. The countdown and the
end, which the other players do not change, are left to the smaller run.

### Run of the app

`app`: two visits, two rooms, three starts of a game, one `WaitUpdate`, channels
of two events and one fault (about 1,660,000 states).

- `OneGameStream`: the app listens to one match at a time, the one on its
  screen. `startGame` does not cancel the stream it replaces, so this rests on
  the navigation: on the way from the search to the game, and on both exits, which
  reset. Leaving the search by its buttons, or a `WaitUpdate` before the game, is
  excluded, since either does open a second stream (section 4).
- `CountedOnce`: no match is counted twice in the statistics, whatever the player
  does, although two screens count, a match may be on two streams, and the result
  of one may arrive during another.
- `IdleIsOut`: when the app is idle again and no call is pending, the player is
  not in the pool. It holds for a player who waits for the replies; the
  exceptions are in section 4.

Two visits give everything that is left over from an earlier search (a call, a
stream, a room that was made) a later one to meet. A game that was started twice
and another one after it are three starts. A channel of two is filled by the rooms
of two searches, so that an event is dropped.

### Run of a service

`service`: one user with two connections, two messages of which the first is
poisoned, a prefetch count of two, two attempts to dial, two starts and two
faults (142,000 states).

- `ImplementsWorkQueue`, `RepeatedWereCutOff`, `MessagesAreSettled`: through
  crashes, lost connections and shutdowns every message the queue was bound for
  is kept in order until it was handled or dead-lettered; a handler runs twice
  only for a message that was in hand when the process or the connection was
  lost, never for the others that were prefetched; and no message waits for ever
  while the service is up and connected. What is published before the queue was
  first declared is lost (`lost` of `WorkQueue`).
- `RegisteredAreOpen`, `RegisteredAreServed`, `OnlyAReturnCloses`: nothing is
  sent on a closed channel and no entry outlives its stream. When a client
  reconnects before its old stream has returned, the `Unregister` of the old one
  closes the new one; that is the only way a stream ends under its client.
- `ShutdownWaitsForClientsOnly`: `GracefulStop` waits for the streams and comes
  before the cancellation of the context, so a client that stays holds up the
  shutdown; nothing else does.

Two connections of one user are what a reconnect is made of, and users do not
interact. Two messages give one that is handled while another is prefetched. Two
starts give a restart after each kind of end, and two faults a failure of
startup after a crash, or a crash after a lost connection.

### Run of the questions

`questions`: selections for 1, 4, 5, 7 and 10 rounds, which are all branches of
`difficultyDistribution`; two questions per difficulty, so that ten rounds find
too few; two seedings, so that one may overlap the selection of questions of the
other; two answers after -15, 0, 12 and 20 of 15 seconds, so before the question,
at once, where the floating-point product lies below the quotient, and after the
limit (345,000 states).

- `SelectionInOrder`, `SelectionComplete`: whatever the seeder does, a selection
  has no question twice and gets no easier; from an undisturbed collection it has
  the question of the right difficulty for every round.
- `PointsFollowDifficulty`: among the answers whose time is not negative, a slow
  correct one to a harder question is worth no less than a fast one to an easier
  question, each gets between the points of its difficulty and half of them more,
  and a faster one no less than a slower one. With a negative time only the lower
  half of this is left (section 4).

### Fairness and deadlock

| Specification | Weakly fair | Why | Not fair |
|---|---|---|---|
| `EngineSpec`, `Spec`, `LiveSpec` | each consumer, the timer, each goroutine that was spawned, each call that has begun; the handlers of the streams | the Go scheduler runs a ready goroutine, RabbitMQ delivers, no handler waits for a lock another handler holds | the players (`ValidateAnswer`, `Answers`, `Subscribe`), the `syncTimer`, faults |
| `MatchmakingSpec` | the tick of every instance | the ticker fires every second, and a tick is one sequence of calls | clients, expiry, crashes |
| `ServiceSpec` | the steps of `main`, delivery, the consumer, the handlers of the streams | as above | the start, publishing, hanging up, the signal, faults |

Liveness of a match is stated for `MaxFaults = 0` only: a crash loses the
timers, and nothing in the code restores them. That of `Service` holds with
faults. Deadlock is not checked: when its match is over the room really stops,
and so do a pool nobody joins, a service that is down and a quiz with all
answers scored. `AppFlow` states safety only, so it has no fairness.

Every property is also checked against a mutant, a plausible bug in one
definition that makes it fail; the mutants stand before the definitions they
change (`PublishIfCurrent`, `TakeAll`, `AckNothing`, ...).

## 4. What the code does not do as its documents say

Two runs find a claim of the documents violated.

- `standings_not_final`: `MatchEnd` carries the final standings (`README.md:64`).
  The answers of the last round may still be on the queue when the leaderboard is
  read, so that the scores, and with them the winner, change afterwards.
- `points_above_maximum`: no question is worth more than 150, 300 or 450 points
  (`README.md:97`, `calculator.go:12`). The response time comes from the client and
  may be negative; the ratio has no upper bound (`calculator.go:24-25`).

The models show more that a maintainer should know. These are consequences of
the code that no document contradicts outright; the properties above are stated
so that they name the circumstances.

- The calls of the last two players may both see that all have answered.
  `round.completed` is then published twice, and after the last round the match
  is inserted and counted twice.
- The mark of an answer keeps out a message that is delivered again, but the
  script of `UpdateScore` is not idempotent, and the Redis client sends it again on
  its own when the reply is lost after it ran (`redisclient/client.go:11-13` keeps
  the default of three retries). The points are then added twice, although
  `README.md:105` and `README.md:135` speak of an idempotency check. That is why
  `AwardedOncePerSend` counts sends.
- A crash after an answer was marked and before its points were added: the
  redelivered answer is skipped and never scored (`answer_worker.go:59`).
- The correct answer is revealed from the list in Redis. After a lost `RPUSH` or
  a second selection it may belong to another question than the one asked.
- No code writes the state `finished` (`README.md:128`).
- At 10 rounds three questions are easy and not four (`selector.go:18-19`), one
  question away from the 40 % that the default distribution keeps to.
- A medium question answered after 12 of 15 seconds gives 219 points and not 220,
  for `1 - 12/15` is just below 0.2 in floating point.
- Two instances of matchmaking, a player who leaves during a tick, or a lost reply
  to the script that removes a group, after which the client sends it again and it
  finds nobody, can make others fall out of the pool without a room.
- `maxWaitSeconds` is never waited for: the forced match runs in the same tick
  as the buckets.
- A player whose hash expired stays in the sorted set and is never matched.
- The return of an old stream closes the stream a client has reconnected with.
- When the connection to RabbitMQ is lost, the consumer returns, and the process
  serves on without it.
- `GracefulStop` is called before the context is cancelled.
- A `timerSync` of an earlier round overwrites the countdown.
- The app starts a game twice. Its listener (`matchmaking_screen.dart:34`) runs at
  every change of a state whose status is `found`. The tick after a match finds the
  pool empty and sends a `WaitUpdate` to every stream, also to those of the matched
  players (`matcher.go:69-74`), within the 1.5 s for which the app stays on the
  screen. `startGame` then runs again: the new `GameState` has lost the first
  question, and the first stream stays open beside the second.
- A player who cancels while `joinMatchmaking` awaits its reply stays in the pool,
  and is matched into a room his app no longer looks for; so does one whose reply
  or match stream was lost, and one who returns to the profile by the other
  button, which leaves nothing.
- A player who comes back before the earlier search was over may be told of the
  room of that search, play it, and be in the pool at the same time.

## 5. What is proved

The proofs hold for every value of the constants, under the assumptions named
in the modules:

- `RoomAssumption`: players and points are numbers, finitely many players, at
  least one round; `EngineAssumption`: a selection has at most as many questions
  as rounds, which `$sample` and the reordering in `selector.go:48-102` guarantee.
- `MatchmakingAssumption`: finitely many players, ratings are natural numbers;
  `MatcherAssumption`: a room takes no fewer players than it needs (2 and 10 in
  `matcher.go:14-15`), and finitely many instances;
  `DeploymentAssumption`: at least one of them runs.
- `StreamsAssumption`, `ServiceAssumption`: connections and messages are numbers;
  the prefetch count is positive.
- `LiveAssumption`: nothing fails (`MaxFaults = 0`), as in the run; the player of
  the app is one of the match and the events are those of the engine.
- `AppAssumption`, `QuestionsAssumption`: the bounds are natural numbers, response
  times are integers, the time limit is positive (it is the constant 15 s).

Every safety property that a passing run checks is a theorem.

| Theorem | Module | States |
|---|---|---|
| `EngineTypeCorrect` | `QuizEngineProofs` | `EngineSpec => []EngineTypeOK` |
| `RoundsInOrder` | `QuizEngineProofs` | `EngineSpec => []NoRoundSkipped` |
| `EngineKeepsProgress` | `EngineProgressProofs` | `EngineSpec => EngineImplementsProgressSafety` |
| `AnswersAreRevealedInTime`, `MatchIsNeverStuck` | `EngineProgressProofs` | `EngineSpec => []RevealedBeforeNext`, `[]NeverStuck` |
| `TypeCorrect` | `QuizMatchProofs` | `Spec => []TypeOK` |
| `MatchRoundsInOrder` | `QuizMatchProofs` | `Spec => []NoRoundSkipped` |
| `AwardsFollowSends`, `NoAnswerIsLost` | `QuizMatchProofs` | `Spec => []AwardedOncePerSend`, `[]NoAnswerLost` |
| `MatchKeepsLedger`, `ScoresAddUp` | `QuizMatchProofs` | `Spec => ImplementsLedgerSafety`, `[]LeaderboardAddsUp` |
| `StatsFollowHistory` | `QuizMatchProofs` | `Spec => []StatsMatchHistory` |
| `MatchKeepsProgress` | `QuizMatchProofs` | `Spec => ImplementsProgressSafety` |
| `MatchmakingTypeCorrect` | `MatchmakingProofs` | `MatchmakingSpec => []MatchmakingTypeOK` |
| `EveryTicketHasOneRoom` | `MatchmakingProofs` | `MatchmakingSpec => []OneRoomPerTicket` |
| `MatchmakingSeats` | `MatchmakingProofs` | `MatchmakingSpec => ImplementsSeating` |
| `LossesHaveCauses`, `EarlySubscribersAreTold` | `MatchmakingProofs` | `MatchmakingSpec => LossHasACause`, `[]SubscribersAreTold` |
| `ServiceTypeCorrect` | `ServiceProofs` | `ServiceSpec => []ServiceTypeOK` |
| `RegisteredStayOpen`, `RegisteredStayServed`, `OnlyReturnsClose` | `ServiceProofs` | `ServiceSpec => []RegisteredAreOpen`, `[]RegisteredAreServed`, `[]OnlyAReturnCloses` |
| `OnlyCutOffRepeat` | `ServiceProofs` | `ServiceSpec => []RepeatedWereCutOff` |
| `ServiceIsAWorkQueue` | `ServiceProofs` | `ServiceSpec => ImplementsWorkQueue` |
| `LiveTypeCorrect` | `LiveMatchProofs` | `LiveSpec => []LiveTypeOK` |
| `ResultsAreBookedRight`, `CountdownIsRight` | `LiveMatchProofs` | `LiveSpec => []BookedUnderItsRound`, `[]CountdownOfTheRound` |
| `AppTypeCorrect` | `AppFlowProofs` | `AppSpec => []AppTypeOK` |
| `NoMatchIsCountedTwice`, `OneTicketOneGame`, `PatientPlayerIsOut` | `AppFlowProofs` | `AppSpec => []CountedOnce`, `[]OneGameStream`, `[]IdleIsOut` |
| `PointsAreInRange`, `HarderIsWorthMore` | `QuestionsProofs` | `CalculatePoints` yields an int32, and 0 to 450 when the time is not negative; `QuestionsSpec => []PointsFollowDifficulty` |
| `SelectionKeepsOrder`, `SelectionIsComplete` | `QuestionsProofs` | `QuestionsSpec => []SelectionInOrder`, `[]SelectionComplete` |
| `DistributionIsBalanced` | `QuestionsProofs` | for every number of rounds, how far the shares are from 40, 40 and 20 % |

*The engine.* Neither the types nor the order of the rounds is inductive. A
handler takes the head of its queue, so one must know that the queue is not
empty while a handler works (`HandlersInv`); a goroutine that wakes up reads its
question by index, so one must know that the list is long enough and only grows
(`RoundsInv`, `QuestionsGrow`); and the number of selections, which names the
questions, is bounded by the deliveries of `match.created`, one more than the
faults. For the order, `RoundsInv` says that whatever is under way for a round,
its timer, its callback, its sleeping goroutine, its queued completions or a
call, belongs to a round that was opened; a sleeping goroutine has seen the
predecessor opened. With it `PrefixInv` (the opened rounds are the first ones)
and `EndInv` (the match ended after the last was opened) are inductive;
`EngineInv` is their conjunction. The lemmas `BeginMatchOpens`, `WakeUpOpens`,
`AskedUnchanged` and `StaysStarted` say which steps open a round.

*Progress of the engine.* `Reached` is chosen as the bound of the opened rounds,
so the refinement needs that there is one (`ReachedInv`), and `ReportInv`, that
the handler reports a match only after its last round was opened. Then the steps
that open a round are the abstract one, `EndMatch` is the end, and all others
stutter. While nothing has failed `CalmInv` holds as well: one selection was
made, its questions are in the list in their order and every opened round was
asked its own (`QuestionsInv`); whatever is under way for a later round comes
after the answer was revealed (`RevealedInv`), whence
`AnswersAreRevealedInTime`; and a match that has begun and not ended has a timer, a
callback, a completion, a goroutine or a call that moves it on, which is
`NeverStuck`. `CompleteRound` makes this hard: it stops whichever timer there
is, so the call that stops it is itself what moves the match on.

*The composition.* The scoring service takes from the heads of the queues the
engine appends to (`QueuesGrow`), so each keeps the invariant of the other.
`AwardsInv` is what `AwardedOncePerSend` needs to be inductive: an awarded slot
is marked, and between the mark and the reply to the script the slot is marked and
was awarded at most once for every resend there was. A second message for the slot
finds the mark.

*The ledger.* `AcceptedInv` follows an answer: there is one per player and round,
and what a call holds, the queue has, or an award was for is accepted. `PaidInv`
says of the handler that a slot is marked without being paid only while the handler
is between the two, until something fails. With both, `NoAnswerLost` is inductive,
`StoreAnswer` (and a `StoreFails` whose `HSETNX` took place) is `Accept`,
`AddPoints` (and an `AddFails` or `AddResent` whose script ran) is `Award`, or
`AddAgain` when there was an addition without a reply before (`PayStep`), an
`AddResent` whose script did not run is `Doubt`, and no other step touches answers
or points. `LeaderboardAddsUp` follows from `ExactInv`, that a score is the sum of
what its answers have brought so far (`Worth`): an answer has brought nothing when
it is accepted, and a payment raises the worth of one answer and the score of its
player by the same points; `BoardIsBounded` compares the terms of this sum with
those of the property. What it takes besides is the algebra of sums over finite sets, whose definition
is recursive. The library's induction rules have an operator parameter, but
`WFMin` has not: of the finite sets a statement is wrong for there is a least one
(`LeastSubset`), which is contradicted. In this way `SumsExist` and `SumsUnique`
show that the recursive definition defines something, `SumAgrees` that the sum
depends on its terms only, and `SumOfNumbers` that any term may be taken first.

*Statistics.* `StatsInv` adds to the counters what the handler has yet to add for
the document it has inserted (`Pending`, `PendingWin`): together they never exceed
the history, and equal it until something fails. `RecordInv` (a match is reported
only after its last round was opened) gives the refinement of `MatchProgress` with
the record of a match.

*Matchmaking.* `MatchmakingInv` adds to the types and to `OneRoomPerTicket`
where tickets may be while a tick works: `HandsInv` (an instance holds tickets
only between the removal and the room, at least `MinPlayers` and at most
`MaxPlayers` of different players), `GroupsInv` (no group is larger than a
room), `IssuedInv` (rooms and hands hold tickets that were given
out, so a new ticket is in none) and `UntoldInv` (MatchFound is about rooms that
exist). The size of a group is a lemma about `FirstOf`, the first `MaxPlayers`
players in the order of Redis. For the causes of a loss, `KnowsInv` says what a
tick knows: those it has read and has yet to match are in the pool or in `gone`,
its groups share no player, and each is large enough, which is `FirstOfFills`, by a
least set again. So a group of which the script finds too few has somebody in
`gone`. `ToldInv` says that a player whose stream is older than his ticket was told
of the room, had a full channel, or is among those the instance is about to tell;
`StreamTicketInv`, that a stream opened later, or after a crash, is no older.

*The service.* `StreamsInv` adds to the two stream properties that a
registered channel is that of its user and that nothing is closed before it was
made; every step of the service changes the streams by one of their actions
(`StreamSteps`). `ReturnInv` adds that until something fails only a handler that
has returned has closed a channel. `QueueInv` is what the refinement needs: what
the consumer has in hand is the first pending message, acknowledged or back in the
queue (`InHandInv`); pending messages are in the order of publishing, hence
different (`OrderInv`), so an acknowledged message is gone; and a pending message
that was handled already is in hand or was cut off (`HandledInv`). `QueueSteps`
shows, one action at a time, that a step keeps these and is one of `WorkQueue`'s
or a stutter: a delivery, a lost connection and a crash only move the border
between what is ready and what is unacknowledged.

*The live match.* `LiveInv` builds on `CalmInv` of the engine. `OrderInv` says
of the events on the way to the app that those of a round follow its question
(`Follows`), and that the round on the screen, or the last question on the way, is
the last round that was opened (`UpToDate`). A result that arrives is therefore
that of the round on the screen. For the countdown `SingleInv` says that, as long as no round is
completed by its answers, one thing at a time is under way in the engine, a timer,
a callback, a completion, or a goroutine that sleeps or is about to arm the next timer;
then no `syncTimer` of an earlier round is left when the next one opens.

*The app.* `AppInv` counts: every room took one visit of the player out of the
pool (`SeatedInv`), and what was not visited has no call and no stream
(`VisitsInv`). `OnceInv` says of a room where it can be, untold, on the way, found,
about to be navigated to or chosen by a game, and never twice on the way.
`Settled` is what is certain of a match that was counted: it can neither be found
again nor end on the screen again, on whichever of the two screens it was counted.
`TicketInv` and `StreamInv` follow the one ticket of a player who goes straight
from the search to the game, `LastVisitInv` and `SearchInv` that of a player who
waits for the calls of a screen.

*The selection.* `SelectionInv` says that the samples are of their difficulty and
without repetition, and the result what `SelectForMatch` makes of them
(`SamplesInv`); that the collection has questions of the last run of the seeder
only (`SeederInv`); and that without a seeder in between a full collection gives
all that are wanted (`UndisturbedInv`, `CompleteCollection`). What
`SelectForMatch` makes of any samples is `ReorderedFacts`: the distribution
consists of three blocks, so the place of a round within its difficulty tells the
rounds of a block apart (`StepPlaces`); and the rounds for which there is a question are
taken in their order (`NthFacts`), so the result has them once, and in
the order of the difficulties. The shares are arithmetic about
`DifficultyDistribution` for every number of rounds (`DistributionFacts`).

*Only model-checked:* everything under fairness (`EngineKeepsGoing`,
`ImplementsLedger`, `ImplementsProgress`, `TwoAreTakenSoon`, `EndIsSeen`,
`MessagesAreSettled`, `ShutdownWaitsForClientsOnly`), which is out of the
prover's reach; the safety parts of the two refinements are proved, and of the
engine's (`EngineImplementsProgressSafety`).

## 6. What is abstracted, and what is not modelled

- The keys of a room expire after 30 minutes, far longer than a match of five
  rounds takes; expiry is left out, but for the hash of a waiting player.
- `getTotalRounds` falls back to 5 when it cannot read the state key; matches
  are created with 5 rounds (`matcher.go:15`), so the fallback changes nothing
  and `TotalRounds` stands for both. Nothing else reads the state key, so the
  loss of its write has no effect either.
- The write of the question cache may fail too: `SubmitAnswer` then refuses the
  answers to that question, which is a behaviour of the model in which nobody
  submits them.
- The players' documents in `users` exist and their names differ
  (`UpdateOne` selects by name).
- In `QuizEngine` and `Scoring` messages are handled in the order of their queue,
  one at a time, and survive what `Service` models in detail. A consumer that
  lost its connection and stays away is a match that stops there, and is left to
  `Service`.
- `QuizEngine` records what was broadcast (`asked`, `revealed`, `standings`);
  what is received is in `LiveMatch`. There the streams of other users are left
  out: a sender waits for none of them.
- Engine and scoring run as one instance each. For matchmaking several instances
  are modelled, since they would share only the pool.
- RabbitMQ, Redis and MongoDB are external and modelled as the code uses them.
  Validations that only refuse a request are guards.
- Read-only code has no effect to model: `GetLeaderboard`, `GetRoomQuestions`,
  `WaitUpdate` and the pool's size, configuration, logging.
- `CalculateScore`, which adds points to the leaderboard outside the workers, and
  `SendToPlayer`, `SendToMany` and the getters of the room manager have no caller
  in the repository.
- Of the Flutter app the layout, the figures of the statistics, and login and logout
  (which replace the user, and with him the notifiers) are not modelled. Neither is
  the simulated backend, the default of the app: it is a stand-in for the services
  modelled here, with random timers of its own. `MatchCancelled` is sent by no code.
- `AppFlow` leaves the rounds to `GameClient`: a question, a result or the end may
  come at any time.
- Of the generated code only the messages the properties tell apart are in the
  model; serialization is not. The seeding of users is not modelled: a list of
  documents that is written once.

## 7. Plan

Done: the match (`Room`, `QuizEngine`, `Scoring`, `QuizMatch` and its two
abstract specifications), matchmaking with `Seating`, the streams, the life of a
service with `WorkQueue`, the live match with its client, the app, the questions;
proofs of every invariant and action property the runs check, and of every
refinement but for its liveness.

Left:

1. `LiveMatch` with faults of the engine, and what its properties become then.
2. `AppFlow` as an implementation of `GameClient`.
3. The step from `Seating` to the match: that a room which was seated is one the
   engine receives.
