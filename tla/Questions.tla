----------------------------- MODULE Questions -----------------------------
(***************************************************************************)
(* The questions of a match: the seeder fills the collection, the selector  *)
(* takes questions of every difficulty from it, one aggregation after the   *)
(* other, and the calculator says what their answers are worth.  The seeder *)
(* may run at any time, also while matches are being created.               *)
(***************************************************************************)
EXTENDS Calculator, Sequences, SequencesExt, FiniteSets, FiniteSetsExt

CONSTANTS
  PerDifficulty,  \* how many questions of every difficulty are seeded (10)
  RoundCounts,    \* the numbers of rounds asked for
  Times,          \* the response times that clients send, in ms
  TimeLimit,      \* the time limit of a question, in ms
  MaxSeedings,    \* bound: how often the seeder runs
  MaxAnswers      \* bound: how many answers are scored

ASSUME QuestionsAssumption ==
  /\ PerDifficulty \in Nat
  /\ RoundCounts \subseteq Nat
  /\ Times \subseteq Int
  /\ TimeLimit \in Nat \ {0}
  /\ MaxSeedings \in Nat
  /\ MaxAnswers \in Nat

VARIABLES
  collection,  \* the questions in MongoDB
  seedings,    \* how often the seeder has run
  inserting,   \* the difficulties a running seeder has still to insert
  rounds,      \* the selection: how many questions were asked for, 0 for none
  toSample,    \* ... the difficulties that are still to be sampled
  sampled,     \* ... the questions of every difficulty
  ordered,     \* ... its result
  selected,    \* ... has it returned?
  disturbed,   \* history: did the seeder run, or was it unfinished, meanwhile?
  scored       \* the answers to the selected questions, and their points

seederVars    == <<collection, seedings, inserting>>
selectionVars == <<rounds, toSample, sampled, ordered, selected>>
questionVars  == <<seederVars, selectionVars, disturbed, scored>>

QuestionsInit ==
  /\ collection = {}
  /\ seedings = 0
  /\ inserting = <<>>
  /\ rounds = 0
  /\ toSample = {}
  /\ sampled = [d \in Difficulty |-> <<>>]
  /\ ordered = <<>>
  /\ selected = FALSE
  /\ disturbed = FALSE
  /\ scored = <<>>

-----------------------------------------------------------------------------
Repeated(d, n) == [i \in 1..n |-> d]

(* The difficulties of the rounds of a match. *)
DifficultyDistribution(n) ==
  LET easy   == CASE n = 5 -> 2 [] n = 7 -> 2 [] n = 10 -> 3 [] OTHER -> (2 * n) \div 5
      medium == CASE n = 5 -> 2 [] n = 7 -> 3 [] n = 10 -> 4 [] OTHER -> (2 * n) \div 5
  IN  Repeated("easy", easy) \o Repeated("medium", medium)
        \o Repeated("hard", n - easy - medium)

Wanted(n, d) == Cardinality({i \in DOMAIN DifficultyDistribution(n) :
                               DifficultyDistribution(n)[i] = d})

-----------------------------------------------------------------------------
(* The seeder drops the collection ... *)
SeedQuestions ==
  /\ inserting = <<>>
  /\ seedings < MaxSeedings
  /\ seedings' = seedings + 1
  /\ collection' = {}
  /\ inserting' = <<"easy", "medium", "hard">>
  /\ disturbed' = TRUE
  /\ UNCHANGED <<selectionVars, scored>>

(* ... and inserts the questions in the order of their difficulties.        *)
(* InsertMany is not atomic: others see what has been inserted so far.      *)
InsertQuestions ==
  /\ inserting # <<>>
  /\ collection' = collection \cup
       [difficulty : {Head(inserting)}, seeding : {seedings}, number : 1..PerDifficulty]
  /\ inserting' = Tail(inserting)
  /\ disturbed' = TRUE
  /\ UNCHANGED <<seedings, selectionVars, scored>>

(* The insertion fails, or the time of the seeder is up, and it exits. *)
SeederDies ==
  /\ inserting # <<>>
  /\ inserting' = <<>>
  /\ disturbed' = TRUE
  /\ UNCHANGED <<collection, seedings, selectionVars, scored>>

-----------------------------------------------------------------------------
Complete == Cardinality(collection) = 3 * PerDifficulty

(* SelectForMatch counts how many questions of which difficulty it needs. *)
SelectForMatch(n) ==
  /\ rounds = 0
  /\ rounds' = n
  /\ toSample' = {d \in Difficulty : Wanted(n, d) > 0}
  /\ disturbed' = (inserting # <<>> \/ ~Complete)
  /\ UNCHANGED <<seederVars, sampled, ordered, selected, scored>>

(* Mutant: one question too few is sampled. *)
SampleTooFew(d) ==
  /\ d \in toSample
  /\ toSample' = toSample \ {d}
  /\ LET have == {q \in collection : q.difficulty = d}
     IN  \E s \in kSubset(Min({Wanted(rounds, d) - 1, Cardinality(have)}), have) :
           sampled' = [sampled EXCEPT ![d] = SetToSeq(s)]
  /\ UNCHANGED <<seederVars, rounds, ordered, selected, disturbed, scored>>

(* The difficulties are sampled in any order; $sample returns fewer         *)
(* questions when there are not enough.                                     *)
SelectByDifficulty(d) ==
  /\ d \in toSample
  /\ toSample' = toSample \ {d}
  /\ LET have == {q \in collection : q.difficulty = d}
     IN  \E s \in kSubset(Min({Wanted(rounds, d), Cardinality(have)}), have) :
           sampled' = [sampled EXCEPT ![d] = SetToSeq(s)]
  /\ UNCHANGED <<seederVars, rounds, ordered, selected, disturbed, scored>>

(* MongoDB does not answer: no selection. *)
SelectionFails ==
  /\ toSample # {}
  /\ rounds' = 0
  /\ toSample' = {}
  /\ sampled' = [d \in Difficulty |-> <<>>]
  /\ UNCHANGED <<seederVars, ordered, selected, disturbed, scored>>

(* How many of the first i rounds have the difficulty of round i. *)
Place(dist, i) == Cardinality({j \in 1..i : dist[j] = dist[i]})

(* The k-th element of a set of numbers. *)
Nth(S, k) == CHOOSE i \in S : Cardinality({j \in S : j <= i}) = k

(* Mutant: the samples are joined in the order they came in. *)
JoinSamples ==
  /\ rounds # 0 /\ toSample = {} /\ ~selected
  /\ selected' = TRUE
  /\ \E ds \in SetToSeqs(Difficulty) :
       ordered' = sampled[ds[1]] \o sampled[ds[2]] \o sampled[ds[3]]
  /\ UNCHANGED <<seederVars, rounds, toSample, sampled, disturbed, scored>>

(* The questions are put in the order of the distribution; a round there is *)
(* no question for is left out.                                             *)
Reorder ==
  /\ rounds # 0 /\ toSample = {} /\ ~selected
  /\ selected' = TRUE
  /\ LET dist  == DifficultyDistribution(rounds)
         found == {i \in 1..rounds : Place(dist, i) <= Len(sampled[dist[i]])}
         at(i) == sampled[dist[i]][Place(dist, i)]
     IN  ordered' = [k \in 1..Cardinality(found) |-> at(Nth(found, k))]
  /\ UNCHANGED <<seederVars, rounds, toSample, sampled, disturbed, scored>>

(* An answer to one of the questions is scored. *)
ScoreAnswer ==
  /\ Len(scored) < MaxAnswers
  /\ \E q \in ToSet(ordered), correct \in BOOLEAN, time \in Times :
       \E p \in CalculatePoints(correct, q.difficulty, time, TimeLimit) :
         scored' = Append(scored, [difficulty |-> q.difficulty, correct |-> correct,
                                   time |-> time, points |-> p])
  /\ UNCHANGED <<seederVars, selectionVars, disturbed>>

-----------------------------------------------------------------------------
QuestionsNext ==
  \/ SeedQuestions \/ InsertQuestions \/ SeederDies
  \/ \E n \in RoundCounts : SelectForMatch(n)
  \/ \E d \in Difficulty : SelectByDifficulty(d)
  \/ SelectionFails \/ Reorder
  \/ ScoreAnswer

QuestionsSpec == QuestionsInit /\ [][QuestionsNext]_questionVars

-----------------------------------------------------------------------------
Rank(d) == CASE d = "easy" -> 1 [] d = "medium" -> 2 [] d = "hard" -> 3

(* Whatever the seeder does meanwhile, a selection has no question twice,   *)
(* gets no easier from one round to the next, and has of no difficulty more *)
(* than it should (selector.go:48-83).                                      *)
SelectionInOrder ==
  /\ IsInjective(ordered)
  /\ \A i, j \in DOMAIN ordered : i < j => Rank(ordered[i].difficulty) <= Rank(ordered[j].difficulty)
  /\ \A d \in Difficulty :
       Cardinality({i \in DOMAIN ordered : ordered[i].difficulty = d}) <= Wanted(rounds, d)

(* A selection from a full collection, with no seeder running meanwhile,    *)
(* has a question of the right difficulty for every round                   *)
(* (selector.go:51-83, seed.go:75-130).                                     *)
SelectionComplete ==
  selected /\ ~disturbed /\ (\A d \in Difficulty : Wanted(rounds, d) <= PerDifficulty) =>
    /\ [i \in DOMAIN ordered |-> ordered[i].difficulty] = DifficultyDistribution(rounds)
    /\ ToSet(ordered) \subseteq collection

(* A wrong answer has no points.  A correct one after a time that is not    *)
(* negative has the points of its difficulty and at most half of them       *)
(* again, no fewer than such an answer to an easier question, however fast  *)
(* that was, and no fewer than a slower one to a question of the same       *)
(* difficulty (calculator.go:11-30, README.md:91-98).                       *)
PointsFollowDifficulty ==
  \A a, b \in ToSet(scored) :
    /\ ~a.correct => a.points = 0
    /\ a.correct /\ a.time >= 0 =>
         a.points >= Base(a.difficulty) /\ 2 * a.points <= 3 * Base(a.difficulty)
    /\ a.correct /\ b.correct /\ a.time >= 0 /\ b.time >= 0 =>
         /\ Base(a.difficulty) > Base(b.difficulty) => a.points >= b.points
         /\ a.difficulty = b.difficulty /\ a.time < b.time => a.points >= b.points

(* What README.md:97 says: no answer gets more than half of the points of   *)
(* its difficulty on top.  A client that sends a negative response time     *)
(* does, for nobody checks it (server.go:118, calculator.go:24).            *)
PointsWithinMaximum ==
  \A a \in ToSet(scored) : 2 * a.points <= 3 * Base(a.difficulty)
=============================================================================
