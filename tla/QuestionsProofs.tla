-------------------------- MODULE QuestionsProofs --------------------------
(***************************************************************************)
(* Proofs about the selection of questions, for every number of rounds and  *)
(* of seeded questions, and about the points of answers, for every time     *)
(* limit and every response time.                                           *)
(***************************************************************************)
EXTENDS Questions, FiniteSetTheorems, TLAPS

-----------------------------------------------------------------------------
(* The speed bonus.                                                         *)

LEMMA QuotientBounds ==
  ASSUME NEW base \in Nat, NEW rest \in Nat, NEW limit \in Nat \ {0}, rest <= limit
  PROVE  /\ (base * rest) \div (2 * limit) \in Nat
         /\ 2 * ((base * rest) \div (2 * limit)) <= base
  <1> DEFINE q == (base * rest) \div (2 * limit)
  <1>1. 2 * limit \in Nat \ {0} /\ base * rest \in Nat
    OBVIOUS
  <1>2. q \in Nat /\ (2 * limit) * q <= base * rest
    BY <1>1
  <1>3. base * rest <= base * limit
    OBVIOUS
  <1>4. limit * (2 * q) <= limit * base
    BY <1>2, <1>3
  <1>5. 2 * q <= base
    <2>1. SUFFICES ASSUME 2 * q >= base + 1 PROVE FALSE
      BY <1>2
    <2>2. limit * (2 * q) >= limit * (base + 1)
      BY <2>1, <1>2
    <2>3. limit * (base + 1) = limit * base + limit
      OBVIOUS
    <2> QED
      BY <2>2, <2>3, <1>4, <1>2
  <1> QED
    BY <1>2, <1>5

(* The bonus is not negative; after a time that is not negative, it is at   *)
(* most half the base.                                                      *)
LEMMA BonusBounds ==
  ASSUME NEW base \in Nat \ {0}, NEW time \in Int, NEW limit \in Nat \ {0},
         NEW b \in SpeedBonus(base, time, limit)
  PROVE  b \in Nat /\ (time >= 0 => 2 * b <= base)
  <1>1. CASE time >= limit
    BY <1>1 DEF SpeedBonus
  <1>2. CASE time < limit
    <2> DEFINE rest == limit - time
               exact == (base * rest) \div (2 * limit)
    <2>1. rest \in Nat \ {0} /\ (time >= 0 => rest <= limit)
      BY <1>2
    <2>2. exact \in Nat /\ (time >= 0 => 2 * exact <= base)
      <3>1. exact \in Nat
        <4>1. base * rest \in Nat /\ 2 * limit \in Nat \ {0}
          BY <2>1
        <4> HIDE DEF rest
        <4> QED
          BY <4>1
      <3> QED
        BY <2>1, <3>1, QuotientBounds
    <2>3. b = exact \/ (b = exact - 1 /\ exact * (2 * limit) = base * rest)
      <3>1. ~(time >= limit)
        BY <1>2
      <3> QED
        BY <3>1, Zenon DEF SpeedBonus
    <2>4. exact * (2 * limit) = base * rest => exact # 0
      <3>1. base * rest # 0
        BY <2>1
      <3> QED
        BY <3>1, <2>2
    <2> HIDE DEF exact
    <2> QED
      BY <2>2, <2>3, <2>4
  <1> QED
    BY <1>1, <1>2

(* Of two quotients by m of different numbers the one of the larger is no   *)
(* smaller, and it is larger if that number is a multiple of m.             *)
LEMMA QuotientGrows ==
  ASSUME NEW m \in Nat \ {0}, NEW x \in Nat, NEW y \in Nat, y < x
  PROVE  /\ y \div m <= x \div m
         /\ (x \div m) * m = x => y \div m <= (x \div m) - 1
         /\ x \div m \in Nat /\ y \div m \in Nat
  <1> DEFINE p == x \div m
             q == y \div m
  <1>1. p \in Nat /\ q \in Nat /\ m * q <= y /\ x < m * p + m
    OBVIOUS
  <1> HIDE DEF p, q
  <1>2. m * q < m * (p + 1)
    BY <1>1
  <1>3. q < p + 1
    <2>1. SUFFICES ASSUME q >= p + 1 PROVE FALSE
      BY <1>1
    <2>2. m * q >= m * (p + 1)
      BY <2>1, <1>1
    <2> QED
      BY <2>2, <1>2, <1>1
  <1>4. p * m = x => q < p
    <2>1. SUFFICES ASSUME p * m = x, q >= p PROVE FALSE
      BY <1>1
    <2>2. m * q >= m * p
      BY <2>1, <1>1
    <2> QED
      BY <2>1, <2>2, <1>1
  <1> QED
    BY <1>1, <1>3, <1>4 DEF p, q

(* A faster answer has no smaller bonus, although the bonus of its time may *)
(* be rounded down to the integer below a whole quotient.                   *)
LEMMA BonusFalls ==
  ASSUME NEW base \in Nat \ {0}, NEW s \in Nat, NEW t \in Nat, s < t, NEW limit \in Nat \ {0},
         NEW b \in SpeedBonus(base, s, limit), NEW c \in SpeedBonus(base, t, limit)
  PROVE  c <= b
  <1>1. b \in Nat /\ c \in Nat
    BY BonusBounds
  <1>2. CASE t >= limit
    <2>1. c = 0
      BY <1>2 DEF SpeedBonus
    <2> QED
      BY <1>1, <2>1
  <1>3. CASE t < limit
    <2> DEFINE x == base * (limit - s)
               y == base * (limit - t)
               m == 2 * limit
    <2>1. x \in Nat /\ y \in Nat /\ y < x /\ m \in Nat \ {0}
      BY <1>3
    <2>2. ~(s >= limit) /\ ~(t >= limit)
      BY <1>3
    <2>3. b = x \div m \/ (b = (x \div m) - 1 /\ (x \div m) * m = x)
      BY <2>2, Zenon DEF SpeedBonus
    <2>4. c = y \div m \/ c = (y \div m) - 1
      BY <2>2, Zenon DEF SpeedBonus
    <2> HIDE DEF x, y, m
    <2>5. /\ y \div m <= x \div m
          /\ (x \div m) * m = x => y \div m <= (x \div m) - 1
          /\ x \div m \in Nat /\ y \div m \in Nat
      BY <2>1, QuotientGrows
    <2> DEFINE p == x \div m
               q == y \div m
    <2>6. /\ b = p \/ (b = p - 1 /\ q <= p - 1)
          /\ c = q \/ c = q - 1
          /\ q <= p /\ p \in Nat /\ q \in Nat
      BY <2>3, <2>4, <2>5
    <2> HIDE DEF p, q
    <2> QED
      BY <2>6
  <1> QED
    BY <1>2, <1>3

(* Every difficulty has a base of 100 to 300 points, in steps of 100.       *)
LEMMA BaseValues ==
  ASSUME NEW d
  PROVE  Base(d) \in {100, 200, 300}
  BY DEF Base, Difficulty, basePointsByDifficulty

(* An int32 holds the points of every answer in time. *)
LEMMA Int32Facts ==
  /\ MaxInt32 \in Nat /\ MaxInt32 >= 450
  /\ \A n \in Int : n \in Int32 <=> -MaxInt32 - 1 <= n /\ n <= MaxInt32
  /\ \A n \in Int32 : n \in Int
  <1>1. MaxInt32 \in Nat /\ MaxInt32 >= 450
    BY SMT DEF MaxInt32
  <1> QED
    BY <1>1 DEF Int32

(* The points of an answer are an int32.  It has none if it is wrong; if it *)
(* is correct and its time is not negative, it has those of its difficulty  *)
(* and its bonus, at most half of them.                                     *)
LEMMA PointsBounds ==
  ASSUME NEW correct \in BOOLEAN, NEW d, NEW time \in Int, NEW limit \in Nat \ {0},
         NEW p \in CalculatePoints(correct, d, time, limit)
  PROVE  /\ p \in Int32
         /\ ~correct => p = 0
         /\ correct /\ time >= 0 =>
              /\ p >= Base(d) /\ 2 * p <= 3 * Base(d)
              /\ \E b \in SpeedBonus(Base(d), time, limit) : p = Base(d) + b
  <1> DEFINE sums == {Base(d) + b : b \in SpeedBonus(Base(d), time, limit)}
  <1>1. CASE ~correct
    BY <1>1, Int32Facts DEF CalculatePoints
  <1>2. CASE correct
    <2>1. Base(d) \in {100, 200, 300}
      BY BaseValues
    <2>2. \A b \in SpeedBonus(Base(d), time, limit) : b \in Nat /\ (time >= 0 => 2 * b <= Base(d))
      <3>1. Base(d) \in Nat \ {0}
        BY <2>1
      <3> QED
        BY <3>1, BonusBounds
    <2>3. \A q \in sums : q \in Nat /\ (time >= 0 => q >= Base(d) /\ 2 * q <= 3 * Base(d))
      BY <2>1, <2>2
    <2>4. CASE p \in sums /\ \A q \in sums : q <= MaxInt32
      <3>1. p \in Int32
        <4>1. p \in Nat /\ p <= MaxInt32
          BY <2>3, <2>4
        <4> QED
          BY ONLY SMTT(30), <4>1, Int32Facts
      <3> QED
        BY <1>2, <2>3, <2>4, <3>1
    <2>5. CASE p \in Int32 /\ ~(\A q \in sums : q <= MaxInt32)
      <3>1. ~(time >= 0)
        BY <2>1, <2>3, <2>5, Int32Facts
      <3> QED
        BY <1>2, <2>5, <3>1
    <2>6. \/ p \in sums /\ \A q \in sums : q <= MaxInt32
          \/ p \in Int32 /\ ~(\A q \in sums : q <= MaxInt32)
      BY <1>2, Zenon DEF CalculatePoints
    <2> QED
      BY <2>4, <2>5, <2>6
  <1> QED
    BY <1>1, <1>2

(* Whatever response time a client sends, negative ones included, and       *)
(* whatever time limit that is not 0: CalculatePoints returns an int32; it  *)
(* returns 0 to 450 points, as the models of the match may take for their   *)
(* constant Points, for every time that is not negative                     *)
(* (calculator.go:11-30).                                                   *)
THEOREM PointsAreInRange ==
  \A correct \in BOOLEAN, time \in Int, limit \in Nat \ {0}, d \in Difficulty :
    /\ CalculatePoints(correct, d, time, limit) \subseteq Int32
    /\ time >= 0 => CalculatePoints(correct, d, time, limit) \subseteq 0..450
  <1> SUFFICES ASSUME NEW correct \in BOOLEAN, NEW time \in Int, NEW limit \in Nat \ {0},
                      NEW d \in Difficulty, NEW p \in CalculatePoints(correct, d, time, limit)
               PROVE  p \in Int32 /\ (time >= 0 => p \in 0..450)
    OBVIOUS
  <1>1. /\ p \in Int32
        /\ ~correct => p = 0
        /\ correct /\ time >= 0 => p >= Base(d) /\ 2 * p <= 3 * Base(d)
    BY PointsBounds
  <1>2. Base(d) \in {100, 200, 300} /\ (p \in Int32 => p \in Int)
    BY BaseValues, Int32Facts
  <1> QED
    BY <1>1, <1>2

-----------------------------------------------------------------------------
(* All answers that were scored have the points of one call of              *)
(* CalculatePoints.                                                         *)

Calculated(a) ==
  /\ a.correct \in BOOLEAN
  /\ a.time \in Int
  /\ a.points \in CalculatePoints(a.correct, a.difficulty, a.time, TimeLimit)

ScoredInv == \E S : scored \in Seq(S) /\ \A a \in S : Calculated(a)

LEMMA ScoredInvInit == QuestionsInit => ScoredInv
  <1> SUFFICES ASSUME QuestionsInit PROVE ScoredInv
    OBVIOUS
  <1>1. scored \in Seq({})
    BY DEF QuestionsInit
  <1> QED
    BY <1>1 DEF ScoredInv

LEMMA ScoredInvNext == ScoredInv /\ [QuestionsNext]_questionVars => ScoredInv'
  <1> SUFFICES ASSUME ScoredInv, [QuestionsNext]_questionVars PROVE ScoredInv'
    OBVIOUS
  <1>1. PICK S : scored \in Seq(S) /\ \A a \in S : Calculated(a)
    BY DEF ScoredInv
  <1>2. CASE ScoreAnswer
    <2>0. PICK q \in ToSet(ordered), correct \in BOOLEAN, time \in Times :
            \E p \in CalculatePoints(correct, q.difficulty, time, TimeLimit) :
              scored' = Append(scored, [difficulty |-> q.difficulty, correct |-> correct,
                                        time |-> time, points |-> p])
      BY <1>2 DEF ScoreAnswer
    <2>1. PICK p \in CalculatePoints(correct, q.difficulty, time, TimeLimit) :
            scored' = Append(scored, [difficulty |-> q.difficulty, correct |-> correct,
                                      time |-> time, points |-> p])
      BY <2>0
    <2> DEFINE r == [difficulty |-> q.difficulty, correct |-> correct,
                     time |-> time, points |-> p]
    <2>2. Calculated(r)
      BY QuestionsAssumption DEF Calculated, QuestionsAssumption
    <2>3. scored' \in Seq(S \cup {r})
      <3>1. scored \in Seq(S \cup {r})
        BY <1>1
      <3> HIDE DEF r
      <3> QED
        BY <2>1, <3>1 DEF r
    <2> HIDE DEF r
    <2>4. \A a \in S \cup {r} : Calculated(a)
      BY <1>1, <2>2
    <2>5. (\A a \in S \cup {r} : Calculated(a))'
      BY <2>4 DEF Calculated, CalculatePoints
    <2> QED
      BY <2>3, <2>5 DEF ScoredInv
  <1>3. CASE UNCHANGED scored
    BY <1>1, <1>3 DEF ScoredInv, Calculated
  <1>4. ScoreAnswer \/ UNCHANGED scored
    BY Zenon DEF QuestionsNext, questionVars, SeedQuestions, InsertQuestions, SeederDies,
           SelectForMatch, SelectByDifficulty, SelectionFails, Reorder
  <1> QED
    BY <1>2, <1>3, <1>4

LEMMA ScoredInvImplies == ScoredInv => PointsFollowDifficulty
  <1> SUFFICES ASSUME ScoredInv,
                      NEW a \in ToSet(scored), NEW b \in ToSet(scored)
               PROVE  /\ ~a.correct => a.points = 0
                      /\ a.correct /\ a.time >= 0 =>
                           a.points >= Base(a.difficulty) /\ 2 * a.points <= 3 * Base(a.difficulty)
                      /\ a.correct /\ b.correct /\ a.time >= 0 /\ b.time >= 0 =>
                           /\ Base(a.difficulty) > Base(b.difficulty) => a.points >= b.points
                           /\ a.difficulty = b.difficulty /\ a.time < b.time => a.points >= b.points
    BY DEF PointsFollowDifficulty
  <1>1. PICK S : scored \in Seq(S) /\ \A s \in S : Calculated(s)
    BY DEF ScoredInv
  <1>2. a \in S /\ b \in S
    BY <1>1 DEF ToSet
  <1>3. Calculated(a) /\ Calculated(b)
    BY <1>1, <1>2
  <1>4. ASSUME NEW r, Calculated(r)
        PROVE  /\ r.points \in Int
               /\ r.time \in Int
               /\ ~r.correct => r.points = 0
               /\ r.correct /\ r.time >= 0 =>
                    /\ r.points >= Base(r.difficulty) /\ 2 * r.points <= 3 * Base(r.difficulty)
                    /\ \E c \in SpeedBonus(Base(r.difficulty), r.time, TimeLimit) :
                         r.points = Base(r.difficulty) + c
    <2>1. \A n \in Int32 : n \in Int
      BY Int32Facts
    <2> QED
      BY <1>4, <2>1, PointsBounds, QuestionsAssumption DEF Calculated, QuestionsAssumption
  <1>5. Base(a.difficulty) \in {100, 200, 300} /\ Base(b.difficulty) \in {100, 200, 300}
    BY BaseValues
  <1>6. ASSUME a.correct, b.correct, a.time >= 0, b.time >= 0, a.difficulty = b.difficulty, a.time < b.time
        PROVE  a.points >= b.points
    <2>1. PICK c \in SpeedBonus(Base(a.difficulty), a.time, TimeLimit) : a.points = Base(a.difficulty) + c
      BY <1>3, <1>4, <1>6
    <2>2. PICK e \in SpeedBonus(Base(b.difficulty), b.time, TimeLimit) : b.points = Base(b.difficulty) + e
      BY <1>3, <1>4, <1>6
    <2>3. a.time \in Nat /\ b.time \in Nat /\ Base(a.difficulty) \in Nat \ {0} /\ TimeLimit \in Nat \ {0}
      BY <1>3, <1>4, <1>5, <1>6, QuestionsAssumption DEF QuestionsAssumption
    <2>4. c \in Nat /\ e \in Nat
      BY <2>3, <1>6, BonusBounds
    <2>5. e <= c
      BY <2>3, <1>6, BonusFalls
    <2> QED
      BY <2>1, <2>2, <2>3, <2>4, <2>5, <1>6
  <1> QED
    BY <1>3, <1>4, <1>5, <1>6

(* Whatever is selected and answered, and whatever times clients send: a    *)
(* wrong answer has no points, and of two correct ones whose times are not  *)
(* negative that to a harder question, and of two to the same difficulty    *)
(* the faster one, is worth at least as much (calculator.go:11-30).         *)
THEOREM HarderIsWorthMore == QuestionsSpec => []PointsFollowDifficulty
  <1>1. QuestionsInit => ScoredInv
    BY ScoredInvInit
  <1>2. ScoredInv /\ [QuestionsNext]_questionVars => ScoredInv'
    BY ScoredInvNext
  <1>3. ScoredInv => PointsFollowDifficulty
    BY ScoredInvImplies
  <1> QED
    BY <1>1, <1>2, <1>3, PTL DEF QuestionsSpec

-----------------------------------------------------------------------------
(* The distribution: e easy rounds, then m medium ones, then the hard ones. *)
Steps(dist, n, e, m) ==
  /\ dist \in [1..n -> Difficulty]
  /\ \A i \in 1..n : /\ i <= e => dist[i] = "easy"
                     /\ e < i /\ i <= e + m => dist[i] = "medium"
                     /\ e + m < i => dist[i] = "hard"

LEMMA RepeatedFacts ==
  ASSUME NEW d \in Difficulty, NEW k \in Nat
  PROVE  /\ Repeated(d, k) \in Seq(Difficulty) /\ Len(Repeated(d, k)) = k
         /\ \A i \in 1..k : Repeated(d, k)[i] = d
  BY DEF Repeated

LEMMA ThreeParts ==
  ASSUME NEW S, NEW a \in Seq(S), NEW b \in Seq(S), NEW c \in Seq(S)
  PROVE  /\ a \o b \o c \in Seq(S)
         /\ Len(a) \in Nat /\ Len(b) \in Nat /\ Len(c) \in Nat
         /\ Len(a \o b \o c) = Len(a) + Len(b) + Len(c)
         /\ \A i \in 1..Len(a) + Len(b) + Len(c) :
              /\ i <= Len(a) => i \in 1..Len(a) /\ (a \o b \o c)[i] = a[i]
              /\ Len(a) < i /\ i <= Len(a) + Len(b) =>
                   i - Len(a) \in 1..Len(b) /\ (a \o b \o c)[i] = b[i - Len(a)]
              /\ Len(a) + Len(b) < i =>
                   /\ i - Len(a) - Len(b) \in 1..Len(c)
                   /\ (a \o b \o c)[i] = c[i - Len(a) - Len(b)]
  OBVIOUS

(* For every number of rounds the shares are those of the distribution, and *)
(* close to what they should be.                                            *)
LEMMA DistributionFacts ==
  ASSUME NEW n \in Nat
  PROVE  \E e \in Nat, m \in Nat :
           /\ e + m <= n
           /\ DifficultyDistribution(n) \in Seq(Difficulty)
           /\ Len(DifficultyDistribution(n)) = n
           /\ Steps(DifficultyDistribution(n), n, e, m)
           /\ 5 * e - 2 * n \in -5..0 /\ (5 * e - 2 * n = -5 => n = 10)
           /\ 5 * m - 2 * n \in -4..1
           /\ 5 * (n - e - m) - n \in 0..8
  <1> DEFINE e == CASE n = 5 -> 2 [] n = 7 -> 2 [] n = 10 -> 3 [] OTHER -> (2 * n) \div 5
             m == CASE n = 5 -> 2 [] n = 7 -> 3 [] n = 10 -> 4 [] OTHER -> (2 * n) \div 5
             q == (2 * n) \div 5
             a == Repeated("easy", e)
             b == Repeated("medium", m)
             c == Repeated("hard", n - e - m)
             dist == DifficultyDistribution(n)
  <1>1. q \in Nat /\ 5 * q <= 2 * n /\ 2 * n < 5 * q + 5
    OBVIOUS
  <1> HIDE DEF q
  <1>2. \/ n = 5 /\ e = 2 /\ m = 2
        \/ n = 7 /\ e = 2 /\ m = 3
        \/ n = 10 /\ e = 3 /\ m = 4
        \/ e = q /\ m = q
    BY DEF q
  <1>3. dist = a \o b \o c
    BY DEF DifficultyDistribution
  <1> HIDE DEF e, m
  <1>4. /\ e \in Nat /\ m \in Nat /\ e + m <= n /\ n - e - m \in Nat
        /\ 5 * e - 2 * n \in -5..0 /\ (5 * e - 2 * n = -5 => n = 10)
        /\ 5 * m - 2 * n \in -4..1
        /\ 5 * (n - e - m) - n \in 0..8
    <2>1. CASE n = 5 /\ e = 2 /\ m = 2
      BY <2>1
    <2>2. CASE n = 7 /\ e = 2 /\ m = 3
      BY <2>2
    <2>3. CASE n = 10 /\ e = 3 /\ m = 4
      BY <2>3
    <2>4. CASE e = q /\ m = q
      BY <1>1, <2>4
    <2> QED
      BY <1>2, <2>1, <2>2, <2>3, <2>4
  <1>5. {"easy", "medium", "hard"} \subseteq Difficulty
    BY DEF Difficulty
  <1> DEFINE h == n - e - m
  <1> HIDE DEF h
  <1>0. h \in Nat /\ n = e + m + h
    BY <1>4 DEF h
  <1>6. /\ a \in Seq(Difficulty) /\ Len(a) = e /\ \A i \in 1..e : a[i] = "easy"
        /\ b \in Seq(Difficulty) /\ Len(b) = m /\ \A i \in 1..m : b[i] = "medium"
        /\ c \in Seq(Difficulty) /\ Len(c) = h /\ \A i \in 1..h : c[i] = "hard"
    <2>1. \A d \in Difficulty, k \in Nat :
            /\ Repeated(d, k) \in Seq(Difficulty) /\ Len(Repeated(d, k)) = k
            /\ \A i \in 1..k : Repeated(d, k)[i] = d
      BY RepeatedFacts
    <2>2. c = Repeated("hard", h)
      BY DEF h
    <2> QED
      BY ONLY <1>0, <1>4, <1>5, <2>1, <2>2
  <1> HIDE DEF a, b, c
  <1>7. dist \in Seq(Difficulty) /\ Len(dist) = e + m + h
    <2>0. a \in Seq(Difficulty) /\ b \in Seq(Difficulty) /\ c \in Seq(Difficulty)
      BY <1>6
    <2>1. a \o b \o c \in Seq(Difficulty) /\ Len(a \o b \o c) = Len(a) + Len(b) + Len(c)
      BY ONLY <2>0, ThreeParts
    <2> QED
      BY ONLY <1>3, <1>6, <2>1
  <1>8. Len(dist) = n
    BY <1>0, <1>7
  <1>9. \A i \in 1..n : /\ i <= e => i \in 1..e /\ dist[i] = a[i]
                        /\ e < i /\ i <= e + m => i - e \in 1..m /\ dist[i] = b[i - e]
                        /\ e + m < i => i - e - m \in 1..h /\ dist[i] = c[i - e - m]
    <2>1. \A i \in 1..Len(a) + Len(b) + Len(c) :
              /\ i <= Len(a) => i \in 1..Len(a) /\ (a \o b \o c)[i] = a[i]
              /\ Len(a) < i /\ i <= Len(a) + Len(b) =>
                   i - Len(a) \in 1..Len(b) /\ (a \o b \o c)[i] = b[i - Len(a)]
              /\ Len(a) + Len(b) < i =>
                   /\ i - Len(a) - Len(b) \in 1..Len(c)
                   /\ (a \o b \o c)[i] = c[i - Len(a) - Len(b)]
      BY ONLY <1>6, ThreeParts
    <2>2. Len(a) = e /\ Len(b) = m /\ Len(c) = h
      BY <1>6
    <2> QED
      BY ONLY SMTT(30), <1>0, <1>3, <2>1, <2>2
  <1> HIDE DEF dist
  <1>10. Steps(dist, n, e, m)
    <2>1. dist \in [1..n -> Difficulty]
      BY <1>7, <1>8
    <2> QED
      BY <1>6, <1>9, <2>1 DEF Steps
  <1> QED
    BY <1>4, <1>7, <1>8, <1>10 DEF dist

LEMMA IntervalCard ==
  ASSUME NEW a \in Nat, NEW b \in Nat, a <= b
  PROVE  IsFiniteSet((a + 1)..b) /\ Cardinality((a + 1)..b) = b - a
  <1>1. a + 1 \in Int /\ b \in Int /\ (a + 1 > b => b - a = 0) /\ b - (a + 1) + 1 = b - a
    OBVIOUS
  <1> QED
    BY <1>1, FS_Interval

LEMMA FirstCard ==
  ASSUME NEW b \in Nat
  PROVE  IsFiniteSet(1..b) /\ Cardinality(1..b) = b
  <1>1. 1 \in Int /\ b \in Int /\ (1 > b => b = 0) /\ b - 1 + 1 = b
    OBVIOUS
  <1> QED
    BY <1>1, FS_Interval

(* The rounds of every difficulty. *)
LEMMA StepSets ==
  ASSUME NEW n \in Nat, NEW e \in Nat, NEW m \in Nat, e + m <= n, NEW dist, Steps(dist, n, e, m)
  PROVE  /\ {i \in 1..n : dist[i] = "easy"} = 1..e
         /\ {i \in 1..n : dist[i] = "medium"} = (e + 1)..(e + m)
         /\ {i \in 1..n : dist[i] = "hard"} = (e + m + 1)..n
         /\ DOMAIN dist = 1..n
  <1>1. \A i \in 1..n : /\ dist[i] = "easy" <=> i <= e
                        /\ dist[i] = "medium" <=> e < i /\ i <= e + m
                        /\ dist[i] = "hard" <=> e + m < i
    BY DEF Steps
  <1>2. DOMAIN dist = 1..n
    BY DEF Steps
  <1> QED
    BY ONLY <1>1, <1>2, n \in Nat, e \in Nat, m \in Nat, e + m <= n

(* The place of a round among those of its difficulty. *)
LEMMA StepPlaces ==
  ASSUME NEW n \in Nat, NEW e \in Nat, NEW m \in Nat, e + m <= n, NEW dist, Steps(dist, n, e, m),
         NEW i \in 1..n
  PROVE  /\ dist[i] = "easy" => i <= e /\ Place(dist, i) = i
         /\ dist[i] = "medium" => e < i /\ i <= e + m /\ Place(dist, i) = i - e
         /\ dist[i] = "hard" => e + m < i /\ Place(dist, i) = i - (e + m)
  <1>1. \A j \in 1..n : /\ dist[j] = "easy" <=> j <= e
                        /\ dist[j] = "medium" <=> e < j /\ j <= e + m
                        /\ dist[j] = "hard" <=> e + m < j
    BY DEF Steps
  <1>2. i \in Nat /\ e + m \in Nat /\ \A j \in 1..i : j \in 1..n
    OBVIOUS
  <1>3. CASE dist[i] = "easy"
    <2>1. {j \in 1..i : dist[j] = dist[i]} = 1..i
      BY <1>1, <1>2, <1>3
    <2>2. Cardinality(1..i) = i
      BY <1>2, FirstCard
    <2> QED
      BY <1>1, <1>3, <2>1, <2>2 DEF Place
  <1>4. CASE dist[i] = "medium"
    <2>1. {j \in 1..i : dist[j] = dist[i]} = (e + 1)..i
      BY <1>1, <1>2, <1>4
    <2>2. Cardinality((e + 1)..i) = i - e
      BY <1>1, <1>2, <1>4, IntervalCard
    <2> QED
      BY <1>1, <1>4, <2>1, <2>2 DEF Place
  <1>5. CASE dist[i] = "hard"
    <2>1. {j \in 1..i : dist[j] = dist[i]} = ((e + m) + 1)..i
      BY <1>1, <1>2, <1>5
    <2>2. Cardinality(((e + m) + 1)..i) = i - (e + m)
      <3>1. e + m <= i
        BY <1>1, <1>2, <1>5
      <3> QED
        BY ONLY <1>2, <3>1, IntervalCard
    <2> QED
      BY <1>1, <1>5, <2>1, <2>2 DEF Place
  <1> QED
    BY <1>3, <1>4, <1>5

(* What the selection needs of the distribution. *)
(* Five times the distance of the shares from 40, 40 and 20 percent.        *)
NearShares(n) ==
  /\ 5 * Wanted(n, "easy") - 2 * n \in -5..0
  /\ 5 * Wanted(n, "easy") - 2 * n = -5 => n = 10
  /\ 5 * Wanted(n, "medium") - 2 * n \in -4..1
  /\ 5 * Wanted(n, "hard") - n \in 0..8

LEMMA DistributionOrder ==
  ASSUME NEW n \in Nat
  PROVE  LET dist == DifficultyDistribution(n)
         IN  /\ dist \in [1..n -> Difficulty] /\ dist \in Seq(Difficulty) /\ Len(dist) = n
             /\ \A d \in Difficulty :
                  /\ IsFiniteSet({i \in 1..n : dist[i] = d})
                  /\ Cardinality({i \in 1..n : dist[i] = d}) = Wanted(n, d)
                  /\ Wanted(n, d) \in Nat
             /\ \A i \in 1..n : Place(dist, i) \in 1..Wanted(n, dist[i])
             /\ \A i, j \in 1..n : dist[i] = dist[j] /\ Place(dist, i) = Place(dist, j) => i = j
             /\ \A i, j \in 1..n : i <= j => Rank(dist[i]) <= Rank(dist[j])
             /\ NearShares(n)
  <1> DEFINE dist == DifficultyDistribution(n)
  <1>1. PICK e \in Nat, m \in Nat :
           /\ e + m <= n /\ dist \in Seq(Difficulty) /\ Len(dist) = n
           /\ Steps(dist, n, e, m)
           /\ 5 * e - 2 * n \in -5..0 /\ (5 * e - 2 * n = -5 => n = 10)
           /\ 5 * m - 2 * n \in -4..1
           /\ 5 * (n - e - m) - n \in 0..8
    BY DistributionFacts
  <1>2. \A d : Wanted(n, d) = Cardinality({i \in DOMAIN dist : dist[i] = d})
    BY DEF Wanted
  <1> HIDE DEF dist
  <1>3. /\ {i \in 1..n : dist[i] = "easy"} = 1..e
        /\ {i \in 1..n : dist[i] = "medium"} = (e + 1)..(e + m)
        /\ {i \in 1..n : dist[i] = "hard"} = ((e + m) + 1)..n
        /\ DOMAIN dist = 1..n
    BY <1>1, StepSets
  <1>4. /\ IsFiniteSet(1..e) /\ Cardinality(1..e) = e
        /\ IsFiniteSet((e + 1)..(e + m)) /\ Cardinality((e + 1)..(e + m)) = m
        /\ IsFiniteSet(((e + m) + 1)..n) /\ Cardinality(((e + m) + 1)..n) = n - (e + m)
    <2>1. e + m \in Nat /\ e <= e + m /\ (e + m) - e = m
      BY <1>1
    <2>2. IsFiniteSet(1..e) /\ Cardinality(1..e) = e
      BY FirstCard
    <2>3. IsFiniteSet((e + 1)..(e + m)) /\ Cardinality((e + 1)..(e + m)) = (e + m) - e
      BY ONLY <2>1, e \in Nat, IntervalCard
    <2>4. IsFiniteSet(((e + m) + 1)..n) /\ Cardinality(((e + m) + 1)..n) = n - (e + m)
      BY ONLY <1>1, <2>1, n \in Nat, IntervalCard
    <2> QED
      BY <2>1, <2>2, <2>3, <2>4
  <1>5. \A d \in Difficulty : d \in {"easy", "medium", "hard"}
    BY DEF Difficulty
  <1>6. Wanted(n, "easy") = e /\ Wanted(n, "medium") = m /\ Wanted(n, "hard") = n - (e + m)
    BY <1>2, <1>3, <1>4
  <1>7. \A d \in Difficulty : /\ IsFiniteSet({i \in 1..n : dist[i] = d})
                              /\ Cardinality({i \in 1..n : dist[i] = d}) = Wanted(n, d)
                              /\ Wanted(n, d) \in Nat
    <2>1. n - (e + m) \in Nat
      BY <1>1
    <2> TAKE d \in Difficulty
    <2>2. CASE d = "easy"
      BY ONLY <1>3, <1>4, <1>6, <2>2, e \in Nat
    <2>3. CASE d = "medium"
      BY ONLY <1>3, <1>4, <1>6, <2>3, m \in Nat
    <2>4. CASE d = "hard"
      BY ONLY <1>3, <1>4, <1>6, <2>1, <2>4
    <2> QED
      BY <1>5, <2>2, <2>3, <2>4
  <1>8. dist \in [1..n -> Difficulty]
    BY <1>1 DEF Steps
  <1>9. \A i \in 1..n :
          /\ dist[i] \in {"easy", "medium", "hard"}
          /\ dist[i] = "easy" => i <= e /\ Place(dist, i) = i
          /\ dist[i] = "medium" => e < i /\ i <= e + m /\ Place(dist, i) = i - e
          /\ dist[i] = "hard" => e + m < i /\ Place(dist, i) = i - (e + m)
    BY <1>1, <1>5, <1>8, StepPlaces
  <1>10. \A i \in 1..n : Place(dist, i) \in 1..Wanted(n, dist[i])
    BY <1>1, <1>6, <1>9
  <1>11. \A i, j \in 1..n : dist[i] = dist[j] /\ Place(dist, i) = Place(dist, j) => i = j
    BY <1>1, <1>9
  <1>12. \A i, j \in 1..n : i <= j => Rank(dist[i]) <= Rank(dist[j])
    <2> SUFFICES ASSUME NEW i \in 1..n, NEW j \in 1..n, i <= j
                 PROVE  Rank(dist[i]) <= Rank(dist[j])
      OBVIOUS
    <2>1. Rank("easy") = 1 /\ Rank("medium") = 2 /\ Rank("hard") = 3
      BY DEF Rank
    <2>2. ~(dist[i] = "medium" /\ dist[j] = "easy")
      BY <1>9
    <2>3. ~(dist[i] = "hard" /\ dist[j] \in {"easy", "medium"})
      BY <1>9
    <2>4. dist[i] \in {"easy", "medium", "hard"} /\ dist[j] \in {"easy", "medium", "hard"}
      BY <1>9
    <2> QED
      BY ONLY <2>1, <2>2, <2>3, <2>4
  <1>13. NearShares(n)
    <2>1. n - (e + m) = n - e - m
      OBVIOUS
    <2> QED
      BY <1>1, <1>6, <2>1 DEF NearShares
  <1> QED
    BY <1>1, <1>7, <1>8, <1>10, <1>11, <1>12, <1>13 DEF dist

(* The elements of a finite set of numbers, from the least on. *)
LEMMA NthFacts ==
  ASSUME NEW S \in SUBSET Nat, IsFiniteSet(S)
  PROVE  /\ Cardinality(S) \in Nat
         /\ \A k \in 1..Cardinality(S) : Nth(S, k) \in S
         /\ \A j, k \in 1..Cardinality(S) : j < k => Nth(S, j) < Nth(S, k)
  <1> DEFINE upTo(i) == {j \in S : j <= i}
             rank == [i \in S |-> Cardinality(upTo(i))]
             N == Cardinality(S)
  <1>1. N \in Nat
    BY FS_CardinalityType
  <1>2. \A i \in S : /\ IsFiniteSet(upTo(i)) /\ Cardinality(upTo(i)) \in Nat
                     /\ Cardinality(upTo(i)) <= N /\ Cardinality(upTo(i)) # 0
    <2> TAKE i \in S
    <2>1. upTo(i) \in SUBSET S /\ i \in upTo(i)
      OBVIOUS
    <2> HIDE DEF upTo
    <2>2. IsFiniteSet(upTo(i)) /\ Cardinality(upTo(i)) <= N
      BY <2>1, FS_Subset
    <2> QED
      BY <2>1, <2>2, FS_CardinalityType, FS_EmptySet
  <1>3. ASSUME NEW i \in S, NEW j \in S, i < j
        PROVE  Cardinality(upTo(i)) < Cardinality(upTo(j))
    <2>0. i \in Nat /\ j \in Nat /\ \A x \in S : x \in Nat
      OBVIOUS
    <2>1. upTo(i) \in SUBSET upTo(j) /\ j \in upTo(j) /\ j \notin upTo(i)
      <3>1. \A x \in S : x <= i => x <= j
        BY <1>3, <2>0
      <3>2. j <= j /\ ~(j <= i)
        BY <1>3, <2>0
      <3> QED
        BY ONLY <3>1, <3>2, j \in S
    <2> HIDE DEF upTo
    <2>2. Cardinality(upTo(i)) <= Cardinality(upTo(j))
          /\ Cardinality(upTo(i)) # Cardinality(upTo(j))
      BY <1>2, <2>1, FS_Subset
    <2> QED
      BY <1>2, <2>2
  <1>4. rank \in Injection(S, 1..N)
    <2>1. rank \in [S -> 1..N]
      BY <1>1, <1>2
    <2>2. \A i, j \in S : rank[i] = rank[j] => i = j
      <3>1. \A i, j \in S : i < j \/ j < i \/ i = j
        OBVIOUS
      <3>2. \A i \in S : rank[i] \in Nat
        BY <1>2
      <3> HIDE DEF upTo
      <3> QED
        BY <1>2, <1>3, <3>1, <3>2
    <2> HIDE DEF rank
    <2> QED
      BY <2>1, <2>2 DEF Injection, IsInjective
  <1>5. IsFiniteSet(1..N) /\ Cardinality(1..N) = N
    BY <1>1, FS_Interval
  <1>6. rank \in Surjection(S, 1..N)
    <2> HIDE DEF rank
    <2> QED
      BY <1>4, <1>5, FS_Injection
  <1>7. \A k \in 1..N : \E i \in S : Cardinality(upTo(i)) = k
    <2>1. \A k \in 1..N : \E i \in S : rank[i] = k
      <3> HIDE DEF rank
      <3> QED
        BY <1>6 DEF Surjection
    <2> QED
      BY <2>1
  <1>8. \A k \in 1..N : Nth(S, k) \in S /\ Cardinality(upTo(Nth(S, k))) = k
    BY <1>7 DEF Nth
  <1>9. ASSUME NEW j \in 1..N, NEW k \in 1..N, j < k PROVE Nth(S, j) < Nth(S, k)
    <2>1. Nth(S, j) \in S /\ Nth(S, k) \in S /\ Nth(S, j) \in Nat /\ Nth(S, k) \in Nat
      BY <1>8
    <2>2. /\ ~(Nth(S, k) < Nth(S, j))
          /\ Nth(S, k) # Nth(S, j)
      <3> HIDE DEF upTo
      <3> QED
        BY <1>3, <1>8, <1>9, <2>1
    <2> QED
      BY <2>1, <2>2
  <1> QED
    BY <1>1, <1>8, <1>9

-----------------------------------------------------------------------------
(* What SelectForMatch makes of the samples. *)

(* The sample s has questions of the difficulty d, and none twice. *)
IsSample(s, d) ==
  /\ Len(s) \in Nat
  /\ DOMAIN s = 1..Len(s)
  /\ \A i \in 1..Len(s) : s[i].difficulty = d
  /\ \A i, j \in 1..Len(s) : s[i] = s[j] => i = j

Dist(n) == DifficultyDistribution(n)
Found(n, samples) == {i \in 1..n : Place(Dist(n), i) <= Len(samples[Dist(n)[i]])}
QuestionAt(n, samples, i) == samples[Dist(n)[i]][Place(Dist(n), i)]
Reordered(n, samples) ==
  [k \in 1..Cardinality(Found(n, samples)) |-> QuestionAt(n, samples, Nth(Found(n, samples), k))]

LEMMA FoundFacts ==
  ASSUME NEW n \in Nat, NEW samples, \A d \in Difficulty : IsSample(samples[d], d)
  PROVE  LET found == Found(n, samples)
         IN  /\ found \in SUBSET (1..n) /\ found \in SUBSET Nat /\ IsFiniteSet(found)
             /\ Cardinality(found) \in Nat
             /\ \A i \in found :
                  /\ Dist(n)[i] \in Difficulty
                  /\ Place(Dist(n), i) \in 1..Len(samples[Dist(n)[i]])
                  /\ QuestionAt(n, samples, i).difficulty = Dist(n)[i]
             /\ \A i, j \in found : QuestionAt(n, samples, i) = QuestionAt(n, samples, j) => i = j
             /\ \A i, j \in found : i <= j => Rank(Dist(n)[i]) <= Rank(Dist(n)[j])
  <1> DEFINE found == Found(n, samples)
             D == Dist(n)
  <1>1. /\ D \in [1..n -> Difficulty]
        /\ \A d \in Difficulty : Wanted(n, d) \in Nat
        /\ \A i \in 1..n : Place(D, i) \in 1..Wanted(n, D[i])
        /\ \A i, j \in 1..n : D[i] = D[j] /\ Place(D, i) = Place(D, j) => i = j
        /\ \A i, j \in 1..n : i <= j => Rank(D[i]) <= Rank(D[j])
    BY DistributionOrder DEF Dist
  <1>2. found \in SUBSET (1..n) /\ \A i \in found : Place(D, i) <= Len(samples[D[i]])
    BY DEF Found
  <1> HIDE DEF D, found
  <1>3. found \in SUBSET Nat /\ IsFiniteSet(found) /\ Cardinality(found) \in Nat
    <2>1. IsFiniteSet(1..n)
      BY FirstCard
    <2>2. 1..n \subseteq Nat
      OBVIOUS
    <2> QED
      BY <1>2, <2>1, <2>2, FS_Subset, FS_CardinalityType
  <1>4. \A i \in found : D[i] \in Difficulty /\ Place(D, i) \in 1..Len(samples[D[i]])
    <2> TAKE i \in found
    <2>1. D[i] \in Difficulty /\ Place(D, i) \in Nat /\ 1 <= Place(D, i)
      BY <1>1, <1>2
    <2>2. Len(samples[D[i]]) \in Nat
      BY <2>1 DEF IsSample
    <2> QED
      BY <1>2, <2>1, <2>2
  <1>5. \A i \in found : QuestionAt(n, samples, i).difficulty = D[i]
    BY <1>4 DEF QuestionAt, IsSample, D
  <1>6. ASSUME NEW i \in found, NEW j \in found,
               QuestionAt(n, samples, i) = QuestionAt(n, samples, j)
        PROVE  i = j
    <2>1. D[i] = D[j] /\ D[i] \in Difficulty
      BY <1>4, <1>5, <1>6
    <2>2. samples[D[i]][Place(D, i)] = samples[D[i]][Place(D, j)]
      BY <1>6, <2>1 DEF QuestionAt, D
    <2>3. Place(D, i) = Place(D, j)
      BY <1>4, <2>1, <2>2 DEF IsSample
    <2> QED
      BY <1>1, <1>2, <2>1, <2>3
  <1>7. \A i, j \in found : i <= j => Rank(D[i]) <= Rank(D[j])
    BY <1>1, <1>2
  <1> QED
    BY <1>2, <1>3, <1>4, <1>5, <1>6, <1>7 DEF D, found

LEMMA ReorderedFacts ==
  ASSUME NEW n \in Nat, NEW samples, \A d \in Difficulty : IsSample(samples[d], d)
  PROVE  LET ord == Reordered(n, samples)
         IN  /\ IsInjective(ord)
             /\ \A i, j \in DOMAIN ord : i < j => Rank(ord[i].difficulty) <= Rank(ord[j].difficulty)
             /\ \A d \in Difficulty :
                  Cardinality({i \in DOMAIN ord : ord[i].difficulty = d}) <= Wanted(n, d)
             /\ \A i \in DOMAIN ord :
                  \E d \in Difficulty : \E k \in DOMAIN samples[d] : ord[i] = samples[d][k]
             /\ (\A d \in Difficulty : Len(samples[d]) = Wanted(n, d)) =>
                  [i \in DOMAIN ord |-> ord[i].difficulty] = Dist(n)
  <1> DEFINE ord == Reordered(n, samples)
             found == Found(n, samples)
             N == Cardinality(found)
             at(i) == QuestionAt(n, samples, i)
             D == Dist(n)
  <1>1. /\ found \in SUBSET (1..n) /\ found \in SUBSET Nat /\ IsFiniteSet(found) /\ N \in Nat
        /\ \A i \in found : /\ D[i] \in Difficulty
                            /\ Place(D, i) \in 1..Len(samples[D[i]])
                            /\ at(i).difficulty = D[i]
        /\ \A i, j \in found : at(i) = at(j) => i = j
        /\ \A i, j \in found : i <= j => Rank(D[i]) <= Rank(D[j])
    BY FoundFacts
  <1>2. /\ \A k \in 1..N : Nth(found, k) \in found
        /\ \A j, k \in 1..N : j < k => Nth(found, j) < Nth(found, k)
    <2> HIDE DEF found
    <2> QED
      BY <1>1, NthFacts
  <1>3. DOMAIN ord = 1..N /\ \A k \in 1..N : ord[k] = at(Nth(found, k))
    BY DEF Reordered
  <1>4. /\ D \in [1..n -> Difficulty]
        /\ \A d \in Difficulty :
             /\ IsFiniteSet({i \in 1..n : D[i] = d})
             /\ Cardinality({i \in 1..n : D[i] = d}) = Wanted(n, d)
             /\ Wanted(n, d) \in Nat
        /\ \A i \in 1..n : Place(D, i) \in 1..Wanted(n, D[i])
    BY DistributionOrder DEF Dist
  <1>5. \A i \in found : at(i) = samples[D[i]][Place(D, i)]
    BY DEF QuestionAt
  <1>6. found = {i \in 1..n : Place(D, i) <= Len(samples[D[i]])}
    BY DEF Found
  <1> HIDE DEF ord, found, N, at, D
  <1>7. \A k \in 1..N : ord[k].difficulty = D[Nth(found, k)]
    BY <1>1, <1>2, <1>3
  <1>8. \A j, k \in 1..N : j # k => Nth(found, j) # Nth(found, k)
    <2>1. \A j, k \in 1..N : j # k => j < k \/ k < j
      BY <1>1
    <2>2. \A k \in 1..N : Nth(found, k) \in Nat
      BY <1>1, <1>2
    <2> QED
      BY <1>2, <2>1, <2>2
  <1>9. IsInjective(ord)
    <2>1. \A j, k \in 1..N : ord[j] = ord[k] => j = k
      BY <1>1, <1>2, <1>3, <1>8
    <2> QED
      BY <1>3, <2>1 DEF IsInjective
  <1>10. \A i, j \in DOMAIN ord : i < j => Rank(ord[i].difficulty) <= Rank(ord[j].difficulty)
    <2> SUFFICES ASSUME NEW i \in 1..N, NEW j \in 1..N, i < j
                 PROVE  Rank(ord[i].difficulty) <= Rank(ord[j].difficulty)
      BY <1>3
    <2>0. /\ Nth(found, i) \in found /\ Nth(found, j) \in found
          /\ Nth(found, i) \in Nat /\ Nth(found, j) \in Nat /\ Nth(found, i) < Nth(found, j)
      BY <1>1, <1>2
    <2>1. Nth(found, i) \in found /\ Nth(found, j) \in found /\ Nth(found, i) <= Nth(found, j)
      BY <2>0
    <2> QED
      BY <1>1, <1>7, <2>1
  <1>11. ASSUME NEW d \in Difficulty
         PROVE  Cardinality({i \in DOMAIN ord : ord[i].difficulty = d}) <= Wanted(n, d)
    <2> DEFINE A == {i \in 1..N : ord[i].difficulty = d}
               B == {i \in 1..n : D[i] = d}
               f == [i \in A |-> Nth(found, i)]
    <2>1. f \in [A -> B]
      <3>1. \A i \in A : Nth(found, i) \in B
        BY <1>1, <1>2, <1>7
      <3> HIDE DEF A, B
      <3> QED
        BY <3>1
    <2>2. \A i, j \in A : f[i] = f[j] => i = j
      BY <1>8
    <2> HIDE DEF f, A, B
    <2>3. f \in Injection(A, B)
      BY <2>1, <2>2 DEF Injection, IsInjective
    <2>4. IsFiniteSet(B) /\ Cardinality(B) = Wanted(n, d)
      BY <1>4 DEF B
    <2>5. Cardinality(A) <= Wanted(n, d)
      BY <2>3, <2>4, FS_Injection
    <2> QED
      BY <1>3, <2>5 DEF A
  <1>12. \A i \in DOMAIN ord :
           \E d \in Difficulty : \E k \in DOMAIN samples[d] : ord[i] = samples[d][k]
    <2> SUFFICES ASSUME NEW i \in 1..N
                 PROVE  \E d \in Difficulty : \E k \in DOMAIN samples[d] : ord[i] = samples[d][k]
      BY <1>3
    <2> DEFINE j == Nth(found, i)
    <2>1. j \in found /\ ord[i] = samples[D[j]][Place(D, j)] /\ D[j] \in Difficulty
      BY <1>1, <1>2, <1>3, <1>5
    <2>2. Place(D, j) \in DOMAIN samples[D[j]]
      <3>1. DOMAIN samples[D[j]] = 1..Len(samples[D[j]])
        BY <2>1 DEF IsSample
      <3>2. Place(D, j) \in 1..Len(samples[D[j]])
        BY <1>1, <2>1
      <3> HIDE DEF j
      <3> QED
        BY <3>1, <3>2
    <2> QED
      BY <2>1, <2>2
  <1>13. ASSUME \A d \in Difficulty : Len(samples[d]) = Wanted(n, d)
         PROVE  [i \in DOMAIN ord |-> ord[i].difficulty] = D
    <2>1. found = 1..n
      BY <1>4, <1>6, <1>13
    <2>2. N = n
      BY <2>1, FirstCard DEF N
    <2>3. \A k \in 1..n : Nth(found, k) = k
      <3> TAKE k \in 1..n
      <3>1. \A i \in 1..n : {j \in 1..n : j <= i} = 1..i
        OBVIOUS
      <3>2. \A i \in 1..n : Cardinality(1..i) = i
        BY FirstCard
      <3>3. \A i \in 1..n : Cardinality({j \in 1..n : j <= i}) = i
        BY <3>1, <3>2
      <3>4. Nth(1..n, k) = k
        BY <3>3 DEF Nth
      <3> QED
        BY <2>1, <3>4
    <2>4. DOMAIN ord = 1..n /\ \A k \in 1..n : ord[k].difficulty = D[k]
      BY <1>3, <1>7, <2>2, <2>3
    <2> QED
      BY <1>4, <2>4
  <1> QED
    BY <1>9, <1>10, <1>11, <1>12, <1>13 DEF ord, D

-----------------------------------------------------------------------------
(* The collection. *)

(* The questions that the k-th run of the seeder inserts. *)
SeededAs(k)  == [difficulty : Difficulty, seeding : {k}, number : 1..PerDifficulty]
SeededOf(k, d) == [difficulty : {d}, seeding : {k}, number : 1..PerDifficulty]

LEMMA SeededCard ==
  ASSUME NEW k, NEW d
  PROVE  IsFiniteSet(SeededOf(k, d)) /\ Cardinality(SeededOf(k, d)) = PerDifficulty
  <1> DEFINE q(i) == [difficulty |-> d, seeding |-> k, number |-> i]
             f == [i \in 1..PerDifficulty |-> q(i)]
  <1>1. \A i \in 1..PerDifficulty : q(i) \in SeededOf(k, d) /\ q(i).number = i
    BY DEF SeededOf
  <1>2. \A x \in SeededOf(k, d) : x.number \in 1..PerDifficulty /\ x = q(x.number)
    BY DEF SeededOf
  <1> HIDE DEF q
  <1>3. f \in [1..PerDifficulty -> SeededOf(k, d)]
    BY <1>1
  <1>4. \A i, j \in 1..PerDifficulty : f[i] = f[j] => i = j
    BY <1>1
  <1>5. \A x \in SeededOf(k, d) : \E i \in 1..PerDifficulty : f[i] = x
    BY <1>2
  <1> HIDE DEF f
  <1>6. f \in Bijection(1..PerDifficulty, SeededOf(k, d))
    BY <1>3, <1>4, <1>5 DEF Bijection, Injection, Surjection, IsInjective
  <1>7. IsFiniteSet(1..PerDifficulty) /\ Cardinality(1..PerDifficulty) = PerDifficulty
    BY FirstCard, QuestionsAssumption DEF QuestionsAssumption
  <1> QED
    BY <1>6, <1>7, FS_Bijection DEF ExistsBijection

(* A complete collection has all the questions of one run. *)
LEMMA CompleteCollection ==
  ASSUME NEW k, NEW col \in SUBSET SeededAs(k)
  PROVE  /\ IsFiniteSet(col)
         /\ Cardinality(col) = 3 * PerDifficulty =>
              \A d \in Difficulty : Cardinality({q \in col : q.difficulty = d}) = PerDifficulty
  <1> DEFINE E == SeededOf(k, "easy")
             M == SeededOf(k, "medium")
             H == SeededOf(k, "hard")
             P == PerDifficulty
  <1>1. SeededAs(k) = (E \cup M) \cup H /\ E \cap M = {} /\ (E \cup M) \cap H = {}
    <2>1. /\ \A x \in SeededAs(k) : x \in E \/ x \in M \/ x \in H
          /\ \A x : x \in E \/ x \in M \/ x \in H => x \in SeededAs(k)
      BY DEF SeededAs, SeededOf, Difficulty
    <2>2. /\ \A x \in E : x.difficulty = "easy"
          /\ \A x \in M : x.difficulty = "medium"
          /\ \A x \in H : x.difficulty = "hard"
      BY DEF SeededOf
    <2> HIDE DEF E, M, H
    <2> QED
      BY ONLY <2>1, <2>2
  <1>2. /\ IsFiniteSet(E) /\ IsFiniteSet(M) /\ IsFiniteSet(H) /\ P \in Nat
        /\ Cardinality(E) = P /\ Cardinality(M) = P /\ Cardinality(H) = P
    BY SeededCard, QuestionsAssumption DEF QuestionsAssumption
  <1> HIDE DEF E, M, H
  <1>3. IsFiniteSet(E \cup M) /\ Cardinality(E \cup M) = P + P
    BY <1>1, <1>2, FS_Union, FS_EmptySet
  <1>4. IsFiniteSet(SeededAs(k)) /\ Cardinality(SeededAs(k)) = 3 * P
    <2> DEFINE EM == E \cup M
    <2>1. IsFiniteSet(EM) /\ Cardinality(EM) = P + P /\ EM \cap H = {}
      BY <1>1, <1>3
    <2> HIDE DEF EM
    <2>2. IsFiniteSet(EM \cup H) /\ Cardinality(EM \cup H) = (P + P) + P - 0
      BY <1>2, <2>1, FS_Union, FS_EmptySet
    <2>3. (P + P) + P - 0 = 3 * P
      BY <1>2
    <2> QED
      BY <1>1, <2>2, <2>3 DEF EM
  <1>5. IsFiniteSet(col) /\ (Cardinality(col) = 3 * P => col = SeededAs(k))
    BY <1>4, FS_Subset
  <1>6. ASSUME NEW d \in Difficulty PROVE {q \in SeededAs(k) : q.difficulty = d} = SeededOf(k, d)
    BY DEF SeededAs, SeededOf
  <1>7. ASSUME NEW d \in Difficulty, col = SeededAs(k)
        PROVE  Cardinality({q \in col : q.difficulty = d}) = P
    BY <1>6, <1>7, SeededCard
  <1> QED
    BY <1>5, <1>7

(* The elements of a finite set in some order. *)
LEMMA SetToSeqFacts ==
  ASSUME NEW S, IsFiniteSet(S)
  PROVE  /\ SetToSeq(S) \in Seq(S) /\ Len(SetToSeq(S)) = Cardinality(S)
         /\ DOMAIN SetToSeq(S) = 1..Cardinality(S) /\ Cardinality(S) \in Nat
         /\ \A i, j \in 1..Cardinality(S) : SetToSeq(S)[i] = SetToSeq(S)[j] => i = j
  <1> DEFINE N == Cardinality(S)
             t == SetToSeq(S)
  <1>1. N \in Nat /\ ExistsBijection(1..N, S)
    BY FS_CardinalityType
  <1>2. \E f \in [1..N -> S] : IsInjective(f)
    BY <1>1 DEF ExistsBijection, Bijection, Injection
  <1>3. t \in [1..N -> S] /\ IsInjective(t)
    BY <1>2 DEF SetToSeq
  <1> HIDE DEF t, N
  <1>4. t \in Seq(S) /\ Len(t) = N /\ DOMAIN t = 1..N
    BY <1>1, <1>3
  <1>5. \A i, j \in 1..N : t[i] = t[j] => i = j
    BY <1>3 DEF IsInjective
  <1> QED
    BY <1>1, <1>4, <1>5 DEF t, N

-----------------------------------------------------------------------------
(* The invariant of the selection. *)

(* All questions of the collection come from the last run of the seeder. *)
SeederInv ==
  /\ collection \in SUBSET SeededAs(seedings)
  /\ inserting \in Seq(Difficulty)

(* The samples are of their difficulties, the result is what the samples    *)
(* make, and as long as nothing is asked for there is neither.              *)
SamplesInv ==
  /\ rounds \in Nat
  /\ toSample \in SUBSET Difficulty
  /\ DOMAIN sampled = Difficulty
  /\ \A d \in Difficulty : IsSample(sampled[d], d)
  /\ rounds = 0 => toSample = {} /\ ~selected /\ \A d \in Difficulty : sampled[d] = <<>>
  /\ selected => toSample = {} /\ ordered = Reordered(rounds, sampled)
  /\ ~selected => ordered = <<>>

(* Without a seeder in between the samples have all the questions that were *)
(* wanted, and the collection still holds them.                             *)
UndisturbedInv ==
  rounds # 0 /\ ~disturbed =>
    /\ Complete
    /\ inserting = <<>>
    /\ \A d \in Difficulty \ toSample :
         /\ Wanted(rounds, d) <= PerDifficulty => Len(sampled[d]) = Wanted(rounds, d)
         /\ \A i \in DOMAIN sampled[d] : sampled[d][i] \in collection

SelectionInv == SeederInv /\ SamplesInv /\ UndisturbedInv

LEMMA EmptySample == ASSUME NEW d PROVE IsSample(<<>>, d) /\ Len(<<>>) = 0 /\ DOMAIN <<>> = {}
  BY DEF IsSample

LEMMA SelectionInvInit ==
  ASSUME QuestionsInit
  PROVE  SelectionInv
  <1> USE DEF QuestionsInit
  <1>1. SeederInv
    BY DEF SeederInv
  <1>2. \A d \in Difficulty : sampled[d] = <<>>
    OBVIOUS
  <1>3. SamplesInv
    BY <1>2, EmptySample DEF SamplesInv
  <1>4. UndisturbedInv
    BY DEF UndisturbedInv
  <1> QED
    BY <1>1, <1>3, <1>4 DEF SelectionInv

LEMMA SeederStep ==
  ASSUME SelectionInv, SeedQuestions \/ InsertQuestions \/ SeederDies
  PROVE  SelectionInv'
  <1> USE DEF selectionVars
  <1>1. SamplesInv'
    BY DEF SelectionInv, SamplesInv, SeedQuestions, InsertQuestions, SeederDies
  <1>2. UndisturbedInv'
    BY DEF UndisturbedInv, SeedQuestions, InsertQuestions, SeederDies
  <1>3. SeederInv'
    <2>1. CASE SeedQuestions
      <3>1. <<"easy", "medium", "hard">> \in Seq(Difficulty)
        BY DEF Difficulty
      <3> QED
        BY <2>1, <3>1 DEF SeedQuestions, SeederInv
    <2>2. CASE InsertQuestions
      <3>1. inserting # <<>> /\ inserting \in Seq(Difficulty)
        BY <2>2 DEF InsertQuestions, SelectionInv, SeederInv
      <3>2. Head(inserting) \in Difficulty /\ Tail(inserting) \in Seq(Difficulty)
        BY <3>1
      <3>3. [difficulty : {Head(inserting)}, seeding : {seedings}, number : 1..PerDifficulty]
              \in SUBSET SeededAs(seedings)
        BY <3>2 DEF SeededAs
      <3> QED
        BY <2>2, <3>2, <3>3 DEF InsertQuestions, SelectionInv, SeederInv
    <2>3. CASE SeederDies
      BY <2>3 DEF SeederDies, SelectionInv, SeederInv
    <2> QED
      BY <2>1, <2>2, <2>3
  <1> QED
    BY <1>1, <1>2, <1>3 DEF SelectionInv

LEMMA SelectStep ==
  ASSUME SelectionInv, NEW n \in RoundCounts, SelectForMatch(n)
  PROVE  SelectionInv'
  <1>1. /\ n \in Nat /\ rounds = 0 /\ rounds' = n /\ toSample' = {d \in Difficulty : Wanted(n, d) > 0}
        /\ disturbed' = (inserting # <<>> \/ ~Complete)
        /\ UNCHANGED <<collection, seedings, inserting, sampled, ordered, selected>>
    BY QuestionsAssumption DEF QuestionsAssumption, SelectForMatch, seederVars
  <1>2. \A d \in Difficulty : Wanted(n, d) \in Nat
    BY <1>1, DistributionOrder
  <1>3. ~selected /\ ordered = <<>> /\ \A d \in Difficulty : sampled[d] = <<>>
    BY <1>1 DEF SelectionInv, SamplesInv
  <1>4. SeederInv'
    BY <1>1 DEF SelectionInv, SeederInv
  <1>5. n = 0 => toSample' = {}
    <2> SUFFICES ASSUME n = 0, NEW d \in Difficulty PROVE ~(Wanted(n, d) > 0)
      BY <1>1
    <2>1. Cardinality({i \in 1..n : DifficultyDistribution(n)[i] = d}) = Wanted(n, d)
      BY <1>1, DistributionOrder
    <2>2. {i \in 1..n : DifficultyDistribution(n)[i] = d} = {}
      OBVIOUS
    <2> QED
      BY <2>1, <2>2, FS_EmptySet
  <1>6. SamplesInv'
    BY <1>1, <1>3, <1>5 DEF SelectionInv, SamplesInv
  <1>7. UndisturbedInv'
    <2> SUFFICES ASSUME ~disturbed', NEW d \in Difficulty \ toSample'
                 PROVE  /\ Complete' /\ inserting' = <<>>
                        /\ Wanted(n, d) <= PerDifficulty => Len(sampled'[d]) = Wanted(n, d)
                        /\ \A i \in DOMAIN sampled'[d] : sampled'[d][i] \in collection'
      <3>1. CASE disturbed'
        BY <3>1 DEF UndisturbedInv
      <3>2. CASE ~disturbed'
        <4>1. inserting = <<>> /\ Complete
          BY <1>1, <3>2
        <4>2. Complete' /\ inserting' = <<>>
          BY <1>1, <4>1 DEF Complete
        <4> QED
          BY <1>1, <3>2, <4>2 DEF UndisturbedInv
      <3> QED
        BY <3>1, <3>2
    <2>1. inserting = <<>> /\ Complete
      BY <1>1
    <2>2. Complete' /\ inserting' = <<>>
      BY <1>1, <2>1 DEF Complete
    <2>3. Wanted(n, d) = 0
      BY <1>1, <1>2
    <2>4. sampled'[d] = <<>>
      BY <1>1, <1>3
    <2> QED
      BY <2>2, <2>3, <2>4, EmptySample
  <1> QED
    BY <1>4, <1>6, <1>7 DEF SelectionInv

LEMMA SampleStep ==
  ASSUME SelectionInv, NEW d \in Difficulty, SelectByDifficulty(d)
  PROVE  SelectionInv'
  <1> DEFINE have == {q \in collection : q.difficulty = d}
             k == Min({Wanted(rounds, d), Cardinality(have)})
  <1>1. /\ rounds \in Nat /\ toSample \in SUBSET Difficulty /\ d \in toSample /\ rounds # 0 /\ ~selected
        /\ DOMAIN sampled = Difficulty /\ ordered = <<>>
        /\ \A c \in Difficulty : IsSample(sampled[c], c)
        /\ collection \in SUBSET SeededAs(seedings)
    BY DEF SelectByDifficulty, SelectionInv, SamplesInv, SeederInv
  <1>2. PICK s \in kSubset(k, have) : sampled' = [sampled EXCEPT ![d] = SetToSeq(s)]
    BY DEF SelectByDifficulty
  <1>3. /\ toSample' = toSample \ {d}
        /\ UNCHANGED <<collection, seedings, inserting, rounds, ordered, selected, disturbed>>
    BY DEF SelectByDifficulty, seederVars
  <1>4. IsFiniteSet(collection)
        /\ (Complete => Cardinality(have) = PerDifficulty)
    BY <1>1, CompleteCollection DEF Complete
  <1>5. have \in SUBSET collection
    OBVIOUS
  <1>6. s \in SUBSET have /\ Cardinality(s) = k
    BY <1>2 DEF kSubset
  <1>7. IsFiniteSet(s) /\ s \in SUBSET collection /\ \A q \in s : q.difficulty = d
    BY <1>4, <1>5, <1>6, FS_Subset
  <1>8. Wanted(rounds, d) \in Nat /\ PerDifficulty \in Nat
    BY <1>1, DistributionOrder, QuestionsAssumption DEF QuestionsAssumption
  <1> DEFINE t == SetToSeq(s)
  <1>9. /\ t \in Seq(s) /\ Len(t) = Cardinality(s) /\ DOMAIN t = 1..Len(t) /\ Len(t) \in Nat
        /\ \A i, j \in 1..Len(t) : t[i] = t[j] => i = j
    BY ONLY <1>7, SetToSeqFacts
  <1>10. \A i \in 1..Len(t) : t[i] \in s
    BY <1>9
  <1>11. Complete /\ Wanted(rounds, d) <= PerDifficulty => Len(t) = Wanted(rounds, d)
    <2>1. \A a, b \in Nat : a <= b => Min({a, b}) = a
      BY DEF Min
    <2> HIDE DEF have
    <2> QED
      BY <1>4, <1>6, <1>8, <1>9, <2>1
  <1> HIDE DEF have, t
  <1>12. /\ sampled'[d] = t
         /\ \A c \in Difficulty : c # d => sampled'[c] = sampled[c]
         /\ DOMAIN sampled' = Difficulty
    BY <1>1, <1>2 DEF t
  <1>13. IsSample(t, d)
    BY <1>7, <1>9, <1>10 DEF IsSample
  <1>14. SeederInv'
    BY <1>3 DEF SelectionInv, SeederInv
  <1>15. SamplesInv'
    <2>1. \A c \in Difficulty : IsSample(sampled'[c], c)
      BY <1>1, <1>12, <1>13
    <2> QED
      BY <1>1, <1>3, <1>12, <2>1 DEF SamplesInv
  <1>16. UndisturbedInv'
    <2> SUFFICES ASSUME ~disturbed
                 PROVE  /\ Complete /\ inserting = <<>>
                        /\ \A c \in Difficulty \ (toSample \ {d}) :
                             /\ Wanted(rounds, c) <= PerDifficulty => Len(sampled'[c]) = Wanted(rounds, c)
                             /\ \A i \in DOMAIN sampled'[c] : sampled'[c][i] \in collection
      BY <1>3 DEF UndisturbedInv, Complete
    <2>1. /\ Complete /\ inserting = <<>>
          /\ \A c \in Difficulty \ toSample :
               /\ Wanted(rounds, c) <= PerDifficulty => Len(sampled[c]) = Wanted(rounds, c)
               /\ \A i \in DOMAIN sampled[c] : sampled[c][i] \in collection
      BY <1>1 DEF SelectionInv, UndisturbedInv
    <2>2. ASSUME NEW c \in Difficulty \ (toSample \ {d}), c # d
          PROVE  /\ Wanted(rounds, c) <= PerDifficulty => Len(sampled'[c]) = Wanted(rounds, c)
                 /\ \A i \in DOMAIN sampled'[c] : sampled'[c][i] \in collection
      <3>1. c \in Difficulty \ toSample /\ sampled'[c] = sampled[c]
        BY <1>12, <2>2
      <3> QED
        BY <2>1, <3>1
    <2>3. /\ Wanted(rounds, d) <= PerDifficulty => Len(sampled'[d]) = Wanted(rounds, d)
          /\ \A i \in DOMAIN sampled'[d] : sampled'[d][i] \in collection
      BY <1>7, <1>9, <1>10, <1>11, <1>12, <2>1
    <2> QED
      BY <2>1, <2>2, <2>3
  <1> QED
    BY <1>14, <1>15, <1>16 DEF SelectionInv

LEMMA FailStep ==
  ASSUME SelectionInv, SelectionFails
  PROVE  SelectionInv'
  <1>1. /\ toSample # {} /\ rounds' = 0 /\ toSample' = {}
        /\ sampled' = [d \in Difficulty |-> <<>>]
        /\ UNCHANGED <<collection, seedings, inserting, ordered, selected>>
    BY DEF SelectionFails, seederVars
  <1>2. ~selected /\ ordered = <<>>
    BY <1>1 DEF SelectionInv, SamplesInv
  <1>3. DOMAIN sampled' = Difficulty /\ \A d \in Difficulty : sampled'[d] = <<>>
    BY <1>1
  <1>4. \A d \in Difficulty : IsSample(sampled'[d], d)
    BY <1>3, EmptySample
  <1>5. SeederInv'
    BY <1>1 DEF SelectionInv, SeederInv
  <1>6. SamplesInv'
    BY <1>1, <1>2, <1>3, <1>4 DEF SamplesInv
  <1>7. UndisturbedInv'
    BY <1>1 DEF UndisturbedInv
  <1> QED
    BY <1>5, <1>6, <1>7 DEF SelectionInv

LEMMA ReorderStep ==
  ASSUME SelectionInv, Reorder
  PROVE  SelectionInv'
  <1>1. /\ rounds # 0 /\ toSample = {} /\ selected' = TRUE
        /\ UNCHANGED <<collection, seedings, inserting, rounds, toSample, sampled, disturbed>>
    BY DEF Reorder, seederVars
  <1>2. ordered' = Reordered(rounds, sampled)
    BY DEF Reorder, Reordered, Found, QuestionAt, Dist
  <1>3. SeederInv'
    BY <1>1 DEF SelectionInv, SeederInv
  <1>4. Reordered(rounds, sampled)' = Reordered(rounds, sampled)
    BY <1>1
  <1>5. SamplesInv'
    BY <1>1, <1>2, <1>4 DEF SelectionInv, SamplesInv
  <1>6. UndisturbedInv'
    BY <1>1 DEF SelectionInv, UndisturbedInv, Complete
  <1> QED
    BY <1>3, <1>5, <1>6 DEF SelectionInv

LEMMA OtherStep ==
  ASSUME SelectionInv, UNCHANGED <<seederVars, selectionVars, disturbed>>
  PROVE  SelectionInv'
  <1> USE DEF seederVars, selectionVars
  <1>1. SeederInv'
    BY DEF SelectionInv, SeederInv
  <1>2. Reordered(rounds, sampled)' = Reordered(rounds, sampled)
    OBVIOUS
  <1>3. SamplesInv'
    BY <1>2 DEF SelectionInv, SamplesInv
  <1>4. UndisturbedInv'
    BY DEF SelectionInv, UndisturbedInv, Complete
  <1> QED
    BY <1>1, <1>3, <1>4 DEF SelectionInv

LEMMA SelectionInvNext ==
  ASSUME SelectionInv, [QuestionsNext]_questionVars
  PROVE  SelectionInv'
  <1>1. CASE SeedQuestions \/ InsertQuestions \/ SeederDies
    BY <1>1, SeederStep
  <1>2. CASE \E n \in RoundCounts : SelectForMatch(n)
    BY <1>2, SelectStep
  <1>3. CASE \E d \in Difficulty : SelectByDifficulty(d)
    BY <1>3, SampleStep
  <1>4. CASE SelectionFails
    BY <1>4, FailStep
  <1>5. CASE Reorder
    BY <1>5, ReorderStep
  <1>6. CASE ScoreAnswer \/ UNCHANGED questionVars
    BY <1>6, OtherStep DEF ScoreAnswer, questionVars
  <1> QED
    BY <1>1, <1>2, <1>3, <1>4, <1>5, <1>6 DEF QuestionsNext

LEMMA SelectionInvariance == QuestionsSpec => []SelectionInv
  <1>1. QuestionsInit => SelectionInv
    BY SelectionInvInit
  <1>2. SelectionInv /\ [QuestionsNext]_questionVars => SelectionInv'
    BY SelectionInvNext
  <1> QED
    BY <1>1, <1>2, PTL DEF QuestionsSpec

-----------------------------------------------------------------------------
(* What the invariant says of the result. *)

LEMMA OrderFollows ==
  ASSUME SelectionInv
  PROVE  SelectionInOrder
  <1>1. rounds \in Nat /\ \A d \in Difficulty : IsSample(sampled[d], d)
    BY DEF SelectionInv, SamplesInv
  <1>2. CASE selected
    <2>1. ordered = Reordered(rounds, sampled)
      BY <1>2 DEF SelectionInv, SamplesInv
    <2> QED
      BY <1>1, <2>1, ReorderedFacts DEF SelectionInOrder
  <1>3. CASE ~selected
    <2>1. ordered = <<>>
      BY <1>3 DEF SelectionInv, SamplesInv
    <2>2. DOMAIN ordered = {}
      BY <2>1
    <2>3. IsInjective(ordered)
      BY <2>2 DEF IsInjective
    <2>4. ASSUME NEW d \in Difficulty
          PROVE  Cardinality({i \in DOMAIN ordered : ordered[i].difficulty = d}) <= Wanted(rounds, d)
      <3>1. {i \in DOMAIN ordered : ordered[i].difficulty = d} = {}
        BY <2>2
      <3>2. Wanted(rounds, d) \in Nat
        BY <1>1, DistributionOrder
      <3> QED
        BY <3>1, <3>2, FS_EmptySet
    <2> QED
      BY <2>2, <2>3, <2>4 DEF SelectionInOrder
  <1> QED
    BY <1>2, <1>3

LEMMA CompletenessFollows ==
  ASSUME SelectionInv
  PROVE  SelectionComplete
  <1> SUFFICES ASSUME selected, ~disturbed, \A d \in Difficulty : Wanted(rounds, d) <= PerDifficulty
               PROVE  /\ [i \in DOMAIN ordered |-> ordered[i].difficulty] = DifficultyDistribution(rounds)
                      /\ ToSet(ordered) \subseteq collection
    BY DEF SelectionComplete
  <1>1. /\ rounds \in Nat /\ rounds # 0 /\ toSample = {}
        /\ ordered = Reordered(rounds, sampled)
        /\ \A d \in Difficulty : IsSample(sampled[d], d)
    BY DEF SelectionInv, SamplesInv
  <1>2. \A d \in Difficulty : /\ Len(sampled[d]) = Wanted(rounds, d)
                              /\ \A i \in DOMAIN sampled[d] : sampled[d][i] \in collection
    BY <1>1 DEF SelectionInv, UndisturbedInv
  <1>3. /\ [i \in DOMAIN ordered |-> ordered[i].difficulty] = Dist(rounds)
        /\ \A i \in DOMAIN ordered :
             \E d \in Difficulty : \E k \in DOMAIN sampled[d] : ordered[i] = sampled[d][k]
    <2>1. \A d \in Difficulty : Len(sampled[d]) = Wanted(rounds, d)
      BY <1>2
    <2> QED
      BY ONLY <1>1, <2>1, ReorderedFacts
  <1>4. \A i \in DOMAIN ordered : ordered[i] \in collection
    BY <1>2, <1>3
  <1> QED
    BY <1>3, <1>4 DEF Dist, ToSet

(* However the seeder drops and refills the collection meanwhile, whatever  *)
(* $sample returns and MongoDB fails to answer: a selection has no question *)
(* twice, never gets easier from one round to the next, and has of no       *)
(* difficulty more questions than its share (selector.go:48-83).            *)
THEOREM SelectionKeepsOrder == QuestionsSpec => []SelectionInOrder
  <1>1. SelectionInv => SelectionInOrder
    BY OrderFollows
  <1> QED
    BY <1>1, SelectionInvariance, PTL

(* A selection from the complete collection, with no seeder running before  *)
(* it has returned, has for every round a question of the difficulty that   *)
(* round should have, and only questions of the collection, if every        *)
(* difficulty was seeded with as many as are wanted                         *)
(* (selector.go:51-83, seed.go:75-130).                                     *)
THEOREM SelectionIsComplete == QuestionsSpec => []SelectionComplete
  <1>1. SelectionInv => SelectionComplete
    BY CompletenessFollows
  <1> QED
    BY <1>1, SelectionInvariance, PTL

(* For every number of rounds the distribution has as many difficulties as  *)
(* rounds.  There are never more easy questions than 40 percent, and less   *)
(* than one question fewer, but for the table of 10 rounds, which has 3 of  *)
(* 4; the medium ones are less than one question away from 40 percent; what *)
(* both leave goes to the hard ones, at least 20 percent and less than two  *)
(* questions more (selector.go:11-36).                                      *)
THEOREM DistributionIsBalanced ==
  \A n \in Nat :
    /\ Len(DifficultyDistribution(n)) = n
    /\ 5 * Wanted(n, "easy") - 2 * n \in -5..0
    /\ 5 * Wanted(n, "easy") - 2 * n = -5 => n = 10
    /\ 5 * Wanted(n, "medium") - 2 * n \in -4..1
    /\ 5 * Wanted(n, "hard") - n \in 0..8
  BY DistributionOrder DEF NearShares
=============================================================================
