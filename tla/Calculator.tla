----------------------------- MODULE Calculator -----------------------------
(***************************************************************************)
(* CalculatePoints: what an answer is worth.  The code computes the speed   *)
(* bonus in floating point; it is modelled as the set of its outcomes.      *)
(* Nothing checks the response time, which comes from the client and may be *)
(* negative: the bonus has no upper bound but that of an int32.             *)
(***************************************************************************)
EXTENDS Integers

Difficulty == {"easy", "medium", "hard"}

basePointsByDifficulty ==
  [d \in Difficulty |-> CASE d = "easy"   -> 100
                          [] d = "medium" -> 200
                          [] d = "hard"   -> 300]

(* A question of an unknown difficulty counts as an easy one. *)
Base(difficulty) ==
  IF difficulty \in Difficulty THEN basePointsByDifficulty[difficulty] ELSE 100

(* Mutant: the bonus is not halved. *)
WholeBonus(base, time, limit) ==
  IF time >= limit THEN {0} ELSE {(base * (limit - time)) \div limit}

(* base * 0.5 * max(0, 1 - time / limit), rounded down.  Where the quotient *)
(* is a whole number the floating-point product may lie just below it: an   *)
(* answer after 12 of 15 seconds to a medium question gets 219 points.  A   *)
(* negative time makes the ratio larger than 1.                             *)
SpeedBonus(base, time, limit) ==
  LET exact == (base * (limit - time)) \div (2 * limit)
  IN  IF time >= limit THEN {0}
      ELSE {exact} \cup
           {b \in {exact - 1} : time # 0 /\ exact * (2 * limit) = base * (limit - time)}

MaxInt32 == 2147483647
Int32    == -MaxInt32 - 1 .. MaxInt32

(* The points are an int32.  What Go makes of a bonus beyond its range, or  *)
(* of a sum that wraps around, is any of them.                              *)
CalculatePoints(correct, difficulty, time, limit) ==
  LET sums == {Base(difficulty) + b : b \in SpeedBonus(Base(difficulty), time, limit)}
  IN  IF ~correct THEN {0}
      ELSE IF \A p \in sums : p <= MaxInt32 THEN sums ELSE Int32
=============================================================================
