---------------------------- MODULE MCQuizEngine ----------------------------
(***************************************************************************)
(* Instances of QuizEngine for TLC.  The slots for calls are                *)
(* interchangeable; the players are not, Redis orders equal scores by id.   *)
(***************************************************************************)
EXTENDS QuizEngine, TLC

CONSTANTS c1, c2

CallSymmetry == Permutations(Call)
=============================================================================
