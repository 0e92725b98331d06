---------------------------- MODULE MCQuizMatch ----------------------------
(***************************************************************************)
(* Instances of QuizMatch for TLC: the slots for calls.                     *)
(***************************************************************************)
EXTENDS QuizMatch

CONSTANTS c1, c2
=============================================================================
