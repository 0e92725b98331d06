---------------------------- MODULE MCQuestions ----------------------------
(***************************************************************************)
(* Answers before the question, at once, in time and too late.              *)
(***************************************************************************)
EXTENDS Questions

MCTimes == {-15000, 0, 12000, 20000}
=============================================================================
