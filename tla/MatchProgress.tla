--------------------------- MODULE MatchProgress ---------------------------
(***************************************************************************)
(* What the players of a room are promised: the rounds are opened one after *)
(* the other, the match is over only once the last one has been opened, and *)
(* its result is recorded.  Nothing is said of queues, timers or handlers.  *)
(***************************************************************************)
EXTENDS Naturals

CONSTANT TotalRounds

VARIABLES
  reached,  \* the last round that has been opened, 0 for none
  over,     \* have the players been told that the match is over?
  recorded  \* has the result been recorded?

progressVars == <<reached, over, recorded>>

ProgressInit ==
  /\ reached = 0
  /\ over = FALSE
  /\ recorded = FALSE

Advance ==
  /\ reached < TotalRounds
  /\ reached' = reached + 1
  /\ UNCHANGED <<over, recorded>>

Finish ==
  /\ reached = TotalRounds
  /\ over' = TRUE
  /\ UNCHANGED <<reached, recorded>>

Record ==
  /\ reached = TotalRounds
  /\ recorded' = TRUE
  /\ UNCHANGED <<reached, over>>

ProgressNext == Advance \/ Finish \/ Record

(* What holds whatever fails, ... *)
ProgressSafety == ProgressInit /\ [][ProgressNext]_progressVars

(* ... and what holds when nothing does: the match goes on to its end. *)
KeepsGoing ==
  /\ WF_progressVars(Advance)
  /\ WF_progressVars(Finish)
  /\ WF_progressVars(Record)

ProgressSpec == ProgressSafety /\ KeepsGoing
=============================================================================
