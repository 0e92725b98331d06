---------------------------- MODULE MCLiveMatch ----------------------------
(***************************************************************************)
(* The app of player 1, who may be alone; it has connection 1.             *)
(***************************************************************************)
EXTENDS LiveMatch

MCOwner == [c \in Conn |-> Me]
MCRound == Rounds
=============================================================================
