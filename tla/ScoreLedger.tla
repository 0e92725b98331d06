---------------------------- MODULE ScoreLedger ----------------------------
(***************************************************************************)
(* What the players are promised of their points: of every player at most   *)
(* one answer to each round is accepted, the points of an accepted answer   *)
(* are added to the total of its player once, a second time only after an   *)
(* addition that got no reply, and nothing else changes a total.            *)
(***************************************************************************)
EXTENDS Naturals

CONSTANTS Player, Answer

VARIABLES
  accepted,  \* the answers that were accepted
  awarded,   \* those of them whose points have been added
  unsure,    \* those for which an addition was sent and got no reply
  total      \* the score of every player

ledgerVars == <<accepted, awarded, unsure, total>>

LedgerInit ==
  /\ accepted = {}
  /\ awarded = {}
  /\ unsure = {}
  /\ total = [u \in Player |-> 0]

Accept(a) ==
  /\ \A b \in accepted : b.round # a.round \/ b.player # a.player
  /\ accepted' = accepted \cup {a}
  /\ UNCHANGED <<awarded, unsure, total>>

Add(a) == total' = [total EXCEPT ![a.player] = @ + a.pts]

(* Between the addition and the reply the answer may become unsure. *)
Award(a) ==
  /\ a \in accepted \ awarded
  /\ awarded' = awarded \cup {a}
  /\ unsure' \in {unsure, unsure \cup {a}}
  /\ Add(a)
  /\ UNCHANGED accepted

(* No reply, and the points were not added. *)
Doubt(a) ==
  /\ a \in accepted
  /\ unsure' = unsure \cup {a}
  /\ UNCHANGED <<accepted, awarded, total>>

(* The points are added once more, after an addition without a reply. *)
AddAgain(a) ==
  /\ a \in awarded \cap unsure
  /\ Add(a)
  /\ UNCHANGED <<accepted, awarded, unsure>>

LedgerNext ==
  \E a \in Answer : Accept(a) \/ Award(a) \/ Doubt(a) \/ AddAgain(a)

(* What holds whatever fails, ... *)
LedgerSafety == LedgerInit /\ [][LedgerNext]_ledgerVars

(* ... and what holds when nothing does: accepted answers are paid for. *)
LedgerSpec == LedgerSafety /\ \A a \in Answer : WF_ledgerVars(Award(a))
=============================================================================
