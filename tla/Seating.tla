------------------------------ MODULE Seating ------------------------------
(***************************************************************************)
(* What a player is promised who asks for a match: a ticket waits until it  *)
(* is seated in one room, together with tickets of other players, or is     *)
(* forgotten.  Nothing is said of ratings, ticks or instances.              *)
(***************************************************************************)
EXTENDS Naturals, FiniteSets

CONSTANTS
  Ticket,      \* the tickets: pairs of a player and a number
  MinPlayers,  \* the fewest players of a room
  MaxPlayers   \* the most

VARIABLES
  issued,   \* the tickets <<player, number>> that were given out
  waiting,  \* those that wait for a room
  seated    \* the tickets of every room

seatingVars == <<issued, waiting, seated>>

SeatingInit ==
  /\ issued = {}
  /\ waiting = {}
  /\ seated = {}

(* A new ticket waits or is forgotten at once; earlier ones of the same     *)
(* player may cease to wait.                                                *)
Issue(t) ==
  /\ t \notin issued
  /\ issued' = issued \cup {t}
  /\ \E S \in SUBSET {s \in waiting \cup {t} : s[1] = t[1]} : waiting' = (waiting \cup {t}) \ S
  /\ UNCHANGED seated

(* Tickets that cease to wait without a room. *)
Forget(S) ==
  /\ S \subseteq waiting
  /\ waiting' = waiting \ S
  /\ UNCHANGED <<issued, seated>>

Seat(R) ==
  /\ R \subseteq waiting
  /\ Cardinality(R) \in MinPlayers..MaxPlayers
  /\ \A s, t \in R : s # t => s[1] # t[1]
  /\ waiting' = waiting \ R
  /\ seated' = seated \cup {R}
  /\ UNCHANGED issued

SeatingNext ==
  \/ \E S \in SUBSET waiting : Forget(S) \/ Seat(S)
  \/ \E t \in Ticket : Issue(t)

SeatingSpec == SeatingInit /\ [][SeatingNext]_seatingVars
=============================================================================
