----------------------------- MODULE WorkQueue -----------------------------
(***************************************************************************)
(* What the services rely on: a queue keeps every message it was bound for, *)
(* in the order of publishing; the first message stays until a handler has  *)
(* run and it is acknowledged, or until it is dead-lettered.  The models of *)
(* the engine and of scoring take their queues to be like this.             *)
(***************************************************************************)
EXTENDS Naturals, Sequences, SequencesExt

CONSTANT Msg

VARIABLES
  bound,    \* is the queue bound to the exchange?
  pending,  \* the messages that are neither acknowledged nor dead-lettered
  handled,  \* those a handler has run for
  lost,     \* those published before the queue was bound
  dead      \* those in the dead-letter queue

wqVars == <<bound, pending, handled, lost, dead>>

WorkQueueInit ==
  /\ bound = FALSE
  /\ pending = <<>>
  /\ handled = {}
  /\ lost = {}
  /\ dead = {}

-----------------------------------------------------------------------------
Bind == bound' = TRUE /\ UNCHANGED <<pending, handled, lost, dead>>

Published(m) ==
  /\ m \notin ToSet(pending) \cup handled \cup lost \cup dead
  /\ IF bound THEN pending' = Append(pending, m) /\ UNCHANGED lost
              ELSE lost' = lost \cup {m} /\ UNCHANGED pending
  /\ UNCHANGED <<bound, handled, dead>>

(* A handler runs for the first message; it may run for it again. *)
Handled ==
  /\ pending # <<>>
  /\ handled' = handled \cup {Head(pending)}
  /\ UNCHANGED <<bound, pending, lost, dead>>

Acknowledged ==
  /\ pending # <<>>
  /\ Head(pending) \in handled
  /\ pending' = Tail(pending)
  /\ UNCHANGED <<bound, handled, lost, dead>>

DeadLettered ==
  /\ pending # <<>>
  /\ pending' = Tail(pending)
  /\ dead' = dead \cup {Head(pending)}
  /\ UNCHANGED <<bound, handled, lost>>

WorkQueueNext ==
  \/ Bind \/ Handled \/ Acknowledged \/ DeadLettered
  \/ \E m \in Msg : Published(m)

WorkQueueSpec == WorkQueueInit /\ [][WorkQueueNext]_wqVars
=============================================================================
