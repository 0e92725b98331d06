----------------------------- MODULE MCService -----------------------------
(***************************************************************************)
(* One user with two connections, two messages of which the first may be    *)
(* unreadable.                                                              *)
(***************************************************************************)
EXTENDS Service

MCOwner == [c \in Conn |-> 1]
=============================================================================
