------------------------------ MODULE MCTopic -------------------------------
(* A small instance of Topic for TLC. *)
EXTENDS Topic

CONSTANT m1
BacklogOne == <<m1>>
=============================================================================
