--------------------------- MODULE BrokerContract ---------------------------
(* The broker as its clients see it: Broker implements AtLeastOnce. *)
EXTENDS Broker

Contract == INSTANCE AtLeastOnce WITH live <- {id \in Ids : Held(id)},
                                      trouble <- closing \/ faults > 0

(***************************************************************************)
(* The broker implements AtLeastOnce: every step of every goroutine is, to *)
(* its clients, one step of that contract or none.  A message is let go    *)
(* only when it is settled or its enqueue fails, settled only when acked   *)
(* or a dead letter, delivered only when published, and a restart takes up *)
(* all that is owed.                                                       *)
(***************************************************************************)
ImplementsAtLeastOnce == Contract!Spec
=============================================================================
