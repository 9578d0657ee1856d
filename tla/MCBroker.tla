------------------------------ MODULE MCBroker ------------------------------
(* Small instances of Broker for TLC. *)
EXTENDS BrokerContract, TLC

\* A request of 0 becomes a limit of 1.
PrefetchDefault == [c \in Consumers |-> 0]
PrefetchTwo == [c \in Consumers |-> 2]

Symmetry == Permutations(Ids) \cup Permutations(Consumers)
=============================================================================
