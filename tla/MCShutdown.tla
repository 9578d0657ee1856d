----------------------------- MODULE MCShutdown -----------------------------
(* Small instances of Shutdown for TLC. *)
EXTENDS Shutdown

PrefetchDefault == [c \in Consumers |-> 0]
=============================================================================
