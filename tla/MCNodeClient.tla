---------------------------- MODULE MCNodeClient ----------------------------
(* A small instance of NodeClient for TLC. *)
EXTENDS NodeClient

\* The empty string, the first generated id, and a name that is never generated.
SomeNames == {0, 1, MaxStreams + 1}
=============================================================================
