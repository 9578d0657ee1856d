----------------------------- MODULE WalRecords -----------------------------
(***************************************************************************)
(* The contents of a write-ahead-log file, and what reading it back gives. *)
(*                                                                         *)
(* A file is a sequence of records.  Of a message record the model keeps   *)
(* the message id and its retry count (payload, headers and timestamps are *)
(* carried along unchanged by the code and no property tells them apart).  *)
(* A tombstone holds an id.  Torn stands for bytes that decode rejects: a  *)
(* record of which only a part reached the file.                           *)
(***************************************************************************)
EXTENDS Naturals, Sequences, FiniteSets

RecordMessage(id, retry) == [type |-> "msg", id |-> id, retry |-> retry]

RecordTombstone(id) == [type |-> "tomb", id |-> id]

Torn == [type |-> "torn"]

\* The positions decode accepts: everything before the first torn record.
Readable(w) == {i \in DOMAIN w : \A j \in 1..i : w[j].type # "torn"}

\* The ids a tombstone names, wherever in the readable part it stands.
Tombstones(w) == {w[i].id : i \in {j \in Readable(w) : w[j].type = "tomb"}}

\* Variant: only a tombstone that stands before a message hides it.
LiveInOnePass(w) ==
  {i \in Readable(w) : w[i].type = "msg" /\ \A j \in 1..i : w[j] # RecordTombstone(w[i].id)}

\* The positions of the message records that survive a replay.
Live(w) == {i \in Readable(w) : w[i].type = "msg" /\ w[i].id \notin Tombstones(w)}

\* How many elements of a set of numbers are at most i, and the k-th smallest.
Rank(S, i) == Cardinality({j \in S : j <= i})
Nth(S, k) == CHOOSE i \in S : Rank(S, i) = k

\* The subsequence of s at the positions in S, in order.
Select(s, S) == [k \in 1..Cardinality(S) |-> s[Nth(S, k)]]

\* Reader.Replay: the surviving message records in file order.
Replay(w) == Select(w, Live(w))
=============================================================================
