----------------------------- MODULE AtLeastOnce -----------------------------
(***************************************************************************)
(* What the broker promises its clients, told in message ids alone: no     *)
(* queues, logs, consumers or goroutines.  Broker implements it.           *)
(***************************************************************************)
CONSTANT Ids

VARIABLES
  pub,      \* id -> "new", "busy", "ok" or "err", as its publisher sees it
  live,     \* the ids the running broker holds
  seen,     \* the ids some client was sent
  acked,    \* the ids some client acknowledged
  dead,     \* the ids that ran out of retries, or were published as dead letters
  settled,  \* the ids for which a tombstone was written, or tried
  lost,     \* the ids that a failed enqueue left to the next restart
  trouble   \* a write to the log has failed, or a shutdown has begun

vars == <<pub, live, seen, acked, dead, settled, lost, trouble>>

Init ==
  /\ pub = [id \in Ids |-> "new"]
  /\ live = {} /\ seen = {} /\ acked = {} /\ dead = {} /\ settled = {} /\ lost = {}
  /\ trouble = FALSE

\* What the broker still has to see through.
Owed == {id \in Ids : pub[id] = "ok" /\ id \notin settled}

Publish(id) ==
  /\ pub[id] = "new"
  /\ pub' = [pub EXCEPT ![id] = "busy"]
  /\ live' = live \cup {id}
  /\ dead' \in {dead, dead \cup {id}}
  /\ UNCHANGED <<seen, acked, settled, lost, trouble>>

Accept(id) ==
  /\ pub[id] = "busy" /\ id \in live
  /\ pub' = [pub EXCEPT ![id] = "ok"]
  /\ UNCHANGED <<live, seen, acked, dead, settled, lost, trouble>>

\* Sending a message again is allowed; sending one that nobody published is not.
Deliver(id) ==
  /\ pub[id] # "new"
  /\ seen' = seen \cup {id}
  /\ UNCHANGED <<pub, live, acked, dead, settled, lost, trouble>>

Ack(id) ==
  /\ id \in live
  /\ acked' = acked \cup {id}
  /\ UNCHANGED <<pub, live, seen, dead, settled, lost, trouble>>

GiveUp(id) ==
  /\ id \in live
  /\ dead' = dead \cup {id}
  /\ UNCHANGED <<pub, live, seen, acked, settled, lost, trouble>>

\* The broker lets go of one copy; only a restart can have made a second one.
Release(id) == id \in live /\ live' \in {live, live \ {id}}

Settle(id) ==
  /\ id \in acked \cup dead
  /\ Release(id)
  /\ settled' = settled \cup {id}
  /\ trouble' \in {trouble, TRUE}
  /\ UNCHANGED <<pub, seen, acked, dead, lost>>

\* An enqueue failed: the publisher is told, if it still waits for the answer.
Drop(id) ==
  /\ trouble'
  /\ Release(id)
  /\ lost' = lost \cup {id}
  /\ pub' = [pub EXCEPT ![id] = IF @ = "busy" THEN "err" ELSE @]
  /\ UNCHANGED <<seen, acked, dead, settled>>

Trouble ==
  /\ trouble' = TRUE
  /\ UNCHANGED <<pub, live, seen, acked, dead, settled, lost>>

\* Everything owed is held again, whatever was lost.
Restart ==
  /\ Owed \subseteq live' /\ live' \subseteq {id \in Ids : pub[id] # "new"}
  /\ pub' = [id \in Ids |-> IF pub[id] = "busy" THEN "err" ELSE pub[id]]
  /\ lost' = {}
  /\ trouble' \in BOOLEAN
  /\ UNCHANGED <<seen, acked, dead, settled>>

Next ==
  \/ \E id \in Ids : Publish(id) \/ Accept(id) \/ Deliver(id) \/ Ack(id) \/ GiveUp(id)
                       \/ Settle(id) \/ Drop(id)
  \/ Trouble \/ Restart

Spec == Init /\ [][Next]_vars
=============================================================================
