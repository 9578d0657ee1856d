-------------------------------- MODULE Fifo --------------------------------
(***************************************************************************)
(* What Broker takes a queue's topic and its dispatcher to be: a sequence, *)
(* and one server that takes its first message whenever it is free.  Topic *)
(* implements it, with mutex, condition variable and goroutines.           *)
(***************************************************************************)
EXTENDS Naturals, Sequences

CONSTANT Msgs

VARIABLES
  queue,   \* the messages, in the order they arrived
  server,  \* "off", "idle" (in Dequeue), "busy" (with a message) or "stopped"
  open     \* FALSE once a shutdown has closed the queue

vars == <<queue, server, open>>

Init == queue \in Seq(Msgs) /\ server = "off" /\ open = TRUE

Put(m) == queue' = Append(queue, m) /\ UNCHANGED <<server, open>>

\* Messages may be removed from the middle; the others keep their order.
Expire ==
  /\ \E f \in [DOMAIN queue' -> DOMAIN queue] :
       /\ \A i, j \in DOMAIN queue' : i < j => f[i] < f[j]
       /\ \A i \in DOMAIN queue' : queue'[i] = queue[f[i]]
  /\ UNCHANGED <<server, open>>

Start == server = "off" /\ server' = "idle" /\ UNCHANGED <<queue, open>>

Get ==
  /\ server = "idle" /\ queue # <<>>
  /\ server' = "busy" /\ queue' = Tail(queue)
  /\ UNCHANGED open

\* The message is with a consumer, or the broker's context is done.
Done == server = "busy" /\ server' \in {"idle", "stopped"} /\ UNCHANGED <<queue, open>>

\* The topic could not be set up: there is nothing in it.
Fail == server = "idle" /\ queue = <<>> /\ server' = "stopped" /\ UNCHANGED <<queue, open>>

Close == open' = FALSE /\ UNCHANGED <<queue, server>>

Stop ==
  /\ server = "idle" /\ queue = <<>> /\ ~open
  /\ server' = "stopped"
  /\ UNCHANGED <<queue, open>>

Next ==
  \/ \E m \in Msgs : Put(m)
  \/ Expire \/ Start \/ Get \/ Done \/ Fail \/ Close \/ Stop

Spec == Init /\ [][Next]_vars /\ WF_vars(Get) /\ WF_vars(Stop)
=============================================================================
