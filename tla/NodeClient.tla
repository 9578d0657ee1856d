----------------------------- MODULE NodeClient -----------------------------
(***************************************************************************)
(* The node client: an HTTP front end that starts and stops consumers and  *)
(* publishes.  One thread runs handlers, stream events and timers to their *)
(* end or to an await, one at a time, in an order it does not choose.      *)
(*                                                                         *)
(* A consumer id is a number: n is `consumer-n`, the n-th generated id, or *)
(* any other name a request may give; 0 is the empty string.               *)
(***************************************************************************)
EXTENDS Naturals, Sequences, Functions

CONSTANTS
  Names,        \* ids that requests give
  Requests,     \* requests to /publish
  MaxStreams,   \* bound on streams ever opened
  MaxMessages,  \* bound on messages received on a stream
  MaxCount,     \* bound on count, 1000 in the code
  MaxAnswers    \* bound on answers of the broker after which nobody asks to publish

ASSUME ClientConstants ==
  /\ Names \subseteq Nat
  /\ MaxStreams \in Nat /\ MaxMessages \in Nat /\ MaxCount \in Nat /\ MaxAnswers \in Nat

VARIABLES
  consumers,       \* id -> the stream of its ConsumerEntry
  consumerSeq,     \* ids generated
  streams,         \* the streams opened, oldest first: id, state ("open", "cancelled"
                   \*   by stopConsumer, "ended") and ConsumerStats
  left,            \* request -> messages it still has to publish
  publisherStats,  \* published and errors
  proc             \* "up", "closing" after a signal, "exited"

vars == <<consumers, consumerSeq, streams, left, publisherStats, proc>>

Empty == 0

Init ==
  /\ consumers = [id \in {} |-> 0]
  /\ consumerSeq = 0
  /\ streams = <<>>
  /\ left = [r \in Requests |-> 0]
  /\ publisherStats = [published |-> 0, errors |-> 0]
  /\ proc = "up"
-----------------------------------------------------------------------------
(* POST /consumer/start.                                                   *)

StartConsumer(id) ==
  /\ proc = "up" /\ Len(streams) < MaxStreams
  /\ streams' = Append(streams, [id |-> id, state |-> "open", received |-> 0, acked |-> 0])
  /\ consumers' = [i \in DOMAIN consumers \cup {id} |->
                     IF i = id THEN Len(streams) + 1 ELSE consumers[i]]
  /\ UNCHANGED <<left, publisherStats, proc>>

\* The request names the consumer: 409 if it is running, unless the name is empty.
StartNamed(id) ==
  /\ id # Empty => id \notin DOMAIN consumers
  /\ StartConsumer(id)
  /\ UNCHANGED consumerSeq

\* The request names none: nobody looks whether the generated id is in use.
StartGenerated ==
  /\ consumerSeq' = consumerSeq + 1
  /\ StartConsumer(consumerSeq + 1)
-----------------------------------------------------------------------------
(* The events of a stream.                                                 *)

\* A message; messages received before a cancel may still be handed over.
Data(s) ==
  /\ streams[s].state # "ended" /\ streams[s].received < MaxMessages
  /\ streams' = [streams EXCEPT ![s].received = @ + 1]
  /\ UNCHANGED <<consumers, consumerSeq, left, publisherStats, proc>>

\* The timer of a received message writes the ack, whatever became of the stream.
AckTimer(s) ==
  /\ streams[s].acked < streams[s].received
  /\ streams' = [streams EXCEPT ![s].acked = @ + 1]
  /\ UNCHANGED <<consumers, consumerSeq, left, publisherStats, proc>>

\* Variant: the handler only logs.
EndLogged(s) ==
  /\ streams[s].state # "ended"
  /\ streams' = [streams EXCEPT ![s].state = "ended"]
  /\ UNCHANGED <<consumers, consumerSeq, left, publisherStats, proc>>

\* The broker closed the stream, it failed, or it was cancelled.  The handler
\* deletes the entry of its id, whichever stream that entry is for.
End(s) ==
  /\ streams[s].state # "ended"
  /\ streams' = [streams EXCEPT ![s].state = "ended"]
  /\ consumers' = Restrict(consumers, DOMAIN consumers \ {streams[s].id})
  /\ UNCHANGED <<consumerSeq, left, publisherStats, proc>>
-----------------------------------------------------------------------------
(* POST /consumer/stop.                                                    *)

\* Variant: the entries go, the streams stay.
StopForgets(S) ==
  /\ streams' = streams
  /\ consumers' = Restrict(consumers, DOMAIN consumers \ S)

StopConsumers(S) ==
  /\ streams' = [s \in DOMAIN streams |->
                   IF \E id \in S : consumers[id] = s
                     THEN [streams[s] EXCEPT !.state = "cancelled"] ELSE streams[s]]
  /\ consumers' = Restrict(consumers, DOMAIN consumers \ S)

StopOne(id) ==
  /\ id # Empty
  /\ StopConsumers({id})
  /\ UNCHANGED <<consumerSeq, left, publisherStats, proc>>

\* No id, or the empty one; 409 when there is no consumer.
StopAll ==
  /\ DOMAIN consumers # {}
  /\ StopConsumers(DOMAIN consumers)
  /\ UNCHANGED <<consumerSeq, left, publisherStats, proc>>
-----------------------------------------------------------------------------
(* POST /publish: one message after the other, an await at each.           *)

PublishRequest(r, count) ==
  /\ proc = "up" /\ left[r] = 0
  /\ publisherStats.published + publisherStats.errors < MaxAnswers
  /\ left' = [left EXCEPT ![r] = count]
  /\ UNCHANGED <<consumers, consumerSeq, streams, publisherStats, proc>>

\* Once the gRPC client is closed the next call fails at once.
Published(r) ==
  /\ left[r] > 0
  /\ LET refused == proc = "closing" /\ left[r] > 1
     IN /\ left' = [left EXCEPT ![r] = IF refused THEN 0 ELSE @ - 1]
        /\ publisherStats' = [published |-> publisherStats.published + 1,
                              errors |-> publisherStats.errors + (IF refused THEN 1 ELSE 0)]
  /\ UNCHANGED <<consumers, consumerSeq, streams, proc>>

PublishFails(r) ==
  /\ left[r] > 0
  /\ left' = [left EXCEPT ![r] = 0]
  /\ publisherStats' = [publisherStats EXCEPT !.errors = @ + 1]
  /\ UNCHANGED <<consumers, consumerSeq, streams, proc>>
-----------------------------------------------------------------------------
\* A signal; another one finds nothing left to do.  From here on the HTTP server
\* takes no request, on connections that are still open either (assumed of it).
Shutdown ==
  /\ proc = "up"
  /\ proc' = "closing"
  /\ StopConsumers(DOMAIN consumers)
  /\ UNCHANGED <<consumerSeq, left, publisherStats>>

\* Variant: the exit also waits for the end of every stream.
ExitAfterStreams ==
  /\ proc = "closing" /\ \A r \in Requests : left[r] = 0
  /\ \A s \in DOMAIN streams : streams[s].state = "ended"
  /\ proc' = "exited"
  /\ UNCHANGED <<consumers, consumerSeq, streams, left, publisherStats>>

\* server.close calls back once every request is answered.
Exit ==
  /\ proc = "closing" /\ \A r \in Requests : left[r] = 0
  /\ proc' = "exited"
  /\ UNCHANGED <<consumers, consumerSeq, streams, left, publisherStats>>

Next ==
  /\ proc # "exited"
  /\ \/ \E id \in Names : StartNamed(id)
     \/ \E id \in DOMAIN consumers : StopOne(id)
     \/ StartGenerated
     \/ StopAll
     \/ \E s \in DOMAIN streams : Data(s) \/ AckTimer(s) \/ End(s)
     \/ \E r \in Requests : \/ \E count \in 1..MaxCount : PublishRequest(r, count)
                            \/ Published(r) \/ PublishFails(r)
     \/ Shutdown
     \/ Exit

\* The event loop runs, every Publish call gets an answer, and the HTTP server
\* closes its idle connections.
Fairness ==
  /\ \A r \in Requests : WF_vars(Published(r) \/ PublishFails(r))
  /\ WF_vars(Exit)

FairSpec == Init /\ [][Next]_vars /\ Fairness
-----------------------------------------------------------------------------
(***************************************************************************)
(* What /status lists runs: an entry's stream carries the entry's id, has  *)
(* not ended and has not been cancelled, in whatever order starts, stops   *)
(* and late end events of earlier streams come.                            *)
(***************************************************************************)
ListedIsRunning ==
  \A id \in DOMAIN consumers :
    streams[consumers[id]].id = id /\ streams[consumers[id]].state = "open"

Listed(s) == \E id \in DOMAIN consumers : consumers[id] = s

(***************************************************************************)
(* docs/stress-dashboard-plan.md: /status is a "live snapshot of publisher *)
(* stats + all consumers".  A running stream drops out of the map, and so  *)
(* out of reach of /consumer/stop, only if its id is used a second time.   *)
(***************************************************************************)
UnlistedOnlyByReuse ==
  \A s \in DOMAIN streams : streams[s].state = "open" =>
    Listed(s) \/ \E r \in DOMAIN streams \ {s} : streams[r].id = streams[s].id

(***************************************************************************)
(* After SIGINT or SIGTERM the process exits: no request to /publish keeps *)
(* the HTTP server open, also when the broker fails the calls, and no      *)
(* stream does, also one that dropped out of the map and is not cancelled. *)
(***************************************************************************)
ShutdownExits == (proc = "closing") ~> (proc = "exited")
=============================================================================
