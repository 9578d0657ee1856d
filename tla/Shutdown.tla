------------------------------ MODULE Shutdown ------------------------------
(***************************************************************************)
(* The end of the broker process (cmd/broker): the goroutine that waits    *)
(* for a signal, the gRPC server, main, which returns from Serve and runs  *)
(* its deferred calls, and the dispatchers, which stop when the context is *)
(* done or their topic is closed and empty.  All run at the same time as   *)
(* the goroutines of Broker, until main returns.  The next process starts  *)
(* from the logs: Broker's CrashRestart, which is not repeated here.  The  *)
(* DLQ TTL scanner is taken to be off (DLQ_TTL is not positive).           *)
(***************************************************************************)
EXTENDS Broker

VARIABLES
  sig,      \* the signal goroutine: "wait", "stopping" (GracefulStop runs),
            \*   "draining" (in WaitDrained, the server has stopped), "done"
  main,     \* "serve", "topics" (closed), "closed" (the logs too), "cancelled", "exited"
  ctxDone,  \* the context of dispatchers and scanners is cancelled
  shut      \* the queues whose log Manager.Close has closed

processVars == <<sig, main, ctxDone, shut>>
allVars == <<vars, processVars>>

ShutdownInit == Init /\ sig = "wait" /\ main = "serve" /\ ctxDone = FALSE /\ shut = {}

Stopped == sig \in {"draining", "done"}
WalClosed == main \in {"closed", "cancelled", "exited"}
-----------------------------------------------------------------------------
(* The signal goroutine.                                                   *)

\* BeginShutdown, and GracefulStop in a goroutine of its own: until that one runs
\* new calls still arrive, and Publish rejects them.
SignalReceived ==
  /\ sig = "wait"
  /\ BeginShutdown
  /\ sig' = "stopping"
  /\ UNCHANGED <<main, ctxDone, shut>>

\* Publish and Subscribe calls that have not returned yet.
Handlers ==
  {id \in Ids : pub[id] = "busy"} \cup {c \in Consumers : Registered(c) \/ Deregistered(c)}

GracefulStop ==
  /\ sig = "stopping" /\ Handlers = {}
  /\ sig' = "draining"
  /\ UNCHANGED <<vars, main, ctxDone, shut>>

\* Variant: without the timeout, the shutdown waits for every stream to end.
ForceStopNever ==
  /\ sig = "stopping" /\ Handlers = {}
  /\ sig' = "draining"
  /\ UNCHANGED <<vars, main, ctxDone, shut>>

\* SHUTDOWN_TIMEOUT has passed: Stop breaks the streams and waits for no handler.
ForceStop ==
  /\ sig = "stopping"
  /\ sig' = "draining"
  /\ UNCHANGED <<vars, main, ctxDone, shut>>

\* It returns with an empty map or after its timeout; then cancel().
WaitDrained ==
  /\ sig = "draining"
  /\ sig' = "done" /\ ctxDone' = TRUE
  /\ UNCHANGED <<vars, main, shut>>
-----------------------------------------------------------------------------
(* main: Serve returns once the server has stopped, not waiting for the    *)
(* signal goroutine; then the deferred manager.Close and cancel run.       *)

CloseTopics ==
  /\ main = "serve" /\ Stopped
  /\ main' = "topics"
  /\ UNCHANGED <<vars, sig, ctxDone, shut>>

\* The log of a queue that nobody used may not be open yet: an Enqueue that has
\* passed the check of closing opens it later, and nobody closes it.
Unopened ==
  {q \in Queues : wal[q] = <<>> /\ \E t \in Threads : \E k \in work[t] :
                     k.step = "wal" /\ k.msg.queue = q}

CloseWriters ==
  /\ main = "topics"
  /\ main' = "closed"
  /\ \E S \in SUBSET Unopened : shut' = Queues \ S
  /\ UNCHANGED <<vars, sig, ctxDone>>

DeferredCancel ==
  /\ main = "closed"
  /\ main' = "cancelled" /\ ctxDone' = TRUE
  /\ UNCHANGED <<vars, sig, shut>>

\* Every goroutine ends with main; only the files and what clients know remain.
Exit ==
  /\ main = "cancelled"
  /\ main' = "exited" /\ sig' = "done"
  /\ topic' = [q \in Queues |-> <<>>]
  /\ disp' = [q \in Queues |-> [pc |-> "off"]]
  /\ inFlight' = [id \in {} |-> 0]
  /\ status' = [c \in Consumers |-> "gone"]
  /\ send' = [c \in Consumers |-> <<>>]
  /\ work' = [t \in Threads |-> {}]
  /\ pub' = [id \in Ids |-> IF pub[id] = "busy" THEN "err" ELSE pub[id]]
  /\ UNCHANGED <<wal, closing, sub, count, settled, seen, acked, dead, lost, crashes,
                 faults, ctxDone, shut>>
-----------------------------------------------------------------------------
(* What the shutdown changes in the goroutines of Broker.                  *)

\* Variant: the error of the write is ignored.
EnqueueClosedIgnored(t, k) ==
  /\ Ready(t, k) /\ k.step = "wal" /\ k.msg.queue \in shut
  /\ work' = [work EXCEPT ![t] = (@ \ {k}) \cup {[step |-> "topic", msg |-> k.msg]}]
  /\ UNCHANGED <<wal, topic, closing, disp, inFlight, consumerVars, pub, settled, seen,
                 acked, dead, lost, crashes, faults>>

\* A write to a closed log fails and leaves no trace.
EnqueueClosed(t, k) ==
  /\ Ready(t, k) /\ k.step = "wal" /\ k.msg.queue \in shut
  /\ work' = [work EXCEPT ![t] = @ \ {k}]
  /\ lost' = lost \cup {k.msg.id}
  /\ Answer(t, k, "err")
  /\ UNCHANGED <<wal, topic, closing, disp, inFlight, consumerVars, settled, seen,
                 acked, dead, crashes, faults>>

TombstoneClosed(t, k) ==
  /\ Ready(t, k) /\ k.step = "tomb" /\ k.msg.queue \in shut
  /\ work' = [work EXCEPT ![t] = @ \ {k}]
  /\ settled' = settled \cup {k.msg.id}
  /\ UNCHANGED <<wal, topic, closing, disp, inFlight, consumerVars, pub, seen, acked,
                 dead, lost, crashes, faults>>

TaskStep(t, k) ==
  \/ (k.msg.queue \in shut => k.step \notin {"wal", "tomb"}) /\ Step(t, k)
  \/ EnqueueClosed(t, k) \/ TombstoneClosed(t, k)

Off(q) == [disp EXCEPT ![q] = [pc |-> "off"]]

\* Dequeue returned false, or the context is done while the message is held.
DispatcherStops(q) ==
  /\ \/ main # "serve" /\ disp[q].pc = "dequeue" /\ topic[q] = <<>>
     \/ ctxDone /\ disp[q].pc = "hold"
  /\ disp' = Off(q)
  /\ UNCHANGED <<wal, topic, closing, inFlight, consumerVars, work, pub, settled, seen,
                 acked, dead, lost, crashes, faults>>

\* The context is done while the channel is full: Unregister, whatever entry
\* the id has by now, then its DecrementInFlight.
Unregister(q) ==
  /\ ctxDone /\ disp[q].pc = "send"
  /\ LET id == disp[q].msg.id
     IN /\ inFlight' = [i \in DOMAIN inFlight \ {id} |-> inFlight[i]]
        /\ disp' = IF id \in DOMAIN inFlight
                   THEN [disp EXCEPT ![q] = [pc |-> "undo", con |-> inFlight[id].con]]
                   ELSE Off(q)
  /\ UNCHANGED <<wal, topic, closing, consumerVars, work, pub, settled, seen, acked,
                 dead, lost, crashes, faults>>

\* Variant: the slot is not given back.
UndoSkipped(q) ==
  /\ disp[q].pc = "undo"
  /\ disp' = Off(q)
  /\ UNCHANGED <<wal, topic, closing, inFlight, consumerVars, work, pub, settled, seen,
                 acked, dead, lost, crashes, faults>>

UndoInFlight(q) ==
  /\ disp[q].pc = "undo"
  /\ count' = IF Registered(disp[q].con) THEN [count EXCEPT ![disp[q].con] = @ - 1] ELSE count
  /\ disp' = Off(q)
  /\ UNCHANGED <<wal, topic, closing, inFlight, status, sub, send, work, pub, settled,
                 seen, acked, dead, lost, crashes, faults>>

BrokerStep ==
  \/ ~Stopped /\ \E id \in Ids, q \in Queues : Publish(id, q)
  \/ ~Stopped /\ \E c \in Consumers, q \in 0..(MaxDepth - 1) : Subscribe(c, q)
  \/ \E t \in Threads : \E k \in work[t] : TaskStep(t, k)
  \/ \E q \in Queues : Dispatch(q) \/ DispatcherStops(q) \/ Unregister(q) \/ UndoInFlight(q)
  \/ TimeoutScan
  \/ \E c \in Consumers :
       \/ ~Stopped /\ Forward(c)
       \/ ForwardFails(c) \/ SenderStops(c) \/ Deregister(c) \/ Drain(c) \/ Drained(c)
       \/ \E id \in Ids : Ack(c, id) \/ Nack(c, id)

ShutdownNext ==
  \/ main # "exited" /\ BrokerStep /\ UNCHANGED processVars
  \/ main # "exited" /\ (SignalReceived \/ GracefulStop \/ ForceStop \/ WaitDrained)
  \/ CloseTopics \/ CloseWriters \/ DeferredCancel \/ Exit

ShutdownSpec == ShutdownInit /\ [][ShutdownNext]_allVars

(***************************************************************************)
(* The timer of the graceful stop fires, goroutines that can run do run.   *)
(* Nothing is assumed of clients: a stream may stay open for ever.         *)
(***************************************************************************)
FairShutdown ==
  /\ ShutdownSpec
  /\ WF_allVars(ForceStop)
  /\ WF_allVars(CloseTopics \/ CloseWriters \/ DeferredCancel \/ Exit)
-----------------------------------------------------------------------------
(***************************************************************************)
(* main.go says of in-flight messages that did not drain that "they will   *)
(* be redelivered on restart": at every moment of a shutdown, a message    *)
(* whose Publish returned OK and that is not settled is in what the next   *)
(* process replays, although logs are closed under running goroutines.     *)
(***************************************************************************)
RedeliveredOnRestart ==
  \A id \in Ids : pub[id] = "ok" /\ id \notin settled =>
    \E q \in Queues : \E k \in DOMAIN Replay(wal[q]) : Replay(wal[q])[k].id = id

\* A dispatcher that is undoing its registration still has the slot.
UndoneBy(c) == Cardinality({q \in Queues : disp[q].pc = "undo" /\ disp[q].con = c})

(***************************************************************************)
(* Dispatcher.Run on a cancelled send: "Undo everything so the message     *)
(* isn't lost and in-flight is correct."  The counter of a registered      *)
(* consumer is the number of its slots in use, although the entry that a   *)
(* dispatcher unregisters may have been taken by an ack, a timeout or a    *)
(* disconnect, or be a later one of the same id.                           *)
(***************************************************************************)
SlotsThroughShutdown ==
  \A c \in Consumers : Registered(c) => count[c] = SlotsInUse(c) + UndoneBy(c)

(***************************************************************************)
(* A process that got a signal ends, also when clients never close their   *)
(* streams and never answer.                                               *)
(***************************************************************************)
SignalEndsProcess == (sig # "wait") ~> (main = "exited")

(***************************************************************************)
(* main.go: "Wait for in-flight messages to be ACKed/NACKed before closing *)
(* the WAL."  With messages in flight the logs are not closed before that  *)
(* wait is over (it gives up after a timeout).                             *)
(***************************************************************************)
DrainBeforeClose == WalClosed /\ DOMAIN inFlight # {} => sig = "done"
=============================================================================
