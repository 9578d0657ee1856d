------------------------------- MODULE Topic --------------------------------
(***************************************************************************)
(* One queue at the level of its mutex and condition variable: Topic, the  *)
(* way Manager sets it up and calls it, and how Server starts dispatchers. *)
(*                                                                         *)
(* Enqueue and Close change the topic under the lock and wake the waiters  *)
(* after releasing it, so a dispatcher may come in between.  A woken       *)
(* goroutine has to get the lock again before it looks at the topic.       *)
(***************************************************************************)
EXTENDS WalRecords

CONSTANTS
  Msgs,         \* messages, one Enqueue call each
  Subscribers,  \* Subscribe calls on this queue
  Backlog       \* what NewManager replays, when the queue has a log

ASSUME TopicConstants == Backlog \in Seq(Msgs)

VARIABLES
  exists,     \* Manager.topics has the queue
  msgs,       \* Topic.msgs
  closed,     \* Topic.closed
  enq,        \* message -> where its Enqueue call is
  started,    \* Server.started has the queue
  disp,       \* subscriber -> the dispatcher goroutine its Subscribe started, if any
  closer,     \* where Topic.Close is
  cancelled,  \* the broker's context is done
  failed      \* history: a dispatcher's initQueue returned an error

vars == <<exists, msgs, closed, enq, started, disp, closer, cancelled, failed>>

\* "init": in initQueue; "lock": about to lock Topic.mu; "wait": in the wait list.
InDequeue == {"init", "lock", "wait"}
Running(d) == disp[d] \in InDequeue \cup {"busy"}

Init ==
  /\ exists \in BOOLEAN
  /\ msgs = IF exists THEN Backlog ELSE <<>>
  /\ closed = FALSE /\ closer = "no"
  /\ enq = [m \in Msgs |-> "new"]
  /\ started = FALSE
  /\ disp = [d \in Subscribers |-> "none"]
  /\ cancelled = FALSE /\ failed = FALSE
-----------------------------------------------------------------------------
(* Manager.Enqueue and Topic.Enqueue.                                      *)

\* initQueue, then the WAL write, which may fail.
Enqueue(m) ==
  /\ enq[m] = "new"
  /\ exists' = TRUE
  /\ \E s \in {"put", "err"} : enq' = [enq EXCEPT ![m] = s]
  /\ UNCHANGED <<msgs, closed, started, disp, closer, cancelled, failed>>

EnqueueInitFails(m) ==
  /\ enq[m] = "new" /\ ~exists
  /\ enq' = [enq EXCEPT ![m] = "err"]
  /\ UNCHANGED <<exists, msgs, closed, started, disp, closer, cancelled, failed>>

\* Variant: the waiter is not signalled.
PutSilently(m) ==
  /\ enq[m] = "put"
  /\ msgs' = Append(msgs, m)
  /\ enq' = [enq EXCEPT ![m] = "done"]
  /\ UNCHANGED <<exists, closed, started, disp, closer, cancelled, failed>>

\* Variant: the message goes to the front.
PutFirst(m) ==
  /\ enq[m] = "put"
  /\ msgs' = <<m>> \o msgs
  /\ enq' = [enq EXCEPT ![m] = "signal"]
  /\ UNCHANGED <<exists, closed, started, disp, closer, cancelled, failed>>

Put(m) ==
  /\ enq[m] = "put"
  /\ msgs' = Append(msgs, m)
  /\ enq' = [enq EXCEPT ![m] = "signal"]
  /\ UNCHANGED <<exists, closed, started, disp, closer, cancelled, failed>>

Waiters == {d \in Subscribers : disp[d] = "wait"}

\* cond.Signal wakes one of the waiters; without one it has no effect.
Signal(m) ==
  /\ enq[m] = "signal"
  /\ enq' = [enq EXCEPT ![m] = "done"]
  /\ IF Waiters = {} THEN disp' = disp
                     ELSE \E d \in Waiters : disp' = [disp EXCEPT ![d] = "lock"]
  /\ UNCHANGED <<exists, msgs, closed, started, closer, cancelled, failed>>

\* Topic.RemoveIf takes out the messages at positions S.
RemoveIf(S) ==
  /\ S # {}
  /\ msgs' = Select(msgs, DOMAIN msgs \ S)
  /\ UNCHANGED <<exists, closed, enq, started, disp, closer, cancelled, failed>>
-----------------------------------------------------------------------------
(* Server.ensureDispatcher and the dispatcher goroutine.                   *)

\* Variant: started is not consulted.
EnsureAnother(d) ==
  /\ disp[d] = "none"
  /\ started' = TRUE
  /\ disp' = [disp EXCEPT ![d] = "init"]
  /\ UNCHANGED <<exists, msgs, closed, enq, closer, cancelled, failed>>

\* Called by every Subscribe; only the first one starts a goroutine.
EnsureDispatcher(d) ==
  /\ disp[d] = "none" /\ ~started
  /\ started' = TRUE
  /\ disp' = [disp EXCEPT ![d] = "init"]
  /\ UNCHANGED <<exists, msgs, closed, enq, closer, cancelled, failed>>

\* Manager.Dequeue sets up the topic; a failure returns false and ends the goroutine.
InitQueue(d) ==
  /\ disp[d] = "init"
  /\ exists' = TRUE
  /\ disp' = [disp EXCEPT ![d] = "lock"]
  /\ UNCHANGED <<msgs, closed, enq, started, closer, cancelled, failed>>

InitQueueFails(d) ==
  /\ disp[d] = "init" /\ ~exists
  /\ disp' = [disp EXCEPT ![d] = "stopped"]
  /\ failed' = TRUE
  /\ UNCHANGED <<exists, msgs, closed, enq, started, closer, cancelled>>

\* Topic.Dequeue with the lock: take, wait or give up.
Take(d) ==
  /\ disp[d] = "lock" /\ msgs # <<>>
  /\ msgs' = Tail(msgs)
  /\ disp' = [disp EXCEPT ![d] = "busy"]
  /\ UNCHANGED <<exists, closed, enq, started, closer, cancelled, failed>>

Wait(d) ==
  /\ disp[d] = "lock" /\ msgs = <<>> /\ ~closed
  /\ disp' = [disp EXCEPT ![d] = "wait"]
  /\ UNCHANGED <<exists, msgs, closed, enq, started, closer, cancelled, failed>>

\* Variant: "if" instead of "for": an empty topic ends the dispatcher.
GiveUpWhenEmpty(d) ==
  /\ disp[d] = "lock" /\ msgs = <<>>
  /\ disp' = [disp EXCEPT ![d] = "stopped"]
  /\ UNCHANGED <<exists, msgs, closed, enq, started, closer, cancelled, failed>>

GiveUp(d) ==
  /\ disp[d] = "lock" /\ msgs = <<>> /\ closed
  /\ disp' = [disp EXCEPT ![d] = "stopped"]
  /\ UNCHANGED <<exists, msgs, closed, enq, started, closer, cancelled, failed>>

\* The message is in a consumer's channel, or the context is done.
Dispatched(d) ==
  /\ disp[d] = "busy"
  /\ \E s \in {"init"} \cup (IF cancelled THEN {"stopped"} ELSE {}) :
       disp' = [disp EXCEPT ![d] = s]
  /\ UNCHANGED <<exists, msgs, closed, enq, started, closer, cancelled, failed>>
-----------------------------------------------------------------------------
(* Manager.Close and the cancellation, in either order.                    *)

Cancel ==
  /\ ~cancelled
  /\ cancelled' = TRUE
  /\ UNCHANGED <<exists, msgs, closed, enq, started, disp, closer, failed>>

Close ==
  /\ exists /\ closer = "no"
  /\ closed' = TRUE
  /\ closer' = "broadcast"
  /\ UNCHANGED <<exists, msgs, enq, started, disp, cancelled, failed>>

Broadcast ==
  /\ closer = "broadcast"
  /\ closer' = "done"
  /\ disp' = [d \in Subscribers |-> IF disp[d] = "wait" THEN "lock" ELSE disp[d]]
  /\ UNCHANGED <<exists, msgs, closed, enq, started, cancelled, failed>>

Dequeue(d) == InitQueue(d) \/ InitQueueFails(d) \/ Take(d) \/ Wait(d) \/ GiveUp(d)

Next ==
  \/ \E m \in Msgs : Enqueue(m) \/ EnqueueInitFails(m) \/ Put(m) \/ Signal(m)
  \/ \E S \in SUBSET DOMAIN msgs : RemoveIf(S)
  \/ \E d \in Subscribers : EnsureDispatcher(d) \/ Dequeue(d) \/ Dispatched(d)
  \/ Cancel \/ Close \/ Broadcast

Spec == Init /\ [][Next]_vars

(***************************************************************************)
(* Goroutines that can run do run.  Nothing is assumed of consumers: the   *)
(* dispatcher may keep a message for ever.                                 *)
(***************************************************************************)
FairSpec ==
  /\ Spec
  /\ \A m \in Msgs : WF_vars(Signal(m))
  /\ \A d \in Subscribers : WF_vars(Dequeue(d))
  /\ WF_vars(Broadcast)
-----------------------------------------------------------------------------
TypeOK ==
  /\ exists \in BOOLEAN /\ closed \in BOOLEAN /\ started \in BOOLEAN
  /\ cancelled \in BOOLEAN /\ failed \in BOOLEAN
  /\ msgs \in Seq(Msgs)
  /\ enq \in [Msgs -> {"new", "put", "signal", "done", "err"}]
  /\ disp \in [Subscribers -> InDequeue \cup {"none", "busy", "stopped"}]
  /\ closer \in {"no", "broadcast", "done"}

(***************************************************************************)
(* No lost wakeup: while a dispatcher sleeps in Topic.Dequeue although     *)
(* there is a message, or the topic is closed, the Signal or the Broadcast *)
(* that wakes it is still to come.                                         *)
(***************************************************************************)
NoLostWakeup ==
  Waiters # {} /\ (msgs # <<>> \/ closed)
    => closer = "broadcast" \/ \E m \in Msgs : enq[m] = "signal"

(***************************************************************************)
(* ensureDispatcher: one dispatcher per queue at most, however many        *)
(* Subscribe calls race; the order of delivery and the prefetch check of   *)
(* Broker both rest on it.                                                 *)
(***************************************************************************)
OneDispatcher == \A d, e \in Subscribers : Running(d) /\ Running(e) => d = e

(***************************************************************************)
(* A queue somebody subscribed to has a running dispatcher until shutdown. *)
(* The exception: initQueue failed once.  ("Returns false only when the    *)
(* topic is closed and empty", Manager.Dequeue says of itself.)  started   *)
(* is never cleared, so such a queue is not served again by this process.  *)
(***************************************************************************)
ServedUnlessInitFailed ==
  started /\ ~failed /\ ~closed /\ ~cancelled => \E d \in Subscribers : Running(d)

Served ==
  IF \E d \in Subscribers : disp[d] = "busy" THEN "busy"
  ELSE IF \E d \in Subscribers : disp[d] \in InDequeue THEN "idle"
  ELSE IF started THEN "stopped" ELSE "off"

Queue == INSTANCE Fifo WITH queue <- msgs, server <- Served, open <- ~closed

(***************************************************************************)
(* The topic and its dispatcher goroutine implement Fifo: messages leave   *)
(* in the order they came, each once, and a free dispatcher does get the   *)
(* message, or the end of a closed topic.  This is what Broker's one-step  *)
(* Dequeue and the fairness it assumes of dispatchers stand for.           *)
(***************************************************************************)
ImplementsFifo == Queue!Spec
=============================================================================
