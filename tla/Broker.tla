------------------------------- MODULE Broker -------------------------------
(***************************************************************************)
(* The running broker: queue manager, consumer registry, dispatchers, ack  *)
(* manager, the Publish and Subscribe handlers and the two scanners.       *)
(*                                                                         *)
(* Goroutines interleave at the points where the code releases a lock:     *)
(* one dispatcher per queue, one goroutine per Publish call, a send, a     *)
(* recv and a drain loop per consumer, the timeout scanner, the DLQ TTL    *)
(* scanner.  What a goroutine still has to do for a message it has taken   *)
(* from the in-flight map (or is publishing) is a task in work.            *)
(*                                                                         *)
(* Timeouts are the environment's choice: any in-flight message may be     *)
(* found too old by a scan.  A write-ahead log is its record sequence; how *)
(* an append and a compaction reach the disk is module Wal.                *)
(***************************************************************************)
EXTENDS WalRecords, Integers

CONSTANTS
  Ids,              \* message ids, one per Publish call
  Consumers,        \* one per Subscribe call; an id is never used again
  PrefetchRequest,  \* the prefetch limit each consumer asks for
  MaxRetries,       \* MAX_RETRIES
  DlqTtl,           \* whether DLQ_TTL is positive
  CanShutdown,      \* whether a shutdown may begin
  CanCompact,       \* whether someone calls Manager.Compact (cmd/broker never does)
  MaxDepth,         \* bound: queue d is the base name with d times ".dlq";
                    \*   nobody subscribes to queue MaxDepth
  MaxCrashes,       \* bound on process ends followed by a restart
  MaxFaults         \* bound on failing WAL writes

ASSUME BrokerConstants ==
  /\ PrefetchRequest \in [Consumers -> Int]
  /\ MaxRetries \in Nat /\ MaxDepth \in Nat \ {0}
  /\ MaxCrashes \in Nat /\ MaxFaults \in Nat
  /\ DlqTtl \in BOOLEAN /\ CanShutdown \in BOOLEAN /\ CanCompact \in BOOLEAN

VARIABLES
  wal,        \* queue -> records of <queue>.wal
  topic,      \* queue -> Topic.msgs
  closing,    \* Manager.closing
  disp,       \* queue -> where its dispatcher goroutine is and what it holds
  inFlight,   \* AckManager.inFlight, a map from ids
  status,     \* consumer -> "new"; in the registry: "up", "halted" (the send goroutine
              \*   has ended); out of it: "closing" (the recv goroutine has ended),
              \*   "draining" (the send goroutine has), "ended" (both), "gone"
  sub,        \* consumer -> the queue it subscribed to
  count,      \* consumer -> Consumer.inFlight, the counter
  send,       \* consumer -> Consumer.Send, a bounded channel
  work,       \* goroutine -> its unfinished tasks
  pub,        \* id -> "new", "busy", "ok" or "err", as its publisher sees it
  settled,    \* history: ids for which a tombstone write was tried
  seen,       \* history: ids some client was sent
  acked,      \* history: ids whose in-flight entry an ack took
  dead,       \* history: ids enqueued on a dead-letter queue: out of retries, or published there
  lost,       \* history: ids whose enqueue failed since the last start
  crashes, faults

vars == <<wal, topic, closing, disp, inFlight, status, sub, count, send,
          work, pub, settled, seen, acked, dead, lost, crashes, faults>>
consumerVars == <<status, sub, count, send>>

Queues == 0..MaxDepth
\* Variant: every queue counts as a dead-letter queue.
IsAnyQueue(q) == q >= 0
IsDLQQueue(q) == q > 0
Message == [id : Ids, queue : Queues, retry : Nat]

\* Subscribe's default, and NewConsumer's channel capacity.
PrefetchLimit(c) == IF PrefetchRequest[c] <= 0 THEN 1 ELSE PrefetchRequest[c]

Publishers == {"publish"} \X Ids
Threads == Publishers \cup ({"recv", "drain"} \X Consumers)
             \cup {<<"scan", "timeout">>, <<"scan", "dlqttl">>}

\* "dec": DecrementInFlight, then WriteTombstone or Enqueue ("enq": the check of
\* closing, "wal", "topic").
Task == [step : {"dec"}, next : {"tomb", "enq"}, msg : Message, con : Consumers]
          \cup [step : {"tomb", "enq", "wal", "topic"}, msg : Message]

Dispatcher == [pc : {"off", "dequeue"}]
                \cup [pc : {"hold"}, msg : Message]
                \cup [pc : {"pick"}, msg : Message, elig : SUBSET Consumers]
                \cup [pc : {"register", "send"}, msg : Message, con : Consumers]
                \cup [pc : {"undo"}, con : Consumers]  \* at a shutdown only

Registered(c) == status[c] \in {"up", "halted"}
Deregistered(c) == status[c] \in {"closing", "draining", "ended"}

Init ==
  /\ wal = [q \in Queues |-> <<>>]
  /\ topic = [q \in Queues |-> <<>>]
  /\ closing = FALSE
  /\ disp = [q \in Queues |-> [pc |-> "off"]]
  /\ inFlight = [id \in {} |-> 0]
  /\ status = [c \in Consumers |-> "new"]
  /\ sub = [c \in Consumers |-> 0]
  /\ count = [c \in Consumers |-> 0]
  /\ send = [c \in Consumers |-> <<>>]
  /\ work = [t \in Threads |-> {}]
  /\ pub = [id \in Ids |-> "new"]
  /\ settled = {} /\ seen = {} /\ acked = {} /\ dead = {} /\ lost = {}
  /\ crashes = 0 /\ faults = 0
-----------------------------------------------------------------------------
(* Manager.Enqueue, called by Publish and by nackEntry.                    *)

\* A task past DecrementInFlight is finished before the loop takes the next.
Ready(t, k) ==
  /\ k \in work[t]
  /\ k.step = "dec" => \A j \in work[t] : j.step = "dec"

\* The request may name any queue, a dead-letter queue too.
Publish(id, q) ==
  /\ pub[id] = "new"
  /\ pub' = [pub EXCEPT ![id] = "busy"]
  /\ work' = [work EXCEPT ![<<"publish", id>>] =
                {[step |-> "enq", msg |-> [id |-> id, queue |-> q, retry |-> 0]]}]
  /\ dead' = IF q > 0 THEN dead \cup {id} ELSE dead
  /\ UNCHANGED <<wal, topic, closing, disp, inFlight, consumerVars, settled, seen,
                 acked, lost, crashes, faults>>

Logged(m) == [wal EXCEPT ![m.queue] = Append(@, RecordMessage(m.id, m.retry))]

\* The answer of a publisher's Enqueue; the other callers drop the error.
Answer(t, k, result) ==
  pub' = IF t \in Publishers THEN [pub EXCEPT ![k.msg.id] = result] ELSE pub

\* BeginShutdown may run between the check and the write.
EnqueueCheck(t, k) ==
  /\ Ready(t, k) /\ k.step = "enq" /\ ~closing
  /\ work' = [work EXCEPT ![t] = (@ \ {k}) \cup {[step |-> "wal", msg |-> k.msg]}]
  /\ UNCHANGED <<wal, topic, closing, disp, inFlight, consumerVars, pub, settled, seen,
                 acked, dead, lost, crashes, faults>>

\* Variant: the message goes to the topic without a WAL record.
EnqueueUnlogged(t, k) ==
  /\ Ready(t, k) /\ k.step = "wal"
  /\ work' = [work EXCEPT ![t] = (@ \ {k}) \cup {[step |-> "topic", msg |-> k.msg]}]
  /\ UNCHANGED <<wal, topic, closing, disp, inFlight, consumerVars, pub, settled, seen,
                 acked, dead, lost, crashes, faults>>

EnqueueWal(t, k) ==
  /\ Ready(t, k) /\ k.step = "wal"
  /\ wal' = Logged(k.msg)
  /\ work' = [work EXCEPT ![t] = (@ \ {k}) \cup {[step |-> "topic", msg |-> k.msg]}]
  /\ UNCHANGED <<topic, closing, disp, inFlight, consumerVars, pub, settled, seen,
                 acked, dead, lost, crashes, faults>>

EnqueueRejected(t, k) ==
  /\ Ready(t, k) /\ k.step = "enq" /\ closing
  /\ work' = [work EXCEPT ![t] = @ \ {k}]
  /\ lost' = lost \cup {k.msg.id}
  /\ Answer(t, k, "err")
  /\ UNCHANGED <<wal, topic, closing, disp, inFlight, consumerVars, settled, seen,
                 acked, dead, crashes, faults>>

\* WriteMessage failed: in Write (no record) or in Sync (the record is there).
EnqueueFails(t, k) ==
  /\ Ready(t, k) /\ k.step = "wal" /\ faults < MaxFaults
  /\ wal' \in {wal, Logged(k.msg)}
  /\ work' = [work EXCEPT ![t] = @ \ {k}]
  /\ lost' = lost \cup {k.msg.id}
  /\ faults' = faults + 1
  /\ Answer(t, k, "err")
  /\ UNCHANGED <<topic, closing, disp, inFlight, consumerVars, settled, seen, acked,
                 dead, crashes>>

\* Variants: the retry count, or the dead-letter queue, is lost on the way.
EnqueueTopicFresh(t, k) ==
  /\ Ready(t, k) /\ k.step = "topic"
  /\ topic' = [topic EXCEPT ![k.msg.queue] = Append(@, [k.msg EXCEPT !.retry = 0])]
  /\ work' = [work EXCEPT ![t] = @ \ {k}]
  /\ Answer(t, k, "ok")
  /\ UNCHANGED <<wal, closing, disp, inFlight, consumerVars, settled, seen, acked, dead,
                 lost, crashes, faults>>

EnqueueTopicMain(t, k) ==
  /\ Ready(t, k) /\ k.step = "topic"
  /\ topic' = [topic EXCEPT ![0] = Append(@, k.msg)]
  /\ work' = [work EXCEPT ![t] = @ \ {k}]
  /\ Answer(t, k, "ok")
  /\ UNCHANGED <<wal, closing, disp, inFlight, consumerVars, settled, seen, acked, dead,
                 lost, crashes, faults>>

EnqueueTopic(t, k) ==
  /\ Ready(t, k) /\ k.step = "topic"
  /\ topic' = [topic EXCEPT ![k.msg.queue] = Append(@, k.msg)]
  /\ work' = [work EXCEPT ![t] = @ \ {k}]
  /\ Answer(t, k, "ok")
  /\ UNCHANGED <<wal, closing, disp, inFlight, consumerVars, settled, seen, acked, dead,
                 lost, crashes, faults>>
-----------------------------------------------------------------------------
(* Dispatcher.Run: one goroutine per queue, started by the first Subscribe.*)

Dequeue(q) ==
  /\ disp[q].pc = "dequeue" /\ topic[q] # <<>>
  /\ disp' = [disp EXCEPT ![q] = [pc |-> "hold", msg |-> Head(topic[q])]]
  /\ topic' = [topic EXCEPT ![q] = Tail(@)]
  /\ UNCHANGED <<wal, closing, inFlight, consumerVars, work, pub, settled, seen, acked,
                 dead, lost, crashes, faults>>

\* Variant: off by one.
IsEligibleAtLimit(c) == count[c] <= PrefetchLimit(c)

IsEligible(c) == count[c] < PrefetchLimit(c)
EligibleConsumers(q) == {c \in Consumers : Registered(c) /\ sub[c] = q /\ IsEligible(c)}

\* Variant: with nobody eligible the message is dropped.
FindEligibleOrDrop(q) ==
  /\ disp[q].pc = "hold"
  /\ disp' = [disp EXCEPT ![q] = IF EligibleConsumers(q) = {} THEN [pc |-> "dequeue"]
                ELSE [pc |-> "pick", msg |-> disp[q].msg, elig |-> EligibleConsumers(q)]]
  /\ UNCHANGED <<wal, topic, closing, inFlight, consumerVars, work, pub, settled, seen,
                 acked, dead, lost, crashes, faults>>

\* With nobody eligible the loop sleeps and asks again.
FindEligible(q) ==
  /\ disp[q].pc = "hold" /\ EligibleConsumers(q) # {}
  /\ disp' = [disp EXCEPT ![q] = [pc |-> "pick", msg |-> disp[q].msg,
                                  elig |-> EligibleConsumers(q)]]
  /\ UNCHANGED <<wal, topic, closing, inFlight, consumerVars, work, pub, settled, seen,
                 acked, dead, lost, crashes, faults>>

LeastInFlight(S) == {c \in S : \A d \in S : count[c] <= count[d]}

\* Variant: the slot is not counted.
PickUncounted(q) ==
  /\ disp[q].pc = "pick"
  /\ \E c \in LeastInFlight(disp[q].elig) :
       disp' = [disp EXCEPT ![q] = [pc |-> "register", msg |-> disp[q].msg, con |-> c]]
  /\ UNCHANGED <<wal, topic, closing, inFlight, consumerVars, work, pub, settled, seen,
                 acked, dead, lost, crashes, faults>>

\* The chosen consumer may have deregistered since: then nothing is counted.
IncrementInFlight(q) ==
  /\ disp[q].pc = "pick"
  /\ \E c \in LeastInFlight(disp[q].elig) :
       /\ count' = IF Registered(c) THEN [count EXCEPT ![c] = @ + 1] ELSE count
       /\ disp' = [disp EXCEPT ![q] = [pc |-> "register", msg |-> disp[q].msg, con |-> c]]
  /\ UNCHANGED <<wal, topic, closing, inFlight, status, sub, send, work, pub, settled,
                 seen, acked, dead, lost, crashes, faults>>

\* Variant: the entry does not say which consumer holds the message.
RegisterAnonymous(q) ==
  /\ disp[q].pc = "register"
  /\ LET m == disp[q].msg
     IN inFlight' = [id \in DOMAIN inFlight \cup {m.id} |->
                       IF id = m.id THEN [msg |-> m] ELSE inFlight[id]]
  /\ disp' = [disp EXCEPT ![q] = [pc |-> "send", msg |-> disp[q].msg, con |-> disp[q].con]]
  /\ UNCHANGED <<wal, topic, closing, consumerVars, work, pub, settled, seen, acked,
                 dead, lost, crashes, faults>>

\* Variant: registering counts the slot once more.
RegisterCounting(q) ==
  /\ disp[q].pc = "register"
  /\ LET m == disp[q].msg
     IN inFlight' = [id \in DOMAIN inFlight \cup {m.id} |->
                       IF id = m.id THEN [msg |-> m, con |-> disp[q].con] ELSE inFlight[id]]
  /\ count' = IF Registered(disp[q].con) THEN [count EXCEPT ![disp[q].con] = @ + 1] ELSE count
  /\ disp' = [disp EXCEPT ![q] = [pc |-> "send", msg |-> disp[q].msg, con |-> disp[q].con]]
  /\ UNCHANGED <<wal, topic, closing, status, sub, send, work, pub, settled, seen, acked,
                 dead, lost, crashes, faults>>

Register(q) ==
  /\ disp[q].pc = "register"
  /\ LET m == disp[q].msg
     IN inFlight' = [id \in DOMAIN inFlight \cup {m.id} |->
                       IF id = m.id THEN [msg |-> m, con |-> disp[q].con] ELSE inFlight[id]]
  /\ disp' = [disp EXCEPT ![q] = [pc |-> "send", msg |-> disp[q].msg, con |-> disp[q].con]]
  /\ UNCHANGED <<wal, topic, closing, consumerVars, work, pub, settled, seen, acked,
                 dead, lost, crashes, faults>>

HasRoom(c) == Len(send[c]) < PrefetchLimit(c)

Send(q) ==
  /\ disp[q].pc = "send" /\ HasRoom(disp[q].con)
  /\ send' = [send EXCEPT ![disp[q].con] = Append(@, disp[q].msg)]
  /\ disp' = [disp EXCEPT ![q] = [pc |-> "dequeue"]]
  /\ UNCHANGED <<wal, topic, closing, inFlight, status, sub, count, work, pub, settled,
                 seen, acked, dead, lost, crashes, faults>>
-----------------------------------------------------------------------------
(* AckManager: the entries S leave the in-flight map under the lock; what  *)
(* is still to be done for each of them becomes a task of goroutine t.     *)

\* Variant: the entries stay in the map.
TakeAndKeep(t, S, next) ==
  /\ inFlight' = inFlight
  /\ work' = [work EXCEPT ![t] = @ \cup
       {[step |-> "dec", next |-> next, msg |-> inFlight[id].msg, con |-> inFlight[id].con] :
          id \in S}]

Take(t, S, next) ==
  /\ inFlight' = [id \in DOMAIN inFlight \ S |-> inFlight[id]]
  /\ work' = [work EXCEPT ![t] = @ \cup
       {[step |-> "dec", next |-> next, msg |-> inFlight[id].msg, con |-> inFlight[id].con] :
          id \in S}]

\* An id that is not in flight is ignored, and so is the consumer answering.
TakeOne(t, id, next) == Take(t, {id} \cap DOMAIN inFlight, next)

\* What nackEntry enqueues: one more try, or the dead-letter copy.
Requeued(m) ==
  IF m.retry >= MaxRetries THEN [m EXCEPT !.queue = @ + 1]
                           ELSE [m EXCEPT !.retry = @ + 1]

AfterDecrement(k) ==
  [step |-> k.next, msg |-> IF k.next = "enq" THEN Requeued(k.msg) ELSE k.msg]

\* Variant: the slot is not given back.
DecrementSkipped(t, k) ==
  /\ Ready(t, k) /\ k.step = "dec"
  /\ work' = [work EXCEPT ![t] = (@ \ {k}) \cup {AfterDecrement(k)}]
  /\ dead' = IF AfterDecrement(k).msg.queue > k.msg.queue THEN dead \cup {k.msg.id} ELSE dead
  /\ UNCHANGED <<wal, topic, closing, disp, inFlight, consumerVars, pub, settled, seen,
                 acked, lost, crashes, faults>>

\* A consumer that has deregistered is not found and nothing is counted.
DecrementInFlight(t, k) ==
  /\ Ready(t, k) /\ k.step = "dec"
  /\ count' = IF Registered(k.con) THEN [count EXCEPT ![k.con] = @ - 1] ELSE count
  /\ work' = [work EXCEPT ![t] = (@ \ {k}) \cup {AfterDecrement(k)}]
  /\ dead' = IF AfterDecrement(k).msg.queue > k.msg.queue THEN dead \cup {k.msg.id} ELSE dead
  /\ UNCHANGED <<wal, topic, closing, disp, inFlight, status, sub, send, pub, settled,
                 seen, acked, lost, crashes, faults>>

Tombstoned(m) == [wal EXCEPT ![m.queue] = Append(@, RecordTombstone(m.id))]

WriteTombstone(t, k) ==
  /\ Ready(t, k) /\ k.step = "tomb"
  /\ wal' = Tombstoned(k.msg)
  /\ work' = [work EXCEPT ![t] = @ \ {k}]
  /\ settled' = settled \cup {k.msg.id}
  /\ UNCHANGED <<topic, closing, disp, inFlight, consumerVars, pub, seen, acked, dead,
                 lost, crashes, faults>>

WriteTombstoneFails(t, k) ==
  /\ Ready(t, k) /\ k.step = "tomb" /\ faults < MaxFaults
  /\ wal' \in {wal, Tombstoned(k.msg)}
  /\ work' = [work EXCEPT ![t] = @ \ {k}]
  /\ settled' = settled \cup {k.msg.id}
  /\ faults' = faults + 1
  /\ UNCHANGED <<topic, closing, disp, inFlight, consumerVars, pub, seen, acked, dead,
                 lost, crashes>>

\* The timeout scanner finds the entries S too old.
ScanAndTimeout(S) ==
  /\ work[<<"scan", "timeout">>] = {}
  /\ S # {}
  /\ Take(<<"scan", "timeout">>, S, "enq")
  /\ UNCHANGED <<wal, topic, closing, disp, consumerVars, pub, settled, seen, acked,
                 dead, lost, crashes, faults>>

\* Variant: the expired messages stay in the topic.
ExpireDLQKeeping(q, S) ==
  /\ DlqTtl /\ IsDLQQueue(q) /\ S # {}
  /\ work[<<"scan", "dlqttl">>] = {}
  /\ work' = [work EXCEPT ![<<"scan", "dlqttl">>] =
                {[step |-> "tomb", msg |-> topic[q][i]] : i \in S}]
  /\ UNCHANGED <<wal, topic, closing, disp, inFlight, consumerVars, pub, settled, seen,
                 acked, dead, lost, crashes, faults>>

\* The DLQ scanner finds the messages at positions S of topic q too old.
ExpireDLQPending(q, S) ==
  /\ DlqTtl /\ IsDLQQueue(q) /\ S # {}
  /\ work[<<"scan", "dlqttl">>] = {}
  /\ topic' = [topic EXCEPT ![q] = Select(@, DOMAIN @ \ S)]
  /\ work' = [work EXCEPT ![<<"scan", "dlqttl">>] =
                {[step |-> "tomb", msg |-> topic[q][i]] : i \in S}]
  /\ UNCHANGED <<wal, closing, disp, inFlight, consumerVars, pub, settled, seen, acked,
                 dead, lost, crashes, faults>>

ExpireDLQInFlight(S) ==
  /\ DlqTtl /\ S # {} /\ \A id \in S : IsDLQQueue(inFlight[id].msg.queue)
  /\ work[<<"scan", "dlqttl">>] = {}
  /\ Take(<<"scan", "dlqttl">>, S, "tomb")
  /\ UNCHANGED <<wal, topic, closing, disp, consumerVars, pub, settled, seen, acked,
                 dead, lost, crashes, faults>>

\* The two periodic scanners; which messages are too old is not modelled.
TimeoutScan == \E S \in SUBSET DOMAIN inFlight : ScanAndTimeout(S)

DlqScan ==
  \/ \E q \in Queues : \E S \in SUBSET DOMAIN topic[q] : ExpireDLQPending(q, S)
  \/ \E S \in SUBSET DOMAIN inFlight : ExpireDLQInFlight(S)
-----------------------------------------------------------------------------
(* Server.Subscribe.                                                       *)

Subscribe(c, q) ==
  /\ status[c] = "new"
  /\ status' = [status EXCEPT ![c] = "up"]
  /\ sub' = [sub EXCEPT ![c] = q]
  /\ disp' = IF disp[q].pc = "off" THEN [disp EXCEPT ![q] = [pc |-> "dequeue"]] ELSE disp
  /\ UNCHANGED <<wal, topic, closing, inFlight, count, send, work, pub, settled, seen,
                 acked, dead, lost, crashes, faults>>

\* The send goroutine of c is running, and how it ends.
Sending(c) == status[c] \in {"up", "closing"}
SenderEnded(c) == [status EXCEPT ![c] = IF status[c] = "up" THEN "halted" ELSE "ended"]

\* stream.Send returns once the client's flow-control window takes the message.
Forward(c) ==
  /\ Sending(c) /\ send[c] # <<>>
  /\ seen' = seen \cup {Head(send[c]).id}
  /\ send' = [send EXCEPT ![c] = Tail(@)]
  /\ UNCHANGED <<wal, topic, closing, disp, inFlight, status, sub, count, work, pub,
                 settled, acked, dead, lost, crashes, faults>>

\* stream.Send failed: the message is gone from the channel.
ForwardFails(c) ==
  /\ Sending(c) /\ send[c] # <<>>
  /\ send' = [send EXCEPT ![c] = Tail(@)]
  /\ status' = SenderEnded(c)
  /\ UNCHANGED <<wal, topic, closing, disp, inFlight, sub, count, work, pub, settled,
                 seen, acked, dead, lost, crashes, faults>>

\* The stream's context is done.
SenderStops(c) ==
  /\ Sending(c)
  /\ status' = SenderEnded(c)
  /\ UNCHANGED <<wal, topic, closing, disp, inFlight, sub, count, send, work, pub,
                 settled, seen, acked, dead, lost, crashes, faults>>

\* The recv goroutine hands over any id the client names, sent to it or not.
Answered(c) ==
  /\ status[c] \in {"up", "halted", "draining"}
  /\ work[<<"recv", c>>] = {}
  /\ UNCHANGED <<wal, topic, closing, disp, consumerVars, pub, settled, seen, dead,
                 lost, crashes, faults>>

Ack(c, id) ==
  /\ Answered(c)
  /\ TakeOne(<<"recv", c>>, id, "tomb")
  /\ acked' = acked \cup ({id} \cap DOMAIN inFlight)

Nack(c, id) ==
  /\ Answered(c)
  /\ TakeOne(<<"recv", c>>, id, "enq")
  /\ UNCHANGED acked

\* The send or the recv goroutine has ended: Registry.Deregister.
Deregister(c) ==
  /\ Registered(c)
  /\ status' = [status EXCEPT ![c] = IF @ = "up" THEN "closing" ELSE "draining"]
  /\ UNCHANGED <<wal, topic, closing, disp, inFlight, sub, count, send, work, pub,
                 settled, seen, acked, dead, lost, crashes, faults>>

Drain(c) ==
  /\ Deregistered(c) /\ send[c] # <<>>
  /\ work[<<"drain", c>>] = {}
  /\ TakeOne(<<"drain", c>>, Head(send[c]).id, "enq")
  /\ send' = [send EXCEPT ![c] = Tail(@)]
  /\ UNCHANGED <<wal, topic, closing, disp, status, sub, count, pub, settled, seen,
                 acked, dead, lost, crashes, faults>>

\* Subscribe returns; the stream is closed and no answer arrives on it any more.
Drained(c) ==
  /\ Deregistered(c) /\ send[c] = <<>>
  /\ work[<<"drain", c>>] = {}
  /\ status' = [status EXCEPT ![c] = "gone"]
  /\ UNCHANGED <<wal, topic, closing, disp, inFlight, sub, count, send, work, pub,
                 settled, seen, acked, dead, lost, crashes, faults>>
-----------------------------------------------------------------------------
(* The process: compaction, shutdown, its end and the next start.          *)

Compact(q) ==
  /\ CanCompact
  /\ wal' = [wal EXCEPT ![q] = Replay(@)]
  /\ UNCHANGED <<topic, closing, disp, inFlight, consumerVars, work, pub, settled, seen,
                 acked, dead, lost, crashes, faults>>

BeginShutdown ==
  /\ CanShutdown /\ ~closing
  /\ closing' = TRUE
  /\ UNCHANGED <<wal, topic, disp, inFlight, consumerVars, work, pub, settled, seen,
                 acked, dead, lost, crashes, faults>>

Replayed(q) ==
  [k \in DOMAIN Replay(wal[q]) |->
     [id |-> Replay(wal[q])[k].id, queue |-> q, retry |-> Replay(wal[q])[k].retry]]

\* Only the files remain; NewManager loads what their replay returns.
CrashRestart ==
  /\ crashes < MaxCrashes
  /\ crashes' = crashes + 1
  /\ topic' = [q \in Queues |-> Replayed(q)]
  /\ closing' = FALSE
  /\ disp' = [q \in Queues |-> [pc |-> "off"]]
  /\ inFlight' = [id \in {} |-> 0]
  /\ status' = [c \in Consumers |-> IF status[c] = "new" THEN "new" ELSE "gone"]
  /\ send' = [c \in Consumers |-> <<>>]
  /\ work' = [t \in Threads |-> {}]
  /\ pub' = [id \in Ids |-> IF pub[id] = "busy" THEN "err" ELSE pub[id]]
  /\ lost' = {}
  /\ sub' = [c \in Consumers |-> 0]
  /\ count' = [c \in Consumers |-> 0]
  /\ UNCHANGED <<wal, settled, seen, acked, dead, faults>>

Step(t, k) ==
  \/ EnqueueCheck(t, k) \/ EnqueueRejected(t, k) \/ EnqueueWal(t, k) \/ EnqueueTopic(t, k)
  \/ DecrementInFlight(t, k) \/ WriteTombstone(t, k)

Dispatch(q) ==
  Dequeue(q) \/ FindEligible(q) \/ IncrementInFlight(q) \/ Register(q) \/ Send(q)

Next ==
  \/ \E id \in Ids, q \in Queues : Publish(id, q)
  \/ \E t \in Threads : \E k \in work[t] :
       Step(t, k) \/ EnqueueFails(t, k) \/ WriteTombstoneFails(t, k)
  \/ \E q \in Queues : Dispatch(q) \/ Compact(q)
  \/ TimeoutScan
  \/ DlqScan
  \/ \E c \in Consumers :
       \/ \E q \in 0..(MaxDepth - 1) : Subscribe(c, q)
       \/ Forward(c) \/ ForwardFails(c) \/ SenderStops(c) \/ Deregister(c) \/ Drain(c) \/ Drained(c)
       \/ \E id \in Ids : Ack(c, id) \/ Nack(c, id)
  \/ BeginShutdown
  \/ CrashRestart

Spec == Init /\ [][Next]_vars

(***************************************************************************)
(* Goroutines that can run do run; every in-flight message grows old and   *)
(* the scanner, which runs periodically, finds it.  Nothing is assumed of  *)
(* clients: they need not publish, subscribe, answer or stay, nor read, so *)
(* stream.Send may block for as long as the client keeps the stream open.  *)
(***************************************************************************)
Fairness ==
  /\ \A t \in Threads : WF_vars(\E k \in work[t] : Step(t, k))
  /\ \A q \in Queues : WF_vars(Dispatch(q))
  /\ \A c \in Consumers : /\ WF_vars(status[c] = "halted" /\ Deregister(c))
                          /\ WF_vars(Drain(c) \/ Drained(c))
  /\ WF_vars(ScanAndTimeout(DOMAIN inFlight))

FairSpec == Spec /\ Fairness
-----------------------------------------------------------------------------
TypeOK ==
  /\ wal \in [Queues -> Seq([type : {"msg"}, id : Ids, retry : Nat]
                              \cup [type : {"tomb"}, id : Ids])]
  /\ topic \in [Queues -> Seq(Message)]
  /\ closing \in BOOLEAN
  /\ disp \in [Queues -> Dispatcher]
  /\ DOMAIN inFlight \subseteq Ids
  /\ inFlight \in [DOMAIN inFlight -> [msg : Message, con : Consumers]]
  /\ status \in [Consumers -> {"new", "up", "halted", "closing", "draining", "ended", "gone"}]
  /\ sub \in [Consumers -> Queues]
  /\ count \in [Consumers -> Int]
  /\ send \in [Consumers -> Seq(Message)]
  /\ work \in [Threads -> SUBSET Task]
  /\ pub \in [Ids -> {"new", "busy", "ok", "err"}]
  /\ settled \subseteq Ids /\ seen \subseteq Ids /\ acked \subseteq Ids
  /\ dead \subseteq Ids /\ lost \subseteq Ids
  /\ crashes \in 0..MaxCrashes /\ faults \in 0..MaxFaults

\* Where the running process can hold the message with this id.
InTopic(id) == \E q \in Queues : \E i \in DOMAIN topic[q] : topic[q][i].id = id
AtDispatcher(id) ==
  \E q \in Queues : disp[q].pc \in {"hold", "pick", "register"} /\ disp[q].msg.id = id
InWork(id) == \E t \in Threads : \E k \in work[t] : k.msg.id = id
Held(id) == InTopic(id) \/ AtDispatcher(id) \/ id \in DOMAIN inFlight \/ InWork(id)

(***************************************************************************)
(* A message whose Publish returned OK and that nobody has settled is held *)
(* somewhere in the running broker, whatever goroutines, disconnects,      *)
(* timeouts, compactions and restarts do; only a failed or rejected        *)
(* re-enqueue (lost) leaves it to the next restart.                        *)
(***************************************************************************)
NothingForgotten ==
  \A id \in Ids : pub[id] = "ok" /\ id \notin settled \cup lost => Held(id)

(***************************************************************************)
(* The dispatcher's check-then-increment, with acks and timeouts running   *)
(* against it, never takes a consumer's counter above its prefetch limit.  *)
(***************************************************************************)
PrefetchRespected == \A c \in Consumers : count[c] <= PrefetchLimit(c)

\* The slots of c in use: its entries, the entries taken but not yet counted
\* down, and a dispatcher between counting and registering.
SlotsInUse(c) ==
  Cardinality({id \in DOMAIN inFlight : inFlight[id].con = c})
  + Cardinality(UNION {{<<t, k>> : k \in {j \in work[t] : j.step = "dec" /\ j.con = c}} :
                         t \in Threads})
  + Cardinality({q \in Queues : disp[q].pc = "register" /\ disp[q].con = c})

(***************************************************************************)
(* The counter of a registered consumer never undercounts what it has in   *)
(* flight, across restarts too: with PrefetchRespected, it never has more  *)
(* entries than its limit.                                                 *)
(***************************************************************************)
SlotsCovered == \A c \in Consumers : Registered(c) => SlotsInUse(c) <= count[c]

(***************************************************************************)
(* README: the counter "decrements on ACK, NACK, or timeout": no slot of a *)
(* registered consumer stays taken without a message that holds it.        *)
(***************************************************************************)
NoSlotLeaked == \A c \in Consumers : Registered(c) => count[c] = SlotsInUse(c)

\* The places that hold a copy of the message with this id.
Copies(id) ==
  (UNION {{<<"topic", q, i>> : i \in {j \in DOMAIN topic[q] : topic[q][j].id = id}} :
            q \in Queues})
    \cup {<<"disp", q>> : q \in {p \in Queues :
             disp[p].pc \in {"hold", "pick", "register"} /\ disp[p].msg.id = id}}
    \cup {<<"inFlight">> : x \in {id} \cap DOMAIN inFlight}
    \cup (UNION {{<<"work", t, k>> : k \in {j \in work[t] : j.msg.id = id}} : t \in Threads})

(***************************************************************************)
(* As long as the process has not restarted there is one copy of a message *)
(* at most, although an ack, a nack, a timeout, a drain and an expiry may  *)
(* all be after it: whoever takes the in-flight entry owns the message.    *)
(***************************************************************************)
OneCopy == \A id \in Ids : \A x, y \in Copies(id) : x = y

\* A record of the message is in a dead-letter queue's log.
DeadLettered(id) ==
  \E q \in Queues : IsDLQQueue(q) /\ \E i \in DOMAIN wal[q] :
     wal[q][i] \in [type : {"msg"}, id : {id}, retry : 0..MaxRetries]

(***************************************************************************)
(* README: dead-lettered messages "are not redelivered to the main queue". *)
(***************************************************************************)
DeadLetterFinal ==
  \A id \in Ids : DeadLettered(id) => \A i \in DOMAIN topic[0] : topic[0][i].id # id

(***************************************************************************)
(* A tombstone is written only for a message whose in-flight entry an ack  *)
(* took or, with a DLQ TTL, for one that is on a dead-letter queue: no     *)
(* nack, timeout, disconnect or drain, and no answer that comes too late,  *)
(* settles a message, and (README) "main queues are unaffected" by the TTL.*)
(***************************************************************************)
SettledWhenDue == \A id \in settled : id \in acked \/ (DlqTtl /\ id \in dead)

(***************************************************************************)
(* While the process runs, a queued copy is never behind what its log says *)
(* of the retry count: a message cannot have more than MaxRetries retries  *)
(* by way of an older copy.                                                *)
(***************************************************************************)
RetryCountKept ==
  \A q \in Queues : \A i \in DOMAIN topic[q], j \in DOMAIN wal[q] :
    wal[q][j].type = "msg" /\ wal[q][j].id = topic[q][i].id
      => wal[q][j].retry <= topic[q][i].retry

(***************************************************************************)
(* README: "a message is redelivered if the consumer NACKs, disconnects,   *)
(* or fails to ACK": it is not settled, so the running broker still holds  *)
(* it, also when the WAL write of a re-enqueue fails.                      *)
(***************************************************************************)
HeldThroughFaults ==
  \A id \in Ids : pub[id] = "ok" /\ id \notin settled => Held(id)

\* Queue q has recorded the message.
Recorded(id, q) == \E i \in DOMAIN wal[q] : wal[q][i].type = "msg" /\ wal[q][i].id = id

\* In the end some consumer stays on q, and no client of q stays connected
\* without reading: its channel empties again and again, or it leaves.
Served(q) == <>[](\E c \in Consumers : status[c] = "up" /\ sub[c] = q)
ClientsRead(q) == \A c \in Consumers : []<>(Registered(c) /\ sub[c] = q => send[c] = <<>>)

(***************************************************************************)
(* A message recorded on a queue that some consumer stays on is in the end *)
(* settled or in a dead-letter queue of that queue, whether or not clients *)
(* answer or leave, as long as those that stay read: the dispatcher is     *)
(* blocked while a chosen consumer's channel is full.                      *)
(***************************************************************************)
EventuallyHandled ==
  \A q \in 0..(MaxDepth - 1) : Served(q) /\ ClientsRead(q)
    => \A id \in Ids :
         Recorded(id, q) ~> (id \in settled \/ \E p \in Queues : p > q /\ Recorded(id, p))
=============================================================================
