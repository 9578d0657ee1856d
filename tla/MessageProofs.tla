--------------------------- MODULE MessageProofs ----------------------------
(***************************************************************************)
(* Which messages can be where in Broker.  Every message inside it was     *)
(* published, and one in a dead-letter queue ran out of retries or was     *)
(* published there (MsgInv).                                               *)
(* As long as the process has not restarted there is one copy of a         *)
(* message at most, wherever it stands (OnceInv).                          *)
(***************************************************************************)
EXTENDS BrokerProofs

\* Most leaves are first-order; those that need arithmetic or sequences cite SMT.
USE Zenon

\* Published, with an answer to its publisher; in a dead-letter queue only after
\* the retries ran out or because it was published there.
Known(m) == pub[m.id] \in {"ok", "err"} /\ (m.queue > 0 => m.id \in dead)

TopicKnown == \A q \in Queues : \A i \in DOMAIN topic[q] : Known(topic[q][i])
DispKnown == \A q \in Queues : disp[q].pc \notin {"off", "dequeue", "undo"} => Known(disp[q].msg)
FlightKnown == \A id \in DOMAIN inFlight : Known(inFlight[id].msg)
SendKnown == \A c \in Consumers : \A i \in DOMAIN send[c] : Known(send[c][i])
WorkKnown == \A t \in Threads \ Publishers : \A k \in work[t] : Known(k.msg)
LogKnown ==
  \A q \in Queues : \A i \in DOMAIN wal[q] :
    pub[wal[q][i].id] # "new" /\ (q > 0 => wal[q][i].id \in dead)
\* A Publish call has one task, and its caller waits for the answer.
PublisherWaits ==
  \A id \in Ids : \A k \in work[<<"publish", id>>] :
    /\ pub[id] = "busy" /\ work[<<"publish", id>>] = {k}
    /\ k.msg.queue > 0 => id \in dead

MsgInv ==
  /\ TopicKnown /\ DispKnown /\ FlightKnown /\ SendKnown
  /\ WorkKnown /\ LogKnown /\ PublisherWaits

StepOrFail(t, k) == Step(t, k) \/ EnqueueFails(t, k) \/ WriteTombstoneFails(t, k)
-----------------------------------------------------------------------------
(* The task of a Publish call is about its own message. *)
LEMMA PublisherTask ==
  ASSUME TInv, PublishTasks, PublisherWaits, NEW t \in Publishers, NEW k \in work[t]
  PROVE  /\ k.msg.id \in Ids /\ t = <<"publish", k.msg.id>>
         /\ k.msg.queue > 0 => k.msg.id \in dead
         /\ k.step \in {"enq", "wal", "topic"}
         /\ pub[k.msg.id] = "busy" /\ work[t] = {k}
<1>1. PICK id \in Ids : t = <<"publish", id>>
  BY SMT DEF Publishers
<1> QED
  BY <1>1, SMT DEF PublishTasks, PublisherWaits

(* A publisher's answer stands, and retries that ran out stay so: what is  *)
(* known of a message stays known.                                         *)
LEMMA KnownStays ==
  ASSUME TInv, PublishTasks, PublisherWaits, [Next]_vars
  PROVE  /\ \A id \in Ids : pub[id] \in {"ok", "err"} => pub'[id] = pub[id]
         /\ \A id \in Ids : pub[id] # "new" => pub'[id] # "new"
         /\ dead \subseteq dead' /\ seen \subseteq seen'
         /\ \A m \in Message : Known(m) => Known(m)'
<1>0. pub \in [Ids -> {"new", "busy", "ok", "err"}]
  BY DEF TInv, TypeOK
<1> DEFINE Answers == /\ \A id \in Ids : pub[id] \in {"ok", "err"} => pub'[id] = pub[id]
                      /\ \A id \in Ids : pub[id] # "new" => pub'[id] # "new"
                      /\ dead \subseteq dead' /\ seen \subseteq seen'
<1>2. ASSUME NEW t \in Threads, NEW k \in work[t], StepOrFail(t, k) PROVE Answers
  <2>1. pub' = pub \/ (t \in Publishers /\ \E r \in {"ok", "err"} : pub' = [pub EXCEPT ![k.msg.id] = r])
    BY <1>2 DEF StepOrFail, Step, EnqueueCheck, EnqueueWal, EnqueueRejected, EnqueueFails, EnqueueTopic,
       DecrementInFlight, WriteTombstone, WriteTombstoneFails, Answer
  <2>2. t \in Publishers => pub[k.msg.id] = "busy"
    BY PublisherTask
  <2>3. dead \subseteq dead' /\ seen' = seen
    BY <1>2 DEF StepOrFail, Step, EnqueueCheck, EnqueueWal, EnqueueRejected, EnqueueFails, EnqueueTopic,
       DecrementInFlight, WriteTombstone, WriteTombstoneFails
  <2> QED
    BY <1>0, <2>1, <2>2, <2>3
<1>3. ASSUME NEW id \in Ids, NEW q \in Queues, Publish(id, q) PROVE Answers
  BY <1>0, <1>3 DEF Publish
<1>4. ASSUME CrashRestart PROVE Answers
  BY <1>0, <1>4 DEF CrashRestart
<1>5. ASSUME UNCHANGED <<pub, dead>>, seen \subseteq seen' PROVE Answers
  BY <1>5
<1> HIDE DEF Answers
<1>6. Answers
  BY ZenonT(40), <1>2, <1>3, <1>4, <1>5 DEF Next, StepOrFail, Dispatch, Dequeue, FindEligible,
     IncrementInFlight, Register, Send, Compact, TimeoutScan, ScanAndTimeout, DlqScan,
     ExpireDLQPending, ExpireDLQInFlight, Subscribe, Forward, ForwardFails, SenderStops, Deregister,
     Drain, Drained, Ack, Nack, Answered, BeginShutdown, vars, consumerVars
<1>7. \A m \in Message : m.id \in Ids
  BY DEF Message
<1>8. \A m \in Message : Known(m) => Known(m)'
  BY <1>6, <1>7 DEF Known, Answers
<1> QED
  BY <1>6, <1>8 DEF Answers

(* What a step leaves alone stays known. *)
LEMMA KnownUntouched ==
  ASSUME TInv, PublishTasks, MsgInv, [Next]_vars
  PROVE  /\ topic' = topic => TopicKnown'
         /\ disp' = disp => DispKnown'
         /\ inFlight' = inFlight => FlightKnown'
         /\ send' = send => SendKnown'
         /\ work' = work => WorkKnown'
         /\ wal' = wal => LogKnown'
<1>1. /\ \A m \in Message : Known(m) => Known(m)'
      /\ \A id \in Ids : pub[id] # "new" => pub'[id] # "new"
      /\ dead \subseteq dead'
  BY KnownStays DEF MsgInv
<1>2. topic' = topic => TopicKnown'
  <2>1. \A q \in Queues : \A i \in DOMAIN topic[q] : topic[q][i] \in Message
    BY ElementOfSeq, LenProperties DEF TInv, TypeOK
  <2> QED
    BY <1>1, <2>1 DEF MsgInv, TopicKnown
<1>3. disp' = disp => DispKnown'
  <2>1. \A q \in Queues : disp[q].pc \notin {"off", "dequeue", "undo"} => disp[q].msg \in Message
    BY DEF TInv, TypeOK, Dispatcher
  <2> QED
    BY <1>1, <2>1 DEF MsgInv, DispKnown
<1>4. inFlight' = inFlight => FlightKnown'
  <2>1. \A id \in DOMAIN inFlight : inFlight[id].msg \in Message
    BY DEF TInv, TypeOK
  <2> QED
    BY <1>1, <2>1 DEF MsgInv, FlightKnown
<1>5. send' = send => SendKnown'
  <2>1. \A c \in Consumers : \A i \in DOMAIN send[c] : send[c][i] \in Message
    BY ElementOfSeq, LenProperties DEF TInv, TypeOK
  <2> QED
    BY <1>1, <2>1 DEF MsgInv, SendKnown
<1>6. work' = work => WorkKnown'
  <2>1. \A t \in Threads : \A k \in work[t] : k.msg \in Message
    BY SMT DEF TInv, TypeOK, Task
  <2> QED
    BY <1>1, <2>1 DEF MsgInv, WorkKnown
<1>7. wal' = wal => LogKnown'
  <2>1. \A q \in Queues : \A i \in DOMAIN wal[q] : wal[q][i].id \in Ids
    <3>1. \A q \in Queues : wal[q] \in Seq(WalRecord)
      BY DEF TInv, TypeOK, WalRecord
    <3>2. \A r \in WalRecord : r.id \in Ids
      BY DEF WalRecord
    <3> QED
      BY <3>1, <3>2, ElementOfSeq, LenProperties
  <2> QED
    BY <1>1, <2>1 DEF MsgInv, LogKnown
<1> QED
  BY <1>2, <1>3, <1>4, <1>5, <1>6, <1>7

(* A goroutine's step on a task hands on a known message. *)
LEMMA StepKnown ==
  ASSUME TInv, PublishTasks, MsgInv, [Next]_vars,
         NEW t \in Threads, NEW k \in work[t], StepOrFail(t, k)
  PROVE  MsgInv'
<1>0. /\ k \in Task /\ k.msg \in Message /\ k.msg.id \in Ids /\ k.msg.queue \in Queues
      /\ work \in [Threads -> SUBSET Task] /\ pub \in [Ids -> {"new", "busy", "ok", "err"}]
      /\ topic \in [Queues -> Seq(Message)] /\ wal \in [Queues -> Seq(WalRecord)]
  <2>1. k \in Task
    BY DEF TInv, TypeOK
  <2>2. k.msg \in Message /\ k.msg.id \in Ids /\ k.msg.queue \in Queues
    BY <2>1 DEF Task, Message
  <2> QED
    BY <2>1, <2>2 DEF TInv, TypeOK, WalRecord
<1>1. UNCHANGED <<disp, inFlight, send>>
  BY DEF StepOrFail, Step, EnqueueCheck, EnqueueWal, EnqueueRejected, EnqueueFails, EnqueueTopic,
     DecrementInFlight, WriteTombstone, WriteTombstoneFails, consumerVars
<1>2. DispKnown' /\ FlightKnown' /\ SendKnown'
  BY <1>1, KnownUntouched
<1>3. /\ \A m \in Message : Known(m) => Known(m)'
      /\ \A id \in Ids : pub[id] # "new" => pub'[id] # "new"
      /\ dead \subseteq dead'
  BY KnownStays DEF MsgInv
<1>4. /\ t \in Publishers => /\ t = <<"publish", k.msg.id>>
                             /\ k.msg.queue > 0 => k.msg.id \in dead
                             /\ k.step \in {"enq", "wal", "topic"}
                             /\ pub[k.msg.id] = "busy" /\ work[t] = {k}
      /\ t \notin Publishers => Known(k.msg) /\ Known(k.msg)'
  <2>1. CASE t \in Publishers
    BY <2>1, PublisherTask DEF MsgInv
  <2>2. CASE t \notin Publishers
    BY <1>0, <1>3, <2>2 DEF MsgInv, WorkKnown
  <2> QED
    BY <2>1, <2>2
<1>5. pub[k.msg.id] # "new" /\ (k.msg.queue > 0 => k.msg.id \in dead)
  BY <1>4, SMT DEF Known
<1>6. TopicKnown'
  <2>1. CASE EnqueueTopic(t, k)
    <3>1. Known(k.msg)'
      <4>1. CASE t \in Publishers
        <5>1. pub'[k.msg.id] = "ok"
          BY <1>0, <1>4, <2>1, <4>1 DEF EnqueueTopic, Answer
        <5> QED
          BY <1>3, <1>5, <5>1 DEF Known
      <4> QED
        BY <1>4, <4>1
    <3>2. topic' = [topic EXCEPT ![k.msg.queue] = Append(@, k.msg)]
      BY <2>1 DEF EnqueueTopic
    <3>3. \A q \in Queues : \A i \in DOMAIN topic'[q] :
            (i \in DOMAIN topic[q] /\ topic'[q][i] = topic[q][i]) \/ topic'[q][i] = k.msg
      <4> DEFINE q0 == k.msg.queue
                 m == k.msg
                 g == topic'
      <4>1. /\ topic \in [Queues -> Seq(Message)] /\ q0 \in Queues /\ m \in Message
            /\ g = [topic EXCEPT ![q0] = Append(@, m)]
        BY <1>0, <3>2
      <4> HIDE DEF q0, m, g
      <4>2. \A q \in Queues : \A i \in DOMAIN g[q] :
              (i \in DOMAIN topic[q] /\ g[q][i] = topic[q][i]) \/ (q = q0 /\ g[q][i] = m)
        BY <4>1, PutFacts, SMT
      <4> QED
        BY <4>2 DEF m, g
    <3>4. \A q \in Queues : \A i \in DOMAIN topic[q] : topic[q][i] \in Message
      BY <1>0, ElementOfSeq, LenProperties
    <3> SUFFICES ASSUME NEW q \in Queues, NEW i \in DOMAIN topic'[q] PROVE Known(topic[q][i])'
      BY DEF TopicKnown
    <3>5. CASE i \in DOMAIN topic[q] /\ topic'[q][i] = topic[q][i]
      <4>1. topic[q][i] \in Message /\ Known(topic[q][i])
        BY <3>4, <3>5 DEF MsgInv, TopicKnown
      <4>2. PICK m \in Message : m = topic[q][i]
        BY <4>1
      <4>3. Known(m)'
        BY <1>3, <4>1, <4>2
      <4> QED
        BY <3>5, <4>2, <4>3 DEF Known
    <3>6. CASE topic'[q][i] = k.msg
      BY <3>1, <3>6 DEF Known
    <3> QED
      BY <3>3, <3>5, <3>6
  <2>2. CASE ~EnqueueTopic(t, k)
    <3>1. topic' = topic
      BY <2>2 DEF StepOrFail, Step, EnqueueCheck, EnqueueWal, EnqueueRejected, EnqueueFails,
         DecrementInFlight, WriteTombstone, WriteTombstoneFails
    <3> QED
      BY <3>1, KnownUntouched
  <2> QED
    BY <2>1, <2>2
<1>7. WorkKnown'
  <2> SUFFICES ASSUME NEW u \in Threads \ Publishers, NEW j \in work'[u] PROVE Known(j.msg)'
    BY DEF WorkKnown
  <2>1. CASE j \in work[u]
    BY <1>0, <1>3, <2>1, SMT DEF MsgInv, WorkKnown, Task
  <2>2. CASE j \notin work[u]
    <3>1. u = t /\ (j.msg = k.msg \/ (DecrementInFlight(t, k) /\ j = AfterDecrement(k)))
      <4>1. CASE DecrementInFlight(t, k)
        BY <1>0, <2>2, <4>1 DEF DecrementInFlight
      <4>2. CASE EnqueueCheck(t, k) \/ EnqueueWal(t, k)
        BY <1>0, <2>2, <4>2, SMT DEF EnqueueCheck, EnqueueWal
      <4>3. CASE ~(DecrementInFlight(t, k) \/ EnqueueCheck(t, k) \/ EnqueueWal(t, k))
        BY <1>0, <2>2, <4>3 DEF StepOrFail, Step, EnqueueRejected, EnqueueFails, EnqueueTopic,
           WriteTombstone, WriteTombstoneFails
      <4> QED
        BY <4>1, <4>2, <4>3
    <3>2. CASE j.msg = k.msg
      BY <1>4, <3>1, <3>2
    <3>3. CASE DecrementInFlight(t, k) /\ j = AfterDecrement(k)
      <4>1. j.msg.id = k.msg.id /\ k.msg.queue \in Nat
              /\ (j.msg.queue = k.msg.queue \/ j.msg.queue = k.msg.queue + 1)
        BY <1>0, <3>3, SMT DEF AfterDecrement, Requeued, Message, Queues
      <4>2. j.msg.queue > k.msg.queue => k.msg.id \in dead'
        BY <3>3 DEF DecrementInFlight
      <4> QED
        BY <1>4, <3>1, <4>1, <4>2, SMT DEF Known
    <3> QED
      BY <3>1, <3>2, <3>3
  <2> QED
    BY <2>1, <2>2
<1>8. LogKnown'
  <2>1. wal' = wal \/ wal' = Logged(k.msg) \/ wal' = Tombstoned(k.msg)
    BY DEF StepOrFail, Step, EnqueueCheck, EnqueueWal, EnqueueRejected, EnqueueFails, EnqueueTopic,
       DecrementInFlight, WriteTombstone, WriteTombstoneFails
  <2>2. ASSUME NEW r \in WalRecord, r.id = k.msg.id,
               wal' = [wal EXCEPT ![k.msg.queue] = Append(@, r)]
        PROVE  LogKnown'
    <3>1. \A q \in Queues : \A i \in DOMAIN wal'[q] :
            (i \in DOMAIN wal[q] /\ wal'[q][i] = wal[q][i]) \/ (q = k.msg.queue /\ wal'[q][i] = r)
      <4> DEFINE q0 == k.msg.queue
                 g == wal'
      <4>1. /\ wal \in [Queues -> Seq(WalRecord)] /\ q0 \in Queues
            /\ g = [wal EXCEPT ![q0] = Append(@, r)]
        BY <1>0, <2>2
      <4> HIDE DEF q0, g
      <4>2. \A q \in Queues : \A i \in DOMAIN g[q] :
              (i \in DOMAIN wal[q] /\ g[q][i] = wal[q][i]) \/ (q = q0 /\ g[q][i] = r)
        BY <4>1, PutFacts, SMT
      <4> QED
        BY <4>2 DEF q0, g
    <3>2. \A q \in Queues : \A i \in DOMAIN wal[q] : wal[q][i].id \in Ids
      <4>1. \A x \in WalRecord : x.id \in Ids
        BY DEF WalRecord
      <4> QED
        BY <1>0, <4>1, ElementOfSeq, LenProperties
    <3> SUFFICES ASSUME NEW q \in Queues, NEW i \in DOMAIN wal'[q]
                 PROVE  pub'[wal'[q][i].id] # "new" /\ (q > 0 => wal'[q][i].id \in dead')
      BY Zenon DEF LogKnown
    <3>3. CASE i \in DOMAIN wal[q] /\ wal'[q][i] = wal[q][i]
      <4>1. pub[wal[q][i].id] # "new" /\ (q > 0 => wal[q][i].id \in dead)
        BY <3>3, Zenon DEF MsgInv, LogKnown
      <4>2. pub'[wal[q][i].id] # "new" /\ (q > 0 => wal[q][i].id \in dead')
        BY <1>3, <3>2, <3>3, <4>1, Zenon
      <4> QED
        BY <3>3, <4>2, Zenon
    <3>4. CASE q = k.msg.queue /\ wal'[q][i] = r
      <4>1. wal'[q][i].id = k.msg.id
        BY <2>2, <3>4, Zenon
      <4>2. pub'[k.msg.id] # "new" /\ (q > 0 => k.msg.id \in dead')
        BY <1>0, <1>3, <1>5, <3>4, Zenon
      <4> QED
        BY <4>1, <4>2, Zenon
    <3> QED
      BY <3>1, <3>3, <3>4, Zenon
  <2>3. RecordMessage(k.msg.id, k.msg.retry) \in WalRecord /\ RecordTombstone(k.msg.id) \in WalRecord
    BY <1>0 DEF RecordMessage, RecordTombstone, WalRecord, Message
  <2>4. RecordMessage(k.msg.id, k.msg.retry).id = k.msg.id /\ RecordTombstone(k.msg.id).id = k.msg.id
    BY DEF RecordMessage, RecordTombstone
  <2> QED
    BY <2>1, <2>2, <2>3, <2>4, KnownUntouched DEF Logged, Tombstoned
<1>9. PublisherWaits'
  <2> SUFFICES ASSUME NEW id \in Ids, NEW j \in work'[<<"publish", id>>]
               PROVE  /\ pub'[id] = "busy" /\ work'[<<"publish", id>>] = {j}
                      /\ j.msg.queue > 0 => id \in dead'
    BY DEF PublisherWaits
  <2>0. <<"publish", id>> \in Threads /\ <<"publish", id>> \in Publishers
    BY DEF Threads, Publishers
  <2>1. CASE t = <<"publish", id>>
    <3>1. work[t] = {k} /\ k.msg.id = id /\ pub[id] = "busy" /\ k.step \in {"enq", "wal", "topic"}
      BY <1>4, <2>0, <2>1
    <3>2. EnqueueCheck(t, k) \/ EnqueueWal(t, k)
      BY ZenonT(40), <1>0, <2>1, <3>1 DEF StepOrFail, Step, EnqueueRejected, EnqueueFails, EnqueueTopic,
         DecrementInFlight, WriteTombstone, WriteTombstoneFails
    <3>3. pub' = pub /\ \E s \in {"wal", "topic"} :
            work' = [work EXCEPT ![t] = (work[t] \ {k}) \cup {[step |-> s, msg |-> k.msg]}]
      BY <3>2 DEF EnqueueCheck, EnqueueWal
    <3>4. pub'[id] = "busy" /\ work'[<<"publish", id>>] = {j} /\ j.msg = k.msg
      BY <1>0, <2>1, <3>1, <3>3, SMT
    <3> QED
      BY <1>3, <1>5, <3>1, <3>4
  <2>2. CASE t # <<"publish", id>>
    <3>1. work'[<<"publish", id>>] = work[<<"publish", id>>]
      BY <1>0, <2>0, <2>2 DEF StepOrFail, Step, EnqueueCheck, EnqueueWal, EnqueueRejected, EnqueueFails,
         EnqueueTopic, DecrementInFlight, WriteTombstone, WriteTombstoneFails
    <3>2. t \in Publishers => k.msg.id # id
      BY <1>4, <2>2
    <3>3. pub'[id] = pub[id]
      BY <1>0, <3>2 DEF StepOrFail, Step, EnqueueCheck, EnqueueWal, EnqueueRejected, EnqueueFails,
         EnqueueTopic, DecrementInFlight, WriteTombstone, WriteTombstoneFails, Answer
    <3> QED
      BY <1>3, <3>1, <3>3 DEF MsgInv, PublisherWaits
  <2> QED
    BY <2>1, <2>2
<1> QED
  BY <1>2, <1>6, <1>7, <1>8, <1>9 DEF MsgInv

(* Elements that come from known messages are known after the step. *)
LEMMA TopicStaysKnown ==
  ASSUME TInv, PublishTasks, MsgInv, [Next]_vars,
         \A q \in Queues : \A i \in DOMAIN topic'[q] :
           \E j \in DOMAIN topic[q] : topic'[q][i] = topic[q][j]
  PROVE  TopicKnown'
<1>1. \A m \in Message : Known(m) => Known(m)'
  BY KnownStays DEF MsgInv
<1>2. \A q \in Queues : \A j \in DOMAIN topic[q] : topic[q][j] \in Message
  BY ElementOfSeq, LenProperties, SMT DEF TInv, TypeOK
<1> SUFFICES ASSUME NEW q \in Queues, NEW i \in DOMAIN topic'[q] PROVE Known(topic[q][i])'
  BY DEF TopicKnown
<1>3. PICK j \in DOMAIN topic[q] : topic'[q][i] = topic[q][j]
  OBVIOUS
<1>4. PICK m \in Message : m = topic[q][j] /\ Known(m)
  BY <1>2 DEF MsgInv, TopicKnown
<1>5. Known(m)'
  BY <1>1, <1>4
<1> QED
  BY <1>3, <1>4, <1>5 DEF Known

(* So are the messages in the send channels. *)
LEMMA SendStaysKnown ==
  ASSUME TInv, PublishTasks, MsgInv, [Next]_vars,
         NEW x \in Message, Known(x),
         \A c \in Consumers : \A i \in DOMAIN send'[c] :
           send'[c][i] = x \/ \E j \in DOMAIN send[c] : send'[c][i] = send[c][j]
  PROVE  SendKnown'
<1>1. \A m \in Message : Known(m) => Known(m)'
  BY KnownStays DEF MsgInv
<1>2. \A c \in Consumers : \A j \in DOMAIN send[c] : send[c][j] \in Message
  BY ElementOfSeq, LenProperties, SMT DEF TInv, TypeOK
<1> SUFFICES ASSUME NEW c \in Consumers, NEW i \in DOMAIN send'[c] PROVE Known(send[c][i])'
  BY DEF SendKnown
<1>3. \E m \in Message : send'[c][i] = m /\ Known(m)
  BY <1>2 DEF MsgInv, SendKnown
<1>4. PICK m \in Message : send'[c][i] = m /\ Known(m)
  BY <1>3
<1>5. Known(m)'
  BY <1>1, <1>4
<1> QED
  BY <1>4, <1>5 DEF Known

(* A dispatcher moves a known message. *)
LEMMA DispatchKnown ==
  ASSUME TInv, PublishTasks, MsgInv, [Next]_vars, NEW q \in Queues, Dispatch(q)
  PROVE  MsgInv'
<1>0. /\ disp \in [Queues -> Dispatcher] /\ topic \in [Queues -> Seq(Message)]
      /\ send \in [Consumers -> Seq(Message)]
      /\ disp[q].pc \notin {"off", "dequeue", "undo"} => disp[q].msg \in Message
      /\ \A id \in DOMAIN inFlight : inFlight[id].msg \in Message
  BY DEF TInv, TypeOK, Dispatcher
<1>1. dead \subseteq dead' /\ \A m \in Message : Known(m) => Known(m)'
  BY KnownStays DEF MsgInv
<1>2. UNCHANGED <<work, wal, pub>> /\ \A p \in Queues : p # q => disp'[p] = disp[p]
  BY <1>0 DEF Dispatch, Dequeue, FindEligible, IncrementInFlight, Register, Send
<1>3. WorkKnown' /\ LogKnown' /\ PublisherWaits'
  <2>1. PublisherWaits'
    BY <1>1, <1>2 DEF MsgInv, PublisherWaits
  <2> QED
    BY <1>2, <2>1, KnownUntouched
<1>4. TopicKnown'
  <2>1. CASE Dequeue(q)
    <3>1. topic[q] \in Seq(Message) /\ topic[q] # <<>> /\ topic'[q] = Tail(topic[q])
            /\ \A p \in Queues : p # q => topic'[p] = topic[p]
      BY <1>0, <2>1 DEF Dequeue
    <3>2. \A i \in DOMAIN Tail(topic[q]) : \E j \in DOMAIN topic[q] : Tail(topic[q])[i] = topic[q][j]
      BY <3>1, TailFacts, ZenonT(40)
    <3>3. \A p \in Queues : \A i \in DOMAIN topic'[p] :
            \E j \in DOMAIN topic[p] : topic'[p][i] = topic[p][j]
      <4> TAKE p \in Queues
      <4>1. CASE p = q
        <5>1. \A i \in DOMAIN topic'[q] : \E j \in DOMAIN topic[q] : topic'[q][i] = topic[q][j]
          BY <3>1, <3>2, Zenon
        <5> QED
          BY <4>1, <5>1
      <4>2. CASE p # q
        BY <3>1, <4>2
      <4> QED
        BY <4>1, <4>2
    <3> QED
      BY <3>3, TopicStaysKnown
  <2>2. CASE ~Dequeue(q)
    <3>1. topic' = topic
      BY <2>2 DEF Dispatch, FindEligible, IncrementInFlight, Register, Send
    <3> QED
      BY <3>1, KnownUntouched
  <2> QED
    BY <2>1, <2>2
<1>5. DispKnown'
  <2>1. disp'[q].pc \in {"off", "dequeue"} \/ \E m \in Message : disp'[q].msg = m /\ Known(m)
    <3>1. CASE Dequeue(q)
      <4>1. topic[q] \in Seq(Message) /\ topic[q] # <<>> /\ disp'[q].msg = Head(topic[q])
        BY <1>0, <3>1 DEF Dequeue
      <4>2. Head(topic[q]) \in Message /\ 1 \in DOMAIN topic[q] /\ Head(topic[q]) = topic[q][1]
        BY <4>1, TailFacts
      <4>3. Known(topic[q][1])
        BY <4>2 DEF MsgInv, TopicKnown
      <4> QED
        BY <4>1, <4>2, <4>3
    <3>2. CASE ~Dequeue(q)
      <4>1. disp'[q].pc = "dequeue"
              \/ (disp[q].pc \notin {"off", "dequeue", "undo"} /\ disp'[q].msg = disp[q].msg)
        BY <1>0, <3>2, SMTT(30) DEF Dispatch, FindEligible, IncrementInFlight, Register, Send
      <4> QED
        BY <1>0, <4>1 DEF MsgInv, DispKnown
    <3> QED
      BY <3>1, <3>2
  <2> SUFFICES ASSUME NEW p \in Queues, disp'[p].pc \notin {"off", "dequeue", "undo"}
               PROVE  Known(disp[p].msg)'
    BY DEF DispKnown
  <2>2. \E m \in Message : disp'[p].msg = m /\ Known(m)
    <3>1. CASE p = q
      BY <2>1, <3>1
    <3>2. CASE p # q
      <4>1. disp[p] \in Dispatcher /\ disp'[p] = disp[p]
        BY <1>0, <1>2, <3>2
      <4>2. disp[p].msg \in Message /\ Known(disp[p].msg)
        BY <4>1 DEF Dispatcher, MsgInv, DispKnown
      <4> QED
        BY <4>1, <4>2
    <3> QED
      BY <3>1, <3>2
  <2>3. PICK m \in Message : disp'[p].msg = m /\ Known(m)
    BY <2>2
  <2>4. Known(m)'
    BY <1>1, <2>3
  <2> QED
    BY <2>3, <2>4 DEF Known
<1>6. FlightKnown'
  <2>1. CASE Register(q)
    <3>1. disp[q].msg \in Message /\ Known(disp[q].msg)
      BY <1>0, <2>1 DEF Register, MsgInv, DispKnown
    <3> SUFFICES ASSUME NEW id \in DOMAIN inFlight' PROVE Known(inFlight[id].msg)'
      BY DEF FlightKnown
    <3>2. \E m \in Message : inFlight'[id].msg = m /\ Known(m)
      BY <1>0, <2>1, <3>1 DEF Register, MsgInv, FlightKnown
    <3>3. PICK m \in Message : inFlight'[id].msg = m /\ Known(m)
      BY <3>2
    <3>4. Known(m)'
      BY <1>1, <3>3
    <3> QED
      BY <3>3, <3>4 DEF Known
  <2>2. CASE ~Register(q)
    <3>1. inFlight' = inFlight
      BY <2>2 DEF Dispatch, Dequeue, FindEligible, IncrementInFlight, Send
    <3> QED
      BY <3>1, KnownUntouched
  <2> QED
    BY <2>1, <2>2
<1>7. SendKnown'
  <2>1. CASE Send(q)
    <3> DEFINE m == disp[q].msg
               c0 == disp[q].con
               g == send'
    <3>1. m \in Message /\ Known(m) /\ c0 \in Consumers
            /\ g = [send EXCEPT ![c0] = Append(@, m)]
      BY <1>0, <2>1 DEF Send, MsgInv, DispKnown, Dispatcher
    <3> HIDE DEF m, c0, g
    <3>2. \A c \in Consumers : \A i \in DOMAIN g[c] :
            (i \in DOMAIN send[c] /\ g[c][i] = send[c][i]) \/ (c = c0 /\ g[c][i] = m)
      BY <1>0, <3>1, PutFacts, SMTT(30)
    <3>3. \A c \in Consumers : \A i \in DOMAIN send'[c] :
            send'[c][i] = m \/ \E j \in DOMAIN send[c] : send'[c][i] = send[c][j]
      BY <3>2 DEF g
    <3> QED
      BY <3>1, <3>3, SendStaysKnown
  <2>2. CASE ~Send(q)
    <3>1. send' = send
      BY <2>2 DEF Dispatch, Dequeue, FindEligible, IncrementInFlight, Register, consumerVars
    <3> QED
      BY <3>1, KnownUntouched
  <2> QED
    BY <2>1, <2>2
<1> QED
  BY <1>3, <1>4, <1>5, <1>6, <1>7 DEF MsgInv

(* Entries taken from the in-flight map become tasks about known messages. *)
LEMMA TakeKnown ==
  ASSUME TInv, PublishTasks, MsgInv, [Next]_vars,
         NEW t \in Threads \ Publishers, NEW S \in SUBSET DOMAIN inFlight,
         NEW next \in {"tomb", "enq"}, Take(t, S, next), UNCHANGED <<topic, disp, wal, pub>>, SendKnown'
  PROVE  MsgInv'
<1>0. /\ work \in [Threads -> SUBSET Task]
      /\ \A id \in DOMAIN inFlight : inFlight[id].msg \in Message
  BY DEF TInv, TypeOK
<1>1. \A m \in Message : Known(m) => Known(m)'
  BY KnownStays DEF MsgInv
<1>2. TopicKnown' /\ DispKnown' /\ LogKnown'
  BY KnownUntouched
<1>3. FlightKnown'
  <2> SUFFICES ASSUME NEW id \in DOMAIN inFlight' PROVE Known(inFlight[id].msg)'
    BY DEF FlightKnown
  <2>1. id \in DOMAIN inFlight /\ inFlight'[id] = inFlight[id]
    BY TakeType
  <2>2. PICK m \in Message : m = inFlight[id].msg /\ Known(m)
    BY <1>0, <2>1 DEF MsgInv, FlightKnown
  <2>3. Known(m)'
    BY <1>1, <2>2
  <2> QED
    BY <2>1, <2>2, <2>3 DEF Known
<1>4. \A u \in Threads : \A j \in work'[u] :
        j \in work[u] \/ (u = t /\ \E id \in S : j.msg = inFlight[id].msg)
  <2> DEFINE new == {[step |-> "dec", next |-> next, msg |-> inFlight[id].msg,
                      con |-> inFlight[id].con] : id \in S}
  <2>1. work' = [work EXCEPT ![t] = @ \cup new]
    BY DEF Take
  <2>2. \A j \in new : \E id \in S : j.msg = inFlight[id].msg
    BY SMT
  <2> HIDE DEF new
  <2>3. \A u \in Threads : \A j \in work'[u] : j \in work[u] \/ (u = t /\ j \in new)
    BY <1>0, <2>1
  <2> QED
    BY <2>2, <2>3
<1>5. WorkKnown'
  <2> SUFFICES ASSUME NEW u \in Threads \ Publishers, NEW j \in work'[u] PROVE Known(j.msg)'
    BY DEF WorkKnown
  <2>1. CASE j \in work[u]
    BY <1>0, <1>1, <2>1, SMT DEF MsgInv, WorkKnown, Task
  <2>2. CASE j \notin work[u]
    <3>1. PICK id \in S : j.msg = inFlight[id].msg
      BY <1>4, <2>2
    <3> QED
      BY <1>0, <1>1, <3>1 DEF MsgInv, FlightKnown
  <2> QED
    BY <2>1, <2>2
<1>6. PublisherWaits'
  <2>1. \A id \in Ids : work'[<<"publish", id>>] = work[<<"publish", id>>]
    BY TakeLog
  <2>2. dead \subseteq dead'
    BY KnownStays DEF MsgInv
  <2> QED
    BY <2>1, <2>2 DEF MsgInv, PublisherWaits
<1> QED
  BY <1>2, <1>3, <1>5, <1>6 DEF MsgInv

(* What the DLQ scanner takes from a topic becomes tasks about it. *)
LEMMA ExpireKnown ==
  ASSUME TInv, PublishTasks, MsgInv, [Next]_vars,
         NEW q \in Queues, NEW S \in SUBSET DOMAIN topic[q], ExpireDLQPending(q, S)
  PROVE  MsgInv'
<1> DEFINE scan == <<"scan", "dlqttl">>
           kept == DOMAIN topic[q] \ S
<1>0. /\ work \in [Threads -> SUBSET Task] /\ topic \in [Queues -> Seq(Message)]
      /\ scan \in Threads /\ scan \notin Publishers
      /\ \A id \in Ids : <<"publish", id>> \in Threads
  BY DEF TInv, TypeOK, Threads, Publishers
<1>1. \A m \in Message : Known(m) => Known(m)'
  BY KnownStays DEF MsgInv
<1>2. /\ UNCHANGED <<disp, inFlight, send, wal, pub>>
      /\ topic'[q] = Select(topic[q], kept) /\ \A p \in Queues : p # q => topic'[p] = topic[p]
      /\ \A u \in Threads : u # scan => work'[u] = work[u]
      /\ work'[scan] = {[step |-> "tomb", msg |-> topic[q][i]] : i \in S}
  BY <1>0 DEF ExpireDLQPending, consumerVars
<1>3. DispKnown' /\ FlightKnown' /\ SendKnown' /\ LogKnown'
  BY <1>2, KnownUntouched
<1>4. TopicKnown'
  <2>1. topic[q] \in Seq(Message) /\ kept \in SUBSET DOMAIN topic[q]
    BY <1>0
  <2>2. \A j \in DOMAIN Select(topic[q], kept) : \E i \in kept :
          Select(topic[q], kept)[j] = topic[q][i]
    BY <2>1, SelectProperties, ZenonT(40)
  <2>3. \A j \in DOMAIN topic'[q] : \E i \in DOMAIN topic[q] : topic'[q][j] = topic[q][i]
    BY <1>2, <2>2, Zenon
  <2>4. \A p \in Queues : \A j \in DOMAIN topic'[p] :
          \E i \in DOMAIN topic[p] : topic'[p][j] = topic[p][i]
    <3> TAKE p \in Queues
    <3>1. CASE p = q
      BY <2>3, <3>1
    <3>2. CASE p # q
      BY <1>2, <3>2
    <3> QED
      BY <3>1, <3>2
  <2> QED
    BY <2>4, TopicStaysKnown
<1>5. WorkKnown'
  <2> SUFFICES ASSUME NEW u \in Threads \ Publishers, NEW j \in work'[u] PROVE Known(j.msg)'
    BY DEF WorkKnown
  <2>1. CASE u # scan
    BY <1>0, <1>1, <1>2, <2>1, SMTT(30) DEF MsgInv, WorkKnown, Task
  <2>2. CASE u = scan
    <3>1. PICK i \in S : j.msg = topic[q][i]
      BY <1>2, <2>2, SMTT(30)
    <3>2. topic[q][i] \in Message
      BY <1>0, ElementOfSeq, LenProperties
    <3> QED
      BY <1>1, <3>1, <3>2 DEF MsgInv, TopicKnown
  <2> QED
    BY <2>1, <2>2
<1>6. PublisherWaits'
  <2>1. \A id \in Ids : work'[<<"publish", id>>] = work[<<"publish", id>>]
    BY <1>0, <1>2
  <2>2. dead \subseteq dead'
    BY KnownStays DEF MsgInv
  <2> QED
    BY <1>2, <2>1, <2>2 DEF MsgInv, PublisherWaits
<1> QED
  BY <1>3, <1>4, <1>5, <1>6 DEF MsgInv

(* A restart takes up what the logs say. *)
LEMMA RestartKnown ==
  ASSUME TInv, PublishTasks, MsgInv, CrashRestart
  PROVE  MsgInv'
<1>0. pub \in [Ids -> {"new", "busy", "ok", "err"}] /\ wal \in [Queues -> Seq(WalRecord)]
      /\ \A r \in WalRecord : r.id \in Ids
  BY DEF TInv, TypeOK, WalRecord
<1>1. /\ \A id \in Ids : pub[id] # "new" => pub'[id] \in {"ok", "err"}
      /\ UNCHANGED <<wal, dead>>
  BY <1>0 DEF CrashRestart
<1>2. /\ DOMAIN inFlight' = {} /\ \A t \in Threads : work'[t] = {}
      /\ \A q \in Queues : disp'[q].pc = "off" /\ topic'[q] = Replayed(q)
      /\ \A c \in Consumers : DOMAIN send'[c] = {}
  <2>1. DOMAIN <<>> = {}
    BY SMT
  <2> QED
    BY <2>1 DEF CrashRestart
<1>3. DispKnown' /\ FlightKnown' /\ SendKnown' /\ WorkKnown' /\ PublisherWaits'
  <2>1. DispKnown' /\ FlightKnown'
    BY <1>2 DEF DispKnown, FlightKnown
  <2>2. SendKnown'
    BY <1>2 DEF SendKnown
  <2>3. \A t \in Threads : work'[t] = {}
    BY <1>2
  <2>4. \A id \in Ids : work'[<<"publish", id>>] = {}
    <3> TAKE id \in Ids
    <3>1. <<"publish", id>> \in Threads
      BY DEF Threads, Publishers
    <3> QED
      BY <2>3, <3>1
  <2>5. WorkKnown'
    BY <2>3 DEF WorkKnown
  <2>6. PublisherWaits'
    BY <2>4 DEF PublisherWaits
  <2> QED
    BY <2>1, <2>2, <2>5, <2>6
<1>4. LogKnown'
  BY <1>1, KnownUntouched DEF Next
<1>5. TopicKnown'
  <2> SUFFICES ASSUME NEW q \in Queues, NEW k \in DOMAIN topic'[q] PROVE Known(topic[q][k])'
    BY DEF TopicKnown
  <2>1. /\ wal[q] \in Seq(WalRecord)
        /\ k \in DOMAIN Replay(wal[q])
        /\ topic'[q][k].id = Replay(wal[q])[k].id /\ topic'[q][k].queue = q
    <3>1. topic'[q] = Replayed(q)
      BY <1>2
    <3>2. k \in DOMAIN Replay(wal[q])
      BY <3>1 DEF Replayed
    <3>3. topic'[q][k] = [id |-> Replay(wal[q])[k].id, queue |-> q, retry |-> Replay(wal[q])[k].retry]
      BY <3>1, <3>2 DEF Replayed
    <3> QED
      BY <1>0, <3>2, <3>3, SMT
  <2>2. PICK i \in Live(wal[q]) : Replay(wal[q])[k] = wal[q][i]
    BY <2>1, ReplayProperties
  <2>3. i \in DOMAIN wal[q] /\ wal[q][i].id \in Ids
    <3>1. i \in DOMAIN wal[q]
      BY DEF Live, Readable
    <3> QED
      BY <1>0, <2>1, <3>1, ElementOfSeq, LenProperties
  <2> QED
    BY <1>1, <2>1, <2>2, <2>3 DEF Known, MsgInv, LogKnown
<1> QED
  BY <1>3, <1>4, <1>5 DEF MsgInv

(* Taking the head off a send channel leaves it with known messages. *)
LEMMA SendTailKnown ==
  ASSUME TInv, PublishTasks, MsgInv, [Next]_vars, NEW c \in Consumers, send[c] # <<>>,
         send' = [send EXCEPT ![c] = Tail(@)]
  PROVE  SendKnown'
<1>1. send \in [Consumers -> Seq(Message)] /\ send[c] \in Seq(Message)
  BY DEF TInv, TypeOK
<1>2. 1 \in DOMAIN send[c] /\ send[c][1] \in Message /\ Known(send[c][1])
  <2>1. 1 \in DOMAIN send[c] /\ Head(send[c]) \in Message /\ Head(send[c]) = send[c][1]
    BY <1>1, TailFacts
  <2> QED
    BY <2>1 DEF MsgInv, SendKnown
<1>3. \A i \in DOMAIN Tail(send[c]) : \E j \in DOMAIN send[c] : Tail(send[c])[i] = send[c][j]
  BY <1>1, TailFacts, ZenonT(40)
<1>4. send'[c] = Tail(send[c]) /\ \A d \in Consumers : d # c => send'[d] = send[d]
  BY <1>1
<1>5. \A d \in Consumers : \A i \in DOMAIN send'[d] :
        send'[d][i] = send[c][1] \/ \E j \in DOMAIN send[d] : send'[d][i] = send[d][j]
  <2> TAKE d \in Consumers
  <2>1. CASE d = c
    <3>1. \A i \in DOMAIN send'[c] : \E j \in DOMAIN send[c] : send'[c][i] = send[c][j]
      BY <1>3, <1>4, Zenon
    <3> QED
      BY <2>1, <3>1, SMT
  <2>2. CASE d # c
    BY <1>4, <2>2
  <2> QED
    BY <2>1, <2>2
<1> QED
  BY <1>2, <1>5, SendStaysKnown

(* Every step keeps every message inside the broker known. *)
LEMMA MsgStep ==
  ASSUME TInv, PublishTasks, MsgInv, [Next]_vars
  PROVE  MsgInv'
<1>0. /\ <<"scan", "timeout">> \in Threads \ Publishers
      /\ <<"scan", "dlqttl">> \in Threads \ Publishers
      /\ \A c \in Consumers : /\ <<"recv", c>> \in Threads \ Publishers
                              /\ <<"drain", c>> \in Threads \ Publishers
  BY DEF Threads, Publishers
<1>1. ASSUME UNCHANGED <<topic, inFlight, work, pub, wal>>, SendKnown', DispKnown' PROVE MsgInv'
  <2>1. dead \subseteq dead'
    BY KnownStays DEF MsgInv
  <2>2. PublisherWaits'
    BY <1>1, <2>1 DEF MsgInv, PublisherWaits
  <2> QED
    BY <1>1, <2>2, KnownUntouched DEF MsgInv
<1>2. ASSUME UNCHANGED <<topic, inFlight, work, pub, wal, send, disp>> PROVE MsgInv'
  BY <1>1, <1>2, KnownUntouched
<1>3. ASSUME NEW id \in Ids, NEW q \in Queues, Publish(id, q) PROVE MsgInv'
  <2>1. UNCHANGED <<topic, disp, inFlight, send, wal>>
    BY <1>3 DEF Publish, consumerVars
  <2>2. work \in [Threads -> SUBSET Task] /\ pub \in [Ids -> {"new", "busy", "ok", "err"}]
    BY DEF TInv, TypeOK
  <2>3. \A i \in Ids : <<"publish", i>> \in Threads /\ <<"publish", i>> \in Publishers
    BY DEF Threads, Publishers
  <2>4. \A t \in Threads \ Publishers : work'[t] = work[t]
    BY <1>3, <2>2, <2>3 DEF Publish
  <2>5. WorkKnown'
    <3>1. \A t \in Threads : \A k \in work[t] : k.msg \in Message
      BY <2>2, SMT DEF Task
    <3>2. \A m \in Message : Known(m) => Known(m)'
      BY KnownStays DEF MsgInv
    <3> QED
      BY <2>4, <3>1, <3>2 DEF MsgInv, WorkKnown
  <2>6. PublisherWaits'
    <3> SUFFICES ASSUME NEW i \in Ids, NEW k \in work'[<<"publish", i>>]
                 PROVE  /\ pub'[i] = "busy" /\ work'[<<"publish", i>>] = {k}
                        /\ k.msg.queue > 0 => i \in dead'
      BY DEF PublisherWaits
    <3>1. CASE i = id
      <4>1. /\ pub'[i] = "busy" /\ (q > 0 => id \in dead')
            /\ work'[<<"publish", i>>] =
                 {[step |-> "enq", msg |-> [id |-> id, queue |-> q, retry |-> 0]]}
        BY <1>3, <2>2, <2>3, <3>1 DEF Publish
      <4> QED
        BY <3>1, <4>1, SMT
    <3>2. CASE i # id
      <4>1. work'[<<"publish", i>>] = work[<<"publish", i>>] /\ pub'[i] = pub[i]
        BY <1>3, <2>2, <2>3, <3>2 DEF Publish
      <4>2. dead \subseteq dead'
        BY KnownStays DEF MsgInv
      <4> QED
        BY <4>1, <4>2 DEF MsgInv, PublisherWaits
    <3> QED
      BY <3>1, <3>2
  <2> QED
    BY <2>1, <2>5, <2>6, KnownUntouched DEF MsgInv
<1>4. ASSUME NEW q \in Queues, Compact(q) PROVE MsgInv'
  <2>1. UNCHANGED <<topic, disp, inFlight, send, work, pub, dead>>
    BY <1>4 DEF Compact, consumerVars
  <2>2. wal \in [Queues -> Seq(WalRecord)]
    BY DEF TInv, TypeOK, WalRecord
  <2>3. wal'[q] = Replay(wal[q]) /\ \A p \in Queues : p # q => wal'[p] = wal[p]
    BY <1>4, <2>2 DEF Compact
  <2>4. \A k \in DOMAIN Replay(wal[q]) : \E i \in DOMAIN wal[q] : Replay(wal[q])[k] = wal[q][i]
    <3>1. wal[q] \in Seq(WalRecord) /\ Live(wal[q]) \subseteq DOMAIN wal[q]
      BY <2>2 DEF Live, Readable
    <3>2. \A k \in DOMAIN Replay(wal[q]) : \E i \in Live(wal[q]) : Replay(wal[q])[k] = wal[q][i]
      BY <3>1, ReplayProperties
    <3> QED
      BY <3>1, <3>2, Zenon
  <2>5. LogKnown'
    <3> SUFFICES ASSUME NEW p \in Queues, NEW k \in DOMAIN wal'[p]
                 PROVE  pub[wal'[p][k].id] # "new" /\ (p > 0 => wal'[p][k].id \in dead)
      BY <2>1 DEF LogKnown
    <3>1. \E i \in DOMAIN wal[p] : wal'[p][k] = wal[p][i]
      BY <2>3, <2>4, SMT
    <3> QED
      BY <3>1 DEF MsgInv, LogKnown
  <2>6. PublisherWaits'
    BY <2>1 DEF MsgInv, PublisherWaits
  <2> QED
    BY <2>1, <2>5, <2>6, KnownUntouched DEF MsgInv
<1>5. ASSUME TimeoutScan PROVE MsgInv'
  <2>1. PICK S \in SUBSET DOMAIN inFlight : ScanAndTimeout(S)
    BY <1>5 DEF TimeoutScan
  <2>2. Take(<<"scan", "timeout">>, S, "enq") /\ UNCHANGED <<topic, disp, wal, pub, send>>
    BY <2>1 DEF ScanAndTimeout, consumerVars
  <2>3. SendKnown'
    BY <2>2, KnownUntouched
  <2> QED
    BY <1>0, <2>2, <2>3, TakeKnown
<1>6. ASSUME NEW S \in SUBSET DOMAIN inFlight, ExpireDLQInFlight(S) PROVE MsgInv'
  <2>1. Take(<<"scan", "dlqttl">>, S, "tomb") /\ UNCHANGED <<topic, disp, wal, pub, send>>
    BY <1>6 DEF ExpireDLQInFlight, consumerVars
  <2>2. SendKnown'
    BY <2>1, KnownUntouched
  <2> QED
    BY <1>0, <2>1, <2>2, TakeKnown
<1>7. ASSUME NEW c \in Consumers, NEW q \in 0..(MaxDepth - 1), Subscribe(c, q) PROVE MsgInv'
  <2>1. /\ UNCHANGED <<topic, inFlight, work, pub, wal, send>>
        /\ \A p \in Queues : disp'[p] = disp[p] \/ disp'[p].pc = "dequeue"
    BY <1>7 DEF Subscribe, TInv, TypeOK
  <2>2. DispKnown'
    <3> SUFFICES ASSUME NEW p \in Queues, disp'[p].pc \notin {"off", "dequeue", "undo"}
                 PROVE  Known(disp[p].msg)'
      BY DEF DispKnown
    <3>1. disp'[p] = disp[p] /\ disp[p] \in Dispatcher
      BY <2>1 DEF TInv, TypeOK
    <3>2. disp[p].msg \in Message /\ Known(disp[p].msg)
      BY <3>1 DEF Dispatcher, MsgInv, DispKnown
    <3>3. PICK m \in Message : m = disp[p].msg /\ Known(m)
      BY <3>2
    <3>4. Known(m)'
      BY <3>3, KnownStays DEF MsgInv
    <3> QED
      BY <3>1, <3>3, <3>4 DEF Known
  <2> QED
    BY <1>1, <2>1, <2>2, KnownUntouched
<1>8. ASSUME NEW c \in Consumers, Forward(c) \/ ForwardFails(c) PROVE MsgInv'
  <2>1. /\ UNCHANGED <<topic, inFlight, work, pub, wal, disp>>
        /\ send[c] # <<>> /\ send' = [send EXCEPT ![c] = Tail(@)]
    BY <1>8 DEF Forward, ForwardFails
  <2>2. SendKnown' /\ DispKnown'
    BY <2>1, SendTailKnown, KnownUntouched
  <2> QED
    BY <1>1, <2>1, <2>2
<1>9. ASSUME NEW c \in Consumers, SenderStops(c) \/ Deregister(c) \/ Drained(c) PROVE MsgInv'
  BY <1>2, <1>9 DEF SenderStops, Deregister, Drained
<1>10. ASSUME NEW c \in Consumers, Drain(c) PROVE MsgInv'
  <2>1. PICK S \in SUBSET DOMAIN inFlight : Take(<<"drain", c>>, S, "enq")
    BY <1>10 DEF Drain, TakeOne
  <2>2. /\ UNCHANGED <<topic, disp, wal, pub>>
        /\ send[c] # <<>> /\ send' = [send EXCEPT ![c] = Tail(@)]
    BY <1>10 DEF Drain
  <2>3. SendKnown'
    BY <2>2, SendTailKnown
  <2>4. <<"drain", c>> \in Threads \ Publishers
    BY <1>0, ZenonT(40)
  <2> QED
    BY <2>1, <2>2, <2>3, <2>4, TakeKnown
<1>11. ASSUME NEW c \in Consumers, NEW id \in Ids, Ack(c, id) \/ Nack(c, id) PROVE MsgInv'
  <2>1. UNCHANGED <<topic, disp, wal, pub, send>>
    BY <1>11 DEF Ack, Nack, Answered, consumerVars
  <2>2. PICK next \in {"tomb", "enq"} : TakeOne(<<"recv", c>>, id, next)
    BY <1>11 DEF Ack, Nack
  <2>3. PICK S \in SUBSET DOMAIN inFlight : Take(<<"recv", c>>, S, next)
    BY <2>2 DEF TakeOne
  <2>4. SendKnown'
    BY <2>1, KnownUntouched
  <2>5. <<"recv", c>> \in Threads \ Publishers
    BY <1>0, ZenonT(40)
  <2> QED
    BY <2>1, <2>3, <2>4, <2>5, TakeKnown
<1>12. ASSUME BeginShutdown \/ UNCHANGED vars PROVE MsgInv'
  BY <1>2, <1>12 DEF BeginShutdown, vars, consumerVars
<1> QED
  BY <1>3, <1>4, <1>5, <1>6, <1>7, <1>8, <1>9, <1>10, <1>11, <1>12, StepKnown, DispatchKnown,
     ExpireKnown, RestartKnown DEF Next, DlqScan, StepOrFail

(* No message is there yet. *)
LEMMA KnownInit == Init => MsgInv
<1> SUFFICES ASSUME Init PROVE MsgInv
  OBVIOUS
<1>1. DOMAIN <<>> = {} /\ \A id \in Ids : <<"publish", id>> \in Threads
  BY SMT DEF Threads, Publishers
<1>2. TopicKnown /\ SendKnown /\ LogKnown
  BY <1>1 DEF Init, TopicKnown, SendKnown, LogKnown
<1>3. DispKnown /\ FlightKnown /\ WorkKnown
  BY DEF Init, DispKnown, FlightKnown, WorkKnown
<1>4. PublisherWaits
  BY <1>1 DEF Init, PublisherWaits
<1> QED
  BY <1>2, <1>3, <1>4 DEF MsgInv

(* Every message inside the broker is always a known one. *)
LEMMA KnownInvariant == Spec => []MsgInv
<1>1. Init => MsgInv
  BY KnownInit
<1>2. TInv /\ LogInv /\ MsgInv /\ [Next]_vars => MsgInv'
  BY MsgStep DEF LogInv
<1> QED
  BY <1>1, <1>2, TypeInvariant, LogInvariant, PTL DEF Spec
-----------------------------------------------------------------------------
Holding(q) == disp[q].pc \in {"hold", "pick", "register"}

TopicOnce ==
  \A q, p \in Queues : \A i \in DOMAIN topic[q], j \in DOMAIN topic[p] :
    topic[q][i].id = topic[p][j].id => q = p /\ i = j
DispOnce ==
  \A q, p \in Queues :
    Holding(q) /\ Holding(p) /\ disp[q].msg.id = disp[p].msg.id => q = p
WorkOnce ==
  \A t, u \in Threads : \A k \in work[t], j \in work[u] :
    k.msg.id = j.msg.id => t = u /\ k = j
Apart ==
  \A id \in Ids :
    /\ InTopic(id) => ~AtDispatcher(id) /\ id \notin DOMAIN inFlight /\ ~InWork(id)
    /\ AtDispatcher(id) => id \notin DOMAIN inFlight /\ ~InWork(id)
    /\ id \in DOMAIN inFlight => ~InWork(id)

OnceInv == TopicOnce /\ DispOnce /\ WorkOnce /\ Apart
-----------------------------------------------------------------------------
(* The message of a task is nowhere else, and moves with the task. *)
LEMMA StepOnce ==
  ASSUME TInv, OnceInv, NEW t \in Threads, NEW k \in work[t], StepOrFail(t, k)
  PROVE  OnceInv'
<1> DEFINE x == k.msg.id
<1>0. /\ k \in Task /\ k.msg \in Message /\ x \in Ids /\ k.msg.queue \in Queues
      /\ work \in [Threads -> SUBSET Task] /\ topic \in [Queues -> Seq(Message)]
  <2>1. k \in Task
    BY DEF TInv, TypeOK
  <2>2. k.msg \in Message /\ k.msg.id \in Ids /\ k.msg.queue \in Queues
    BY <2>1 DEF Task, Message
  <2> QED
    BY <2>1, <2>2 DEF TInv, TypeOK
<1>1. UNCHANGED <<disp, inFlight>>
  BY DEF StepOrFail, Step, EnqueueCheck, EnqueueWal, EnqueueRejected, EnqueueFails, EnqueueTopic,
     DecrementInFlight, WriteTombstone, WriteTombstoneFails
<1>2. InWork(x) /\ ~InTopic(x) /\ ~AtDispatcher(x) /\ x \notin DOMAIN inFlight
  BY <1>0 DEF InWork, OnceInv, Apart
<1>3. AfterDecrement(k).msg.id = x
  BY <1>0 DEF AfterDecrement, Requeued, Message
<1>4. \E X : /\ work' = [work EXCEPT ![t] = (work[t] \ {k}) \cup X]
             /\ X = {} \/ (~EnqueueTopic(t, k) /\ \E j : j.msg.id = x /\ X = {j})
  <2>1. CASE EnqueueCheck(t, k) \/ EnqueueWal(t, k)
    <3>1. PICK s \in {"wal", "topic"} :
            work' = [work EXCEPT ![t] = (work[t] \ {k}) \cup {[step |-> s, msg |-> k.msg]}]
      BY <2>1 DEF EnqueueCheck, EnqueueWal
    <3>2. ~EnqueueTopic(t, k)
      BY <2>1 DEF EnqueueCheck, EnqueueWal, EnqueueTopic
    <3> QED
      BY <3>1, <3>2
  <2>2. CASE DecrementInFlight(t, k)
    <3>1. work' = [work EXCEPT ![t] = (work[t] \ {k}) \cup {AfterDecrement(k)}]
      BY <2>2 DEF DecrementInFlight
    <3>2. ~EnqueueTopic(t, k)
      BY <2>2 DEF DecrementInFlight, EnqueueTopic
    <3> QED
      BY <1>3, <3>1, <3>2
  <2>3. CASE ~(EnqueueCheck(t, k) \/ EnqueueWal(t, k) \/ DecrementInFlight(t, k))
    <3>1. work' = [work EXCEPT ![t] = work[t] \ {k}]
      BY <2>3 DEF StepOrFail, Step, EnqueueRejected, EnqueueFails, EnqueueTopic, WriteTombstone,
         WriteTombstoneFails
    <3> QED
      BY <3>1
  <2> QED
    BY <2>1, <2>2, <2>3
<1>5. PICK X : /\ work' = [work EXCEPT ![t] = (work[t] \ {k}) \cup X]
               /\ X = {} \/ (~EnqueueTopic(t, k) /\ \E j : j.msg.id = x /\ X = {j})
  BY <1>4
<1>6. /\ \A u \in Threads : u # t => work'[u] = work[u]
      /\ work'[t] = (work[t] \ {k}) \cup X
      /\ \A j \in X : j.msg.id = x /\ X = {j}
      /\ EnqueueTopic(t, k) => X = {}
  BY <1>0, <1>5
<1>7. \A u \in Threads : \A j \in work'[u] :
        \/ j \in work[u] /\ j.msg.id # x
        \/ u = t /\ j \in X /\ j.msg.id = x
  BY <1>6, SMT DEF OnceInv, WorkOnce
<1>8. WorkOnce'
  <2> SUFFICES ASSUME NEW u \in Threads, NEW v \in Threads, NEW i \in work'[u], NEW j \in work'[v],
                      i.msg.id = j.msg.id
               PROVE  u = v /\ i = j
    BY DEF WorkOnce
  <2>1. CASE i.msg.id = x
    BY <1>6, <1>7, <2>1
  <2>2. CASE i.msg.id # x
    BY <1>7, <2>2, SMT DEF OnceInv, WorkOnce
  <2> QED
    BY <2>1, <2>2
<1>9. \A id \in Ids : /\ AtDispatcher(id)' <=> AtDispatcher(id)
                      /\ InWork(id)' => InWork(id)
                      /\ EnqueueTopic(t, k) => ~InWork(x)'
  BY <1>1, <1>2, <1>6, <1>7 DEF AtDispatcher, InWork
<1>10. DispOnce'
  BY <1>1 DEF OnceInv, DispOnce, Holding
<1>11. CASE EnqueueTopic(t, k)
  <2> DEFINE m == k.msg
             q0 == k.msg.queue
             g == topic'
  <2>1. /\ q0 \in Queues /\ m \in Message /\ g = [topic EXCEPT ![q0] = Append(@, m)]
        /\ g[q0] = Append(topic[q0], m) /\ topic[q0] \in Seq(Message)
    BY <1>0, <1>11 DEF EnqueueTopic
  <2>2. m.id = x
    OBVIOUS
  <2> HIDE DEF m, q0, g
  <2>3. \A q \in Queues : \A i \in DOMAIN g[q] :
          (i \in DOMAIN topic[q] /\ g[q][i] = topic[q][i]) \/ (q = q0 /\ g[q][i] = m)
    BY <1>0, <2>1, PutFacts, SMT
  <2>4. \A q \in Queues : \A i \in DOMAIN g[q] :
          \/ i \in DOMAIN topic[q] /\ g[q][i] = topic[q][i] /\ g[q][i].id # x
          \/ q = q0 /\ g[q][i].id = x /\ i = Len(topic[q0]) + 1
    <3> TAKE q \in Queues
    <3> TAKE i \in DOMAIN g[q]
    <3>1. CASE i \in DOMAIN topic[q] /\ g[q][i] = topic[q][i]
      BY <1>2, <3>1 DEF InTopic
    <3>2. CASE ~(i \in DOMAIN topic[q] /\ g[q][i] = topic[q][i])
      <4>1. q = q0 /\ g[q][i].id = x
        BY <2>2, <2>3, <3>2
      <4>2. /\ Len(topic[q0]) \in Nat /\ DOMAIN topic[q0] = 1..Len(topic[q0])
            /\ DOMAIN g[q0] = 1..(Len(topic[q0]) + 1)
            /\ \A n \in 1..Len(topic[q0]) : g[q0][n] = topic[q0][n]
        BY <2>1, LenProperties, AppendProperties, SMT
      <4> QED
        BY <3>2, <4>1, <4>2, SMTT(30)
    <3> QED
      BY <3>1, <3>2
  <2>5. TopicOnce'
    <3> SUFFICES ASSUME NEW q \in Queues, NEW p \in Queues, NEW i \in DOMAIN g[q], NEW j \in DOMAIN g[p],
                        g[q][i].id = g[p][j].id
                 PROVE  q = p /\ i = j
      BY DEF TopicOnce, g
    <3>1. CASE g[q][i].id = x
      BY <2>4, <3>1
    <3>2. CASE g[q][i].id # x
      BY <2>4, <3>2, SMT DEF OnceInv, TopicOnce
    <3> QED
      BY <3>1, <3>2
  <2>6. \A id \in Ids : InTopic(id)' => InTopic(id) \/ id = x
    BY <2>4 DEF InTopic, g
  <2>7. Apart'
    BY <1>1, <1>2, <1>9, <1>11, <2>6 DEF OnceInv, Apart
  <2> QED
    BY <1>8, <1>10, <2>5, <2>7 DEF OnceInv
<1>12. CASE ~EnqueueTopic(t, k)
  <2>1. topic' = topic
    BY <1>12 DEF StepOrFail, Step, EnqueueCheck, EnqueueWal, EnqueueRejected, EnqueueFails,
       DecrementInFlight, WriteTombstone, WriteTombstoneFails
  <2>2. TopicOnce' /\ \A id \in Ids : InTopic(id)' <=> InTopic(id)
    BY <2>1, SMT DEF OnceInv, TopicOnce, InTopic
  <2>3. Apart'
    BY <1>1, <1>9, <2>2 DEF OnceInv, Apart
  <2> QED
    BY <1>8, <1>10, <2>2, <2>3 DEF OnceInv
<1> QED
  BY <1>11, <1>12

(* A dispatcher moves the message on: topic, dispatcher, in-flight map. *)
LEMMA DispatchOnce ==
  ASSUME TInv, OnceInv, NEW q \in Queues, Dispatch(q)
  PROVE  OnceInv'
<1>0. /\ disp \in [Queues -> Dispatcher] /\ topic \in [Queues -> Seq(Message)]
      /\ disp[q] \in Dispatcher
      /\ \A p \in Queues : disp[p].pc \notin {"off", "dequeue", "undo"} => disp[p].msg \in Message
  BY DEF TInv, TypeOK, Dispatcher
<1>1. UNCHANGED work /\ \A p \in Queues : p # q => disp'[p] = disp[p]
  BY <1>0 DEF Dispatch, Dequeue, FindEligible, IncrementInFlight, Register, Send
<1>2. WorkOnce' /\ \A id \in Ids : InWork(id)' <=> InWork(id)
  BY <1>1, SMT DEF OnceInv, WorkOnce, InWork
<1>3. CASE Dequeue(q)
  <2> DEFINE x == Head(topic[q]).id
  <2>1. /\ topic[q] \in Seq(Message) /\ topic[q] # <<>> /\ topic'[q] = Tail(topic[q])
        /\ \A p \in Queues : p # q => topic'[p] = topic[p]
        /\ inFlight' = inFlight /\ disp[q].pc = "dequeue"
        /\ disp'[q] = [pc |-> "hold", msg |-> Head(topic[q])]
    BY <1>0, <1>3 DEF Dequeue
  <2>2. /\ Len(topic[q]) \in Nat /\ DOMAIN topic[q] = 1..Len(topic[q]) /\ Len(topic[q]) # 0
        /\ DOMAIN Tail(topic[q]) = 1..(Len(topic[q]) - 1)
        /\ \A i \in 1..(Len(topic[q]) - 1) : Tail(topic[q])[i] = topic[q][i + 1]
        /\ Head(topic[q]) = topic[q][1] /\ Head(topic[q]) \in Message
    BY <2>1, LenProperties, HeadTailProperties, EmptySeq, SMTT(30)
  <2>3. x \in Ids /\ 1 \in DOMAIN topic[q] /\ topic[q][1].id = x
    BY <2>2, SMT DEF Message
  <2>4. InTopic(x)
    BY <2>3 DEF InTopic
  <2>5. ~AtDispatcher(x) /\ x \notin DOMAIN inFlight /\ ~InWork(x)
    BY <2>3, <2>4 DEF OnceInv, Apart
  <2>6. \A i \in DOMAIN topic'[q] : i + 1 \in DOMAIN topic[q] /\ topic'[q][i] = topic[q][i + 1]
          /\ i \in Nat /\ i + 1 # 1
    BY <2>1, <2>2, SMT
  <2>7. TopicOnce'
    <3> SUFFICES ASSUME NEW r \in Queues, NEW p \in Queues, NEW i \in DOMAIN topic'[r],
                        NEW j \in DOMAIN topic'[p], topic'[r][i].id = topic'[p][j].id
                 PROVE  r = p /\ i = j
      BY DEF TopicOnce
    <3>1. CASE r = q /\ p = q
      <4>1. i + 1 \in DOMAIN topic[q] /\ j + 1 \in DOMAIN topic[q] /\ i \in Nat /\ j \in Nat
              /\ topic[q][i + 1].id = topic[q][j + 1].id
        BY <2>6, <3>1
      <4>2. i + 1 = j + 1
        BY <4>1, SMT DEF OnceInv, TopicOnce
      <4> QED
        BY <3>1, <4>1, <4>2, SMT
    <3>2. CASE r = q /\ p # q
      <4>1. i + 1 \in DOMAIN topic[q] /\ j \in DOMAIN topic[p] /\ topic[q][i + 1].id = topic[p][j].id
        BY <2>1, <2>6, <3>2
      <4> QED
        BY <3>2, <4>1 DEF OnceInv, TopicOnce
    <3>3. CASE r # q /\ p = q
      <4>1. j + 1 \in DOMAIN topic[q] /\ i \in DOMAIN topic[r] /\ topic[q][j + 1].id = topic[r][i].id
        BY <2>1, <2>6, <3>3
      <4> QED
        BY <3>3, <4>1 DEF OnceInv, TopicOnce
    <3>4. CASE r # q /\ p # q
      <4>1. /\ i \in DOMAIN topic[r] /\ j \in DOMAIN topic[p]
            /\ topic[r][i].id = topic[p][j].id
        BY <2>1, <3>4
      <4> QED
        BY <4>1, SMT DEF OnceInv, TopicOnce
    <3> QED
      BY <3>1, <3>2, <3>3, <3>4
  <2>8. ASSUME NEW id \in Ids, InTopic(id)' PROVE InTopic(id) /\ id # x
    <3>0. PICK p \in Queues : \E i \in DOMAIN topic'[p] : topic'[p][i].id = id
      BY <2>8 DEF InTopic
    <3>1. PICK i \in DOMAIN topic'[p] : topic'[p][i].id = id
      BY <3>0
    <3>2. CASE p = q
      <4>1. i + 1 \in DOMAIN topic[q] /\ topic[q][i + 1].id = id /\ i + 1 # 1
        BY <2>6, <3>1, <3>2
      <4> QED
        BY <2>3, <4>1, SMTT(30) DEF InTopic, OnceInv, TopicOnce
    <3>3. CASE p # q
      <4>1. i \in DOMAIN topic[p] /\ topic[p][i].id = id
        BY <2>1, <3>1, <3>3
      <4> QED
        BY <2>3, <3>3, <4>1, SMT DEF InTopic, OnceInv, TopicOnce
    <3> QED
      BY <3>2, <3>3
  <2>9. \A p \in Queues : Holding(p)' => (p = q /\ disp'[p].msg.id = x)
                                  \/ (p # q /\ Holding(p) /\ disp'[p] = disp[p] /\ disp[p].msg.id # x)
    BY <1>1, <2>1, <2>5, SMT DEF Holding, AtDispatcher
  <2>10. DispOnce'
    BY <2>9 DEF OnceInv, DispOnce
  <2>11. \A id \in Ids : AtDispatcher(id)' => AtDispatcher(id) \/ id = x
    BY <2>9 DEF AtDispatcher, Holding
  <2>12. Apart'
    BY <1>2, <2>1, <2>3, <2>5, <2>8, <2>11 DEF OnceInv, Apart
  <2> QED
    BY <1>2, <2>7, <2>10, <2>12 DEF OnceInv
<1>4. CASE ~Dequeue(q)
  <2>1. topic' = topic
    BY <1>4 DEF Dispatch, FindEligible, IncrementInFlight, Register, Send
  <2>2. TopicOnce' /\ \A id \in Ids : InTopic(id)' <=> InTopic(id)
    BY <2>1, SMTT(30) DEF OnceInv, TopicOnce, InTopic
  <2>3. Holding(q)' => Holding(q) /\ disp'[q].msg = disp[q].msg
    BY <1>0, <1>4, SMTT(30) DEF Dispatch, FindEligible, IncrementInFlight, Register, Send, Holding
  <2>4. \A p \in Queues : Holding(p)' => Holding(p) /\ disp'[p].msg = disp[p].msg
    BY <1>1, <2>3 DEF Holding
  <2>5. DispOnce' /\ \A id \in Ids : AtDispatcher(id)' => AtDispatcher(id)
    BY <2>4 DEF OnceInv, DispOnce, AtDispatcher, Holding
  <2>6. CASE Register(q)
    <3> DEFINE x == disp[q].msg.id
    <3>1. /\ DOMAIN inFlight' = DOMAIN inFlight \cup {x}
          /\ disp[q].pc = "register" /\ disp'[q].pc = "send" /\ x \in Ids
      BY <1>0, <2>6 DEF Register, Message
    <3>2. AtDispatcher(x)
      BY <3>1 DEF AtDispatcher
    <3>3. \A id \in Ids : AtDispatcher(id)' => id # x
      <4> SUFFICES ASSUME NEW p \in Queues, Holding(p)' PROVE disp'[p].msg.id # x
        BY DEF AtDispatcher, Holding
      <4>1. p # q /\ Holding(p) /\ disp'[p].msg = disp[p].msg
        BY <2>4, <3>1 DEF Holding
      <4>2. Holding(q)
        BY <3>1 DEF Holding
      <4>3. disp[p].msg.id # x
        BY <4>1, <4>2 DEF OnceInv, DispOnce
      <4> QED
        BY <4>1, <4>3
    <3>4. Apart'
      BY <1>2, <2>2, <2>5, <3>1, <3>2, <3>3 DEF OnceInv, Apart
    <3> QED
      BY <1>2, <2>2, <2>5, <3>4 DEF OnceInv
  <2>7. CASE ~Register(q)
    <3>1. inFlight' = inFlight
      BY <1>4, <2>7 DEF Dispatch, FindEligible, IncrementInFlight, Send
    <3>2. Apart'
      BY <1>2, <2>2, <2>5, <3>1 DEF OnceInv, Apart
    <3> QED
      BY <1>2, <2>2, <2>5, <3>2 DEF OnceInv
  <2> QED
    BY <2>6, <2>7
<1> QED
  BY <1>3, <1>4

(* Whoever takes an entry from the in-flight map owns its message. *)
LEMMA TakeOnce ==
  ASSUME TInv, KeyInv, OnceInv, NEW t \in Threads, NEW S \in SUBSET DOMAIN inFlight,
         NEW next \in {"tomb", "enq"}, Take(t, S, next), UNCHANGED <<topic, disp>>
  PROVE  OnceInv'
<1>0. work \in [Threads -> SUBSET Task] /\ DOMAIN inFlight \subseteq Ids
  BY DEF TInv, TypeOK
<1>1. DOMAIN inFlight' = DOMAIN inFlight \ S
  BY TakeType, ZenonT(40)
<1> DEFINE new(id) == [step |-> "dec", next |-> next, msg |-> inFlight[id].msg,
                       con |-> inFlight[id].con]
<1>2. work' = [work EXCEPT ![t] = @ \cup {new(id) : id \in S}]
  BY DEF Take
<1>3. \A id \in S : new(id).msg.id = id
  BY DEF KeyInv
<1> HIDE DEF new
<1>4. \A u \in Threads : \A j \in work'[u] :
        j \in work[u] \/ (u = t /\ \E id \in S : j = new(id))
  BY <1>0, <1>2
<1>5. \A id \in S : ~InWork(id) /\ ~InTopic(id) /\ ~AtDispatcher(id)
  BY <1>0 DEF OnceInv, Apart
<1>6. \A u \in Threads : \A j \in work'[u] :
        (j \in work[u] /\ j.msg.id \notin S) \/ (u = t /\ j.msg.id \in S /\ j = new(j.msg.id))
  <2> TAKE u \in Threads
  <2> TAKE j \in work'[u]
  <2>1. CASE j \in work[u]
    BY <1>5, <2>1 DEF InWork
  <2>2. CASE j \notin work[u]
    BY <1>3, <1>4, <2>2
  <2> QED
    BY <2>1, <2>2
<1>7. WorkOnce'
  <2> SUFFICES ASSUME NEW u \in Threads, NEW v \in Threads, NEW i \in work'[u], NEW j \in work'[v],
                      i.msg.id = j.msg.id
               PROVE  u = v /\ i = j
    BY DEF WorkOnce
  <2>1. CASE i.msg.id \in S
    BY <1>6, <2>1
  <2>2. CASE i.msg.id \notin S
    BY <1>6, <2>2 DEF OnceInv, WorkOnce
  <2> QED
    BY <2>1, <2>2
<1>8. \A id \in Ids : /\ InTopic(id)' <=> InTopic(id)
                      /\ AtDispatcher(id)' <=> AtDispatcher(id)
                      /\ InWork(id)' => InWork(id) \/ id \in S
  BY <1>6 DEF InTopic, AtDispatcher, InWork
<1>9. TopicOnce' /\ DispOnce'
  BY SMT DEF OnceInv, TopicOnce, DispOnce, Holding
<1>10. Apart'
  BY <1>1, <1>5, <1>8 DEF OnceInv, Apart
<1> QED
  BY <1>7, <1>9, <1>10 DEF OnceInv

(* What the DLQ scanner takes leaves the topic. *)
LEMMA ExpireOnce ==
  ASSUME TInv, OnceInv, NEW q \in Queues, NEW S \in SUBSET DOMAIN topic[q], ExpireDLQPending(q, S)
  PROVE  OnceInv'
<1> DEFINE scan == <<"scan", "dlqttl">>
           kept == DOMAIN topic[q] \ S
           new(i) == [step |-> "tomb", msg |-> topic[q][i]]
<1>0. /\ work \in [Threads -> SUBSET Task] /\ topic \in [Queues -> Seq(Message)]
      /\ scan \in Threads /\ topic[q] \in Seq(Message) /\ kept \in SUBSET DOMAIN topic[q]
  BY DEF TInv, TypeOK, Threads
<1>1. /\ UNCHANGED <<disp, inFlight>>
      /\ topic'[q] = Select(topic[q], kept) /\ \A p \in Queues : p # q => topic'[p] = topic[p]
      /\ work[scan] = {} /\ \A u \in Threads : u # scan => work'[u] = work[u]
      /\ work'[scan] = {new(i) : i \in S}
  BY <1>0 DEF ExpireDLQPending
<1>2. /\ \E f \in [DOMAIN topic'[q] -> DOMAIN topic[q]] :
           /\ \A k, l \in DOMAIN topic'[q] : k < l => f[k] < f[l]
           /\ \A k \in DOMAIN topic'[q] : topic'[q][k] = topic[q][f[k]]
      /\ \A k \in DOMAIN topic'[q] : \E i \in kept : topic'[q][k] = topic[q][i]
      /\ DOMAIN topic'[q] \subseteq Int /\ DOMAIN topic[q] \subseteq Int
  <2> DEFINE w == topic[q]
             z == topic'[q]
  <2>1. w \in Seq(Message) /\ kept \in SUBSET DOMAIN w /\ z = Select(w, kept)
    BY <1>0, <1>1
  <2> HIDE DEF w, z, kept
  <2>2. \E f \in [DOMAIN Select(w, kept) -> DOMAIN w] :
          /\ \A k, l \in DOMAIN Select(w, kept) : k < l => f[k] < f[l]
          /\ \A k \in DOMAIN Select(w, kept) : Select(w, kept)[k] = w[f[k]]
    BY <2>1, SelectOrder
  <2>3. /\ Select(w, kept) \in Seq(Message)
        /\ \A k \in DOMAIN Select(w, kept) : \E i \in kept : Select(w, kept)[k] = w[i]
    BY <2>1, SelectProperties
  <2>4. \E f \in [DOMAIN z -> DOMAIN w] : /\ \A k, l \in DOMAIN z : k < l => f[k] < f[l]
                                       /\ \A k \in DOMAIN z : z[k] = w[f[k]]
    BY <2>1, <2>2, Zenon
  <2>5. \A k \in DOMAIN z : \E i \in kept : z[k] = w[i]
    BY <2>1, <2>3, Zenon
  <2>6. DOMAIN z \subseteq Int /\ DOMAIN w \subseteq Int
    BY <2>1, <2>3, LenProperties, SMT
  <2> QED
    BY <2>4, <2>5, <2>6 DEF w, z
<1>3. PICK f \in [DOMAIN topic'[q] -> DOMAIN topic[q]] :
        /\ \A k, l \in DOMAIN topic'[q] : k < l => f[k] < f[l]
        /\ \A k \in DOMAIN topic'[q] : topic'[q][k] = topic[q][f[k]]
  BY <1>2
<1>4. \A k \in DOMAIN topic'[q] :
        /\ f[k] \in kept /\ topic'[q][k] = topic[q][f[k]]
        /\ \A l \in DOMAIN topic'[q] : f[k] = f[l] => k = l
  <2> TAKE k \in DOMAIN topic'[q]
  <2>1. topic'[q][k] = topic[q][f[k]]
    BY <1>3
  <2>2. f[k] \in DOMAIN topic[q]
    BY <1>3
  <2>3. PICK i \in kept : topic[q][f[k]] = topic[q][i]
    BY <1>2, <2>1, SMTT(30)
  <2>4. f[k] = i
    BY <2>2, <2>3 DEF OnceInv, TopicOnce
  <2>5. \A l \in DOMAIN topic'[q] : f[k] = f[l] => k = l
    <3> SUFFICES ASSUME NEW l \in DOMAIN topic'[q], f[k] = f[l], k # l PROVE FALSE
      OBVIOUS
    <3>1. f[k] \in Int /\ f[l] \in Int /\ k \in Int /\ l \in Int
      BY <1>2, <1>3
    <3>2. f[k] < f[l] \/ f[l] < f[k]
      BY <1>3, <3>1, SMT
    <3> QED
      BY <3>1, <3>2, SMT
  <2> QED
    BY <2>1, <2>3, <2>4, <2>5
<1> HIDE DEF kept
<1>5. TopicOnce'
  <2> SUFFICES ASSUME NEW r \in Queues, NEW p \in Queues, NEW i \in DOMAIN topic'[r],
                      NEW j \in DOMAIN topic'[p], topic'[r][i].id = topic'[p][j].id
               PROVE  r = p /\ i = j
    BY DEF TopicOnce
  <2>1. CASE r = q /\ p = q
    <3>1. f[i] \in DOMAIN topic[q] /\ f[j] \in DOMAIN topic[q]
            /\ topic[q][f[i]].id = topic[q][f[j]].id
      BY <1>4, <2>1, ZenonT(40) DEF kept
    <3>2. f[i] = f[j]
      BY <3>1, SMT DEF OnceInv, TopicOnce
    <3> QED
      BY <1>4, <2>1, <3>2
  <2>2. CASE r = q /\ p # q
    <3>1. f[i] \in DOMAIN topic[q] /\ j \in DOMAIN topic[p] /\ topic[q][f[i]].id = topic[p][j].id
      BY <1>1, <1>4, <2>2 DEF kept
    <3> QED
      BY <2>2, <3>1 DEF OnceInv, TopicOnce
  <2>3. CASE r # q /\ p = q
    <3>1. f[j] \in DOMAIN topic[q] /\ i \in DOMAIN topic[r] /\ topic[q][f[j]].id = topic[r][i].id
      BY <1>1, <1>4, <2>3, ZenonT(40) DEF kept
    <3> QED
      BY <2>3, <3>1 DEF OnceInv, TopicOnce
  <2>4. CASE r # q /\ p # q
    <3>1. i \in DOMAIN topic[r] /\ j \in DOMAIN topic[p] /\ topic[r][i].id = topic[p][j].id
      BY <1>1, <2>4
    <3> QED
      BY <3>1, SMT DEF OnceInv, TopicOnce
  <2> QED
    BY <2>1, <2>2, <2>3, <2>4
<1> DEFINE Taken(id) == \E i \in S : topic[q][i].id = id
<1>6. \A id \in Ids : InTopic(id)' => InTopic(id) /\ ~Taken(id)
  <2> SUFFICES ASSUME NEW p \in Queues, NEW j \in DOMAIN topic'[p]
               PROVE  InTopic(topic'[p][j].id) /\ ~Taken(topic'[p][j].id)
    BY SMT DEF InTopic
  <2>1. CASE p = q
    <3>1. f[j] \in DOMAIN topic[q] /\ f[j] \notin S /\ topic'[q][j] = topic[q][f[j]]
      BY <1>4, <2>1 DEF kept
    <3> QED
      BY <2>1, <3>1, SMT DEF InTopic, OnceInv, TopicOnce
  <2>2. CASE p # q
    <3>1. j \in DOMAIN topic[p] /\ topic'[p][j] = topic[p][j]
      BY <1>1, <2>2
    <3> QED
      BY <2>2, <3>1, SMTT(30) DEF InTopic, OnceInv, TopicOnce
  <2> QED
    BY <2>1, <2>2
<1>7. \A id \in Ids : Taken(id) => InTopic(id)
  BY DEF InTopic
<1>8. \A u \in Threads : \A j \in work'[u] :
        \/ u # scan /\ j \in work[u] /\ j.msg.id \in Ids
        \/ u = scan /\ \E i \in S : j = new(i) /\ topic[q][i].id = j.msg.id
  <2> TAKE u \in Threads
  <2> TAKE j \in work'[u]
  <2>1. CASE u = scan
    BY <1>1, <2>1, SMTT(30)
  <2>2. CASE u # scan
    BY <1>0, <1>1, <2>2, SMTT(30) DEF Task, Message
  <2> QED
    BY <2>1, <2>2
<1>9. WorkOnce'
  <2> SUFFICES ASSUME NEW u \in Threads, NEW v \in Threads, NEW k \in work'[u], NEW j \in work'[v],
                      k.msg.id = j.msg.id
               PROVE  u = v /\ k = j
    BY DEF WorkOnce
  <2>1. CASE u = scan /\ v = scan
    <3>1. PICK i \in S : k = new(i) /\ topic[q][i].id = k.msg.id
      BY <1>8, <2>1
    <3>2. PICK l \in S : j = new(l) /\ topic[q][l].id = j.msg.id
      BY <1>8, <2>1
    <3>3. i = l
      BY <3>1, <3>2 DEF OnceInv, TopicOnce
    <3> QED
      BY <2>1, <3>1, <3>2, <3>3
  <2>2. CASE u # scan /\ v # scan
    BY <1>8, <2>2 DEF OnceInv, WorkOnce
  <2>3. CASE (u = scan /\ v # scan) \/ (u # scan /\ v = scan)
    <3>1. PICK id \in Ids : Taken(id) /\ InWork(id)
      BY <1>8, <2>3, SMT DEF InWork
    <3> QED
      BY <1>7, <3>1, ZenonT(40) DEF OnceInv, Apart
  <2> QED
    BY <2>1, <2>2, <2>3
<1>10. \A id \in Ids : /\ AtDispatcher(id)' <=> AtDispatcher(id)
                       /\ InWork(id)' => InWork(id) \/ Taken(id)
  BY <1>1, <1>8, ZenonT(40) DEF AtDispatcher, InWork
<1>11. DispOnce'
  BY <1>1 DEF OnceInv, DispOnce, Holding
<1> HIDE DEF Taken
<1>12. Apart'
  BY <1>1, <1>6, <1>7, <1>10 DEF OnceInv, Apart
<1> QED
  BY <1>5, <1>9, <1>11, <1>12 DEF OnceInv

(* The broker holds no copy of a message that is yet to be published. *)
LEMMA PublishOnce ==
  ASSUME TInv, KeyInv, PublishTasks, MsgInv, OnceInv, NEW x \in Ids,
         NEW q \in Queues, Publish(x, q)
  PROVE  OnceInv'
<1> DEFINE p == <<"publish", x>>
<1>0. work \in [Threads -> SUBSET Task] /\ p \in Threads
  BY DEF TInv, TypeOK, Threads, Publishers
<1>1. /\ UNCHANGED <<topic, disp, inFlight>> /\ pub[x] = "new"
      /\ \A u \in Threads : u # p => work'[u] = work[u]
      /\ work'[p] = {[step |-> "enq", msg |-> [id |-> x, queue |-> q, retry |-> 0]]}
  BY <1>0 DEF Publish
<1>2. ~InTopic(x) /\ ~AtDispatcher(x)
  BY <1>1 DEF MsgInv, TopicKnown, DispKnown, Known, InTopic, AtDispatcher
<1>3. \A t \in Threads : \A k \in work[t] : pub[k.msg.id] # "new"
  <2> TAKE t \in Threads
  <2> TAKE k \in work[t]
  <2>1. CASE t \in Publishers
    BY <2>1, PublisherTask DEF MsgInv
  <2>2. CASE t \notin Publishers
    BY <2>2 DEF MsgInv, WorkKnown, Known
  <2> QED
    BY <2>1, <2>2
<1>4. ~InWork(x)
  BY <1>1, <1>3 DEF InWork
<1>5. \A u \in Threads : \A j \in work'[u] :
        \/ j \in work[u] /\ j.msg.id # x
        \/ u = p /\ j.msg.id = x /\ work'[u] = {j}
  <2> TAKE u \in Threads
  <2> TAKE j \in work'[u]
  <2>1. CASE u = p
    BY <1>1, <2>1, SMT
  <2>2. CASE u # p
    BY <1>1, <1>4, <2>2 DEF InWork
  <2> QED
    BY <2>1, <2>2
<1>6. WorkOnce'
  <2> SUFFICES ASSUME NEW u \in Threads, NEW v \in Threads, NEW k \in work'[u], NEW j \in work'[v],
                      k.msg.id = j.msg.id
               PROVE  u = v /\ k = j
    BY DEF WorkOnce
  <2>1. CASE k.msg.id = x
    BY <1>5, <2>1
  <2>2. CASE k.msg.id # x
    BY <1>5, <2>2, SMT DEF OnceInv, WorkOnce
  <2> QED
    BY <2>1, <2>2
<1>7. \A id \in Ids : /\ InTopic(id)' <=> InTopic(id)
                      /\ AtDispatcher(id)' <=> AtDispatcher(id)
                      /\ InWork(id)' => InWork(id) \/ id = x
  BY <1>1, <1>5 DEF InTopic, AtDispatcher, InWork
<1>8. x \notin DOMAIN inFlight
  BY <1>1 DEF MsgInv, FlightKnown, Known, KeyInv
<1>9. TopicOnce' /\ DispOnce'
  BY <1>1, SMTT(30) DEF OnceInv, TopicOnce, DispOnce, Holding
<1>10. Apart'
  BY <1>1, <1>2, <1>4, <1>7, <1>8 DEF OnceInv, Apart
<1> QED
  BY <1>6, <1>9, <1>10 DEF OnceInv

(* Nothing but a restart makes a second copy. *)
LEMMA OnceStep ==
  ASSUME TInv, KeyInv, PublishTasks, MsgInv, OnceInv, [Next]_vars, ~CrashRestart
  PROVE  OnceInv'
<1>0. /\ <<"scan", "timeout">> \in Threads /\ <<"scan", "dlqttl">> \in Threads
      /\ \A c \in Consumers : <<"recv", c>> \in Threads /\ <<"drain", c>> \in Threads
  BY DEF Threads
<1>1. ASSUME UNCHANGED <<topic, inFlight, work>>, \A q \in Queues : Holding(q)' => disp'[q] = disp[q]
      PROVE  OnceInv'
  <2>1. TopicOnce' /\ WorkOnce'
    BY <1>1, SMT DEF OnceInv, TopicOnce, WorkOnce
  <2>2. \A q \in Queues : Holding(q)' => Holding(q) /\ disp'[q].msg = disp[q].msg
    BY <1>1 DEF Holding
  <2>3. DispOnce'
    BY <2>2 DEF OnceInv, DispOnce
  <2>4. \A id \in Ids : /\ AtDispatcher(id)' => AtDispatcher(id)
                        /\ InTopic(id)' <=> InTopic(id)
                        /\ InWork(id)' <=> InWork(id)
    BY <1>1, <2>2 DEF AtDispatcher, Holding, InTopic, InWork
  <2>5. Apart'
    BY <1>1, <2>4 DEF OnceInv, Apart
  <2> QED
    BY <2>1, <2>3, <2>5 DEF OnceInv
<1>2. ASSUME UNCHANGED <<topic, inFlight, work, disp>> PROVE OnceInv'
  BY <1>1, <1>2
<1>3. ASSUME TimeoutScan PROVE OnceInv'
  <2>1. PICK S \in SUBSET DOMAIN inFlight : ScanAndTimeout(S)
    BY <1>3 DEF TimeoutScan
  <2>2. Take(<<"scan", "timeout">>, S, "enq") /\ UNCHANGED <<topic, disp>>
    BY <2>1 DEF ScanAndTimeout
  <2> QED
    BY <1>0, <2>2, TakeOnce
<1>4. ASSUME NEW S \in SUBSET DOMAIN inFlight, ExpireDLQInFlight(S) PROVE OnceInv'
  <2>1. Take(<<"scan", "dlqttl">>, S, "tomb") /\ UNCHANGED <<topic, disp>>
    BY <1>4 DEF ExpireDLQInFlight
  <2> QED
    BY <1>0, <2>1, TakeOnce
<1>5. ASSUME NEW c \in Consumers, NEW q \in 0..(MaxDepth - 1), Subscribe(c, q) PROVE OnceInv'
  <2>1. /\ UNCHANGED <<topic, inFlight, work>>
        /\ \A p \in Queues : disp'[p] = disp[p] \/ disp'[p].pc = "dequeue"
    BY <1>5 DEF Subscribe, TInv, TypeOK
  <2>2. \A p \in Queues : Holding(p)' => disp'[p] = disp[p]
    BY <2>1 DEF Holding
  <2> QED
    BY <1>1, <2>1, <2>2
<1>6. ASSUME NEW c \in Consumers, Forward(c) \/ ForwardFails(c) \/ SenderStops(c) \/ Deregister(c) \/ Drained(c)
      PROVE  OnceInv'
  BY <1>2, <1>6 DEF Forward, ForwardFails, SenderStops, Deregister, Drained
<1>7. ASSUME NEW c \in Consumers, Drain(c) PROVE OnceInv'
  <2>1. PICK S \in SUBSET DOMAIN inFlight : Take(<<"drain", c>>, S, "enq")
    BY <1>7 DEF Drain, TakeOne
  <2>2. UNCHANGED <<topic, disp>> /\ <<"drain", c>> \in Threads
    BY <1>7 DEF Drain, Threads
  <2> QED
    BY <2>1, <2>2, TakeOnce
<1>8. ASSUME NEW c \in Consumers, NEW id \in Ids, Ack(c, id) \/ Nack(c, id) PROVE OnceInv'
  <2>1. UNCHANGED <<topic, disp>> /\ <<"recv", c>> \in Threads
    BY <1>8 DEF Ack, Nack, Answered, Threads
  <2>2. PICK next \in {"tomb", "enq"} : TakeOne(<<"recv", c>>, id, next)
    BY <1>8 DEF Ack, Nack
  <2>3. PICK S \in SUBSET DOMAIN inFlight : Take(<<"recv", c>>, S, next)
    BY <2>2 DEF TakeOne
  <2> QED
    BY <2>1, <2>3, TakeOnce
<1>9. ASSUME BeginShutdown \/ UNCHANGED vars \/ \E q \in Queues : Compact(q) PROVE OnceInv'
  BY <1>2, <1>9 DEF BeginShutdown, Compact, vars
<1> QED
  BY <1>3, <1>4, <1>5, <1>6, <1>7, <1>8, <1>9, StepOnce, DispatchOnce, ExpireOnce, PublishOnce
     DEF Next, DlqScan, StepOrFail

(* One place at most in each part, and one part at most: one copy. *)
LEMMA OnceIsOneCopy ==
  ASSUME OnceInv
  PROVE  OneCopy
<1> SUFFICES ASSUME NEW id \in Ids, NEW x \in Copies(id), NEW y \in Copies(id) PROVE x = y
  BY DEF OneCopy
<1> DEFINE T == UNION {{<<"topic", q, i>> : i \in {j \in DOMAIN topic[q] : topic[q][j].id = id}} :
                         q \in Queues}
           D == {<<"disp", q>> : q \in {p \in Queues :
                    disp[p].pc \in {"hold", "pick", "register"} /\ disp[p].msg.id = id}}
           F == {<<"inFlight">> : z \in {id} \cap DOMAIN inFlight}
           W == UNION {{<<"work", t, k>> : k \in {j \in work[t] : j.msg.id = id}} : t \in Threads}
<1>1. \A z \in Copies(id) :
        \/ InTopic(id) /\ \E q \in Queues : \E i \in DOMAIN topic[q] :
                            topic[q][i].id = id /\ z = <<"topic", q, i>>
        \/ AtDispatcher(id) /\ \E q \in Queues : Holding(q) /\ disp[q].msg.id = id /\ z = <<"disp", q>>
        \/ id \in DOMAIN inFlight /\ z = <<"inFlight">>
        \/ InWork(id) /\ \E t \in Threads : \E k \in work[t] : k.msg.id = id /\ z = <<"work", t, k>>
  <2>1. \A z \in T : InTopic(id) /\ \E q \in Queues : \E i \in DOMAIN topic[q] :
                                     topic[q][i].id = id /\ z = <<"topic", q, i>>
    BY DEF InTopic
  <2>2. \A z \in D : AtDispatcher(id) /\ \E q \in Queues :
                                     Holding(q) /\ disp[q].msg.id = id /\ z = <<"disp", q>>
    BY DEF AtDispatcher, Holding
  <2>3. \A z \in F : id \in DOMAIN inFlight /\ z = <<"inFlight">>
    OBVIOUS
  <2>4. \A z \in W : InWork(id) /\ \E t \in Threads : \E k \in work[t] :
                                     k.msg.id = id /\ z = <<"work", t, k>>
    <3>1. \A z \in W : \E t \in Threads : \E k \in work[t] : k.msg.id = id /\ z = <<"work", t, k>>
      OBVIOUS
    <3> HIDE DEF W
    <3> QED
      BY <3>1 DEF InWork
  <2>5. Copies(id) = T \cup D \cup F \cup W
    BY Zenon DEF Copies
  <2> HIDE DEF T, D, F, W
  <2> QED
    BY <2>1, <2>2, <2>3, <2>4, <2>5
<1>2. CASE InTopic(id)
  BY <1>1, <1>2, SMTT(30) DEF OnceInv, TopicOnce, Apart
<1>3. CASE AtDispatcher(id)
  BY <1>1, <1>3 DEF OnceInv, DispOnce, Apart
<1>4. CASE id \in DOMAIN inFlight
  BY <1>1, <1>4 DEF OnceInv, Apart
<1>5. CASE InWork(id)
  BY <1>1, <1>5, SMT DEF OnceInv, WorkOnce, Apart
<1> QED
  BY <1>1, <1>2, <1>3, <1>4, <1>5
-----------------------------------------------------------------------------
(* Up to a first restart no step restarts the process. *)
LEMMA FirstRun ==
  ASSUME TInv, [Next]_vars, crashes' = 0
  PROVE  ~CrashRestart /\ crashes = 0
<1>1. crashes \in Nat
  BY BrokerConstants, SMTT(30) DEF TInv, TypeOK
<1>2. ~CrashRestart
  BY <1>1, SMTT(30) DEF CrashRestart
<1>3. ASSUME NEW t \in Threads, NEW k \in work[t], StepOrFail(t, k) PROVE crashes' = crashes
  BY <1>3 DEF StepOrFail, Step, EnqueueCheck, EnqueueWal, EnqueueRejected, EnqueueFails, EnqueueTopic,
     DecrementInFlight, WriteTombstone, WriteTombstoneFails
<1>4. ASSUME NEW q \in Queues, Dispatch(q) PROVE crashes' = crashes
  BY <1>4, ZenonT(40) DEF Dispatch, Dequeue, FindEligible, IncrementInFlight, Register, Send
<1>5. ASSUME NEW q \in Queues, Compact(q) PROVE crashes' = crashes
  BY <1>5 DEF Compact
<1>6. ASSUME NEW id \in Ids, NEW q \in Queues, Publish(id, q) PROVE crashes' = crashes
  BY <1>6 DEF Publish
<1>7. ASSUME NEW c \in Consumers, NEW id \in Ids, Ack(c, id) \/ Nack(c, id)
      PROVE  crashes' = crashes
  BY <1>7 DEF Ack, Nack, Answered
<1>8. ASSUME NEW c \in Consumers,
             \/ \E q \in 0..(MaxDepth - 1) : Subscribe(c, q)
             \/ Forward(c) \/ ForwardFails(c) \/ SenderStops(c) \/ Deregister(c)
             \/ Drain(c) \/ Drained(c)
      PROVE  crashes' = crashes
  BY <1>8 DEF Subscribe, Forward, ForwardFails, SenderStops, Deregister, Drain, Drained
<1>9. ASSUME TimeoutScan \/ DlqScan \/ BeginShutdown PROVE crashes' = crashes
  BY <1>9 DEF TimeoutScan, ScanAndTimeout, DlqScan, ExpireDLQPending, ExpireDLQInFlight, BeginShutdown
<1>10. crashes' = crashes
  BY <1>2, <1>3, <1>4, <1>5, <1>6, <1>7, <1>8, <1>9 DEF Next, StepOrFail, vars
<1> QED
  BY <1>2, <1>10

(* No copy is there yet. *)
LEMMA OnceInit == Init => OnceInv
<1> SUFFICES ASSUME Init PROVE OnceInv
  OBVIOUS
<1>1. /\ DOMAIN <<>> = {} /\ DOMAIN inFlight = {}
      /\ \A q \in Queues : topic[q] = <<>> /\ ~Holding(q)
      /\ \A t \in Threads : work[t] = {}
  BY SMT DEF Init, Holding
<1>2. \A id \in Ids : ~InTopic(id) /\ ~AtDispatcher(id) /\ ~InWork(id)
  BY <1>1 DEF InTopic, AtDispatcher, Holding, InWork
<1> QED
  BY <1>1, <1>2 DEF OnceInv, TopicOnce, DispOnce, WorkOnce, Apart

(* The inductive invariant of the first run of the process. *)
LEMMA OnceInvariant == Spec => [](crashes = 0 => OnceInv)
<1>1. Init => OnceInv
  BY OnceInit
<1>2. TInv /\ LogInv /\ KeyInv /\ MsgInv /\ (crashes = 0 => OnceInv) /\ [Next]_vars
        => (crashes = 0 => OnceInv)'
  BY FirstRun, OnceStep DEF LogInv
<1> QED
  BY <1>1, <1>2, TypeInvariant, LogInvariant, KnownInvariant, PTL DEF Spec

(***************************************************************************)
(* Until the process restarts there is one copy of a message at most, in   *)
(* topics, dispatchers, the in-flight map and goroutines together, for any *)
(* numbers of messages, consumers, retries and failing writes.             *)
(***************************************************************************)
THEOREM OneCopyUntilRestart == Spec => [](crashes = 0 => OneCopy)
<1>1. (crashes = 0 => OnceInv) => (crashes = 0 => OneCopy)
  BY OnceIsOneCopy
<1> QED
  BY <1>1, OnceInvariant, PTL
=============================================================================
