--------------------------- MODULE DeliveryProofs ---------------------------
(***************************************************************************)
(* What the clients of the broker can count on.  Nothing published is      *)
(* forgotten; a tombstone is written only for a message that is due;       *)
(* Broker implements AtLeastOnce.  And as long as the process has not      *)
(* restarted no log is ahead of the one copy of a message: dead-lettered   *)
(* messages stay out of the main queue, retry counts are kept.             *)
(***************************************************************************)
EXTENDS BrokerContract, MessageProofs

\* Most leaves are first-order; those that need arithmetic or sequences cite SMT.
USE Zenon

\* The steps that let go of the message of a task.
LetGo(t, k) ==
  \/ WriteTombstone(t, k) \/ WriteTombstoneFails(t, k)
  \/ EnqueueRejected(t, k) \/ EnqueueFails(t, k)

(* A goroutine's step touches only the message of its task, and lets go of *)
(* it only by settling it or by failing to enqueue it.                     *)
LEMMA StepHeld ==
  ASSUME TInv, NEW t \in Threads, NEW k \in work[t],
         Step(t, k) \/ EnqueueFails(t, k) \/ WriteTombstoneFails(t, k)
  PROVE  /\ Held(k.msg.id)
         /\ \A id \in Ids : id # k.msg.id => (Held(id)' <=> Held(id))
         /\ LetGo(t, k) \/ Held(k.msg.id)'
<1>0. /\ k \in Task /\ k.msg \in Message /\ k.msg.id \in Ids /\ k.msg.queue \in Queues
      /\ work \in [Threads -> SUBSET Task]
  BY SMT DEF TInv, TypeOK, Task, Message
<1>1. UNCHANGED <<disp, inFlight>>
  BY DEF Step, EnqueueCheck, EnqueueWal, EnqueueRejected, EnqueueFails, EnqueueTopic,
         DecrementInFlight, WriteTombstone, WriteTombstoneFails
<1>2. \A u \in Threads : \A j \in work[u] : j = k \/ j \in work'[u]
  BY <1>0 DEF Step, EnqueueCheck, EnqueueWal, EnqueueRejected, EnqueueFails, EnqueueTopic,
         DecrementInFlight, WriteTombstone, WriteTombstoneFails
<1>3. AfterDecrement(k).msg.id = k.msg.id
  BY <1>0 DEF AfterDecrement, Requeued, Message
<1>4. \A u \in Threads : \A j \in work'[u] : j \in work[u] \/ j.msg.id = k.msg.id
  <2>1. CASE DecrementInFlight(t, k)
    BY <1>0, <1>3, <2>1, ZenonT(40) DEF DecrementInFlight
  <2>2. CASE ~DecrementInFlight(t, k)
    BY SMTT(30), <1>0, <2>2 DEF Step, EnqueueCheck, EnqueueWal, EnqueueRejected, EnqueueFails, EnqueueTopic,
       WriteTombstone, WriteTombstoneFails
  <2> QED
    BY <2>1, <2>2
<1>5. /\ \A id \in Ids : InTopic(id) => InTopic(id)'
      /\ \A id \in Ids : InTopic(id)' /\ id # k.msg.id => InTopic(id)
      /\ EnqueueTopic(t, k) => InTopic(k.msg.id)'
  <2>1. CASE EnqueueTopic(t, k)
    <3>1. topic \in [Queues -> Seq(Message)] /\ topic[k.msg.queue] \in Seq(Message)
      BY <1>0 DEF TInv, TypeOK
    <3>2. topic' = [topic EXCEPT ![k.msg.queue] = Append(@, k.msg)]
      BY <2>1 DEF EnqueueTopic
    <3>3. /\ \A q \in Queues : \A i \in DOMAIN topic[q] :
               i \in DOMAIN topic'[q] /\ topic'[q][i] = topic[q][i]
          /\ \A q \in Queues : \A i \in DOMAIN topic'[q] :
               (i \in DOMAIN topic[q] /\ topic'[q][i] = topic[q][i])
                 \/ (q = k.msg.queue /\ topic'[q][i] = k.msg)
          /\ \E i \in DOMAIN topic'[k.msg.queue] : topic'[k.msg.queue][i] = k.msg
      <4> DEFINE q0 == k.msg.queue
                 m == k.msg
                 g == topic'
      <4>1. /\ topic \in [Queues -> Seq(Message)] /\ q0 \in Queues /\ m \in Message
            /\ g = [topic EXCEPT ![q0] = Append(@, m)]
        BY <1>0, <3>1, <3>2
      <4> HIDE DEF q0, m, g
      <4>2. /\ \A q \in Queues : \A i \in DOMAIN topic[q] :
                 i \in DOMAIN g[q] /\ g[q][i] = topic[q][i]
            /\ \A q \in Queues : \A i \in DOMAIN g[q] :
                 (i \in DOMAIN topic[q] /\ g[q][i] = topic[q][i]) \/ (q = q0 /\ g[q][i] = m)
            /\ \E i \in DOMAIN g[q0] : g[q0][i] = m
        BY <4>1, PutFacts, SMTT(30)
      <4> QED
        BY <4>2 DEF q0, m, g
    <3>4. \A id \in Ids : InTopic(id) => InTopic(id)'
      BY <3>3, SMT DEF InTopic
    <3>5. \A id \in Ids : InTopic(id)' /\ id # k.msg.id => InTopic(id)
      BY <3>3, SMTT(30) DEF InTopic
    <3>6. InTopic(k.msg.id)'
      BY <1>0, <3>3, ZenonT(40) DEF InTopic
    <3> QED
      BY <3>4, <3>5, <3>6
  <2>2. CASE ~EnqueueTopic(t, k)
    <3>1. topic' = topic
      BY <2>2 DEF Step, EnqueueCheck, EnqueueWal, EnqueueRejected, EnqueueFails,
         DecrementInFlight, WriteTombstone, WriteTombstoneFails
    <3> QED
      BY <2>2, <3>1 DEF InTopic
  <2> QED
    BY <2>1, <2>2
<1>6. ASSUME NEW id \in Ids, id # k.msg.id PROVE Held(id)' <=> Held(id)
  <2>1. InWork(id)' <=> InWork(id)
    BY <1>2, <1>4, <1>6 DEF InWork
  <2>2. AtDispatcher(id)' <=> AtDispatcher(id)
    BY <1>1 DEF AtDispatcher
  <2> QED
    BY <1>1, <1>5, <1>6, <2>1, <2>2 DEF Held
<1>7. LetGo(t, k) \/ Held(k.msg.id)'
  <2>1. CASE EnqueueCheck(t, k) \/ EnqueueWal(t, k)
    <3>1. PICK st \in {"wal", "topic"} : [step |-> st, msg |-> k.msg] \in work'[t]
      BY <2>1, <1>0 DEF EnqueueCheck, EnqueueWal
    <3> QED
      BY <3>1 DEF Held, InWork
  <2>2. CASE DecrementInFlight(t, k)
    <3>1. AfterDecrement(k) \in work'[t]
      BY <2>2, <1>0 DEF DecrementInFlight
    <3> QED
      BY <1>3, <3>1 DEF Held, InWork
  <2>3. CASE EnqueueTopic(t, k)
    BY <1>5, <2>3 DEF Held
  <2> QED
    BY <2>1, <2>2, <2>3 DEF Step, LetGo
<1>8. Held(k.msg.id)
  BY DEF Held, InWork
<1> QED
  BY <1>6, <1>7, <1>8

(* A dispatcher hands a message from the topic to the in-flight map. *)
LEMMA DispatchHeld ==
  ASSUME TInv, NEW q \in Queues, Dispatch(q)
  PROVE  \A id \in Ids : Held(id)' <=> Held(id)
<1>0. disp \in [Queues -> Dispatcher] /\ topic \in [Queues -> Seq(Message)]
  BY DEF TInv, TypeOK
<1>1. UNCHANGED work /\ \A p \in Queues : p # q => disp'[p] = disp[p]
  BY <1>0 DEF Dispatch, Dequeue, FindEligible, IncrementInFlight, Register, Send
<1>2. ASSUME NEW id \in Ids, Held(id) PROVE Held(id)'
  <2>1. CASE InWork(id)
    BY <2>1, <1>1 DEF InWork, Held
  <2>2. CASE id \in DOMAIN inFlight
    <3>1. id \in DOMAIN inFlight'
      BY <2>2 DEF Dispatch, Dequeue, FindEligible, IncrementInFlight, Register, Send
    <3> QED
      BY <3>1 DEF Held
  <2>3. CASE InTopic(id)
    <3>0. PICK p \in Queues : \E i \in DOMAIN topic[p] : topic[p][i].id = id
      BY <2>3 DEF InTopic
    <3>1. PICK i \in DOMAIN topic[p] : topic[p][i].id = id
      BY <3>0
    <3>2. CASE Dequeue(q) /\ p = q
      <4>1. topic[q] \in Seq(Message) /\ topic[q] # <<>> /\ topic'[q] = Tail(topic[q])
              /\ disp'[q] = [pc |-> "hold", msg |-> Head(topic[q])]
        BY <3>2, <1>0 DEF Dequeue
      <4>2. CASE i = 1
        <5>1. disp'[q].msg.id = id /\ disp'[q].pc = "hold"
          BY <3>1, <3>2, <4>1, <4>2, TailFacts, SMTT(30)
        <5> QED
          BY <5>1 DEF AtDispatcher, Held
      <4>3. CASE i # 1
        <5>1. PICK j \in DOMAIN topic'[q] : topic'[q][j] = topic[q][i]
          BY <3>1, <3>2, <4>1, <4>3, TailFacts, SMTT(30)
        <5> QED
          BY <3>1, <3>2, <5>1 DEF InTopic, Held
      <4> QED
        BY <4>2, <4>3
    <3>3. CASE ~(Dequeue(q) /\ p = q)
      <4>1. topic'[p] = topic[p]
        BY <3>3, <1>0 DEF Dispatch, Dequeue, FindEligible, IncrementInFlight, Register, Send
      <4> QED
        BY <3>1, <4>1 DEF InTopic, Held
    <3> QED
      BY <3>2, <3>3
  <2>4. CASE AtDispatcher(id)
    <3>1. PICK p \in Queues : disp[p].pc \in {"hold", "pick", "register"} /\ disp[p].msg.id = id
      BY <2>4 DEF AtDispatcher
    <3>2. CASE p # q
      BY <3>1, <3>2, <1>1 DEF AtDispatcher, Held
    <3>3. CASE p = q /\ Register(q)
      <4>1. id \in DOMAIN inFlight'
        BY <3>1, <3>3 DEF Register
      <4> QED
        BY <4>1 DEF Held
    <3>4. CASE p = q /\ (FindEligible(q) \/ IncrementInFlight(q))
      <4>1. disp'[q].pc \in {"pick", "register"} /\ disp'[q].msg = disp[q].msg
        BY <3>4, <1>0, SMTT(30) DEF FindEligible, IncrementInFlight
      <4> QED
        BY <3>1, <3>4, <4>1 DEF AtDispatcher, Held
    <3>5. CASE p = q /\ (Dequeue(q) \/ Send(q))
      BY <3>1, <3>5 DEF Dequeue, Send
    <3> QED
      BY <3>2, <3>3, <3>4, <3>5 DEF Dispatch
  <2> QED
    BY <1>2, <2>1, <2>2, <2>3, <2>4 DEF Held
<1>3. ASSUME NEW id \in Ids, Held(id)' PROVE Held(id)
  <2>1. CASE InWork(id)'
    BY <2>1, <1>1 DEF InWork, Held
  <2>2. CASE id \in DOMAIN inFlight'
    <3>1. id \in DOMAIN inFlight \/ (disp[q].pc = "register" /\ id = disp[q].msg.id)
      BY <2>2, SMTT(30) DEF Dispatch, Dequeue, FindEligible, IncrementInFlight, Register, Send
    <3> QED
      BY <3>1, ZenonT(40) DEF Held, AtDispatcher
  <2>3. CASE InTopic(id)'
    <3>1. \A p \in Queues : topic'[p] = topic[p]
            \/ (topic[p] # <<>> /\ topic[p] \in Seq(Message) /\ topic'[p] = Tail(topic[p]))
      BY <1>0 DEF Dispatch, Dequeue, FindEligible, IncrementInFlight, Register, Send
    <3>2. \A p \in Queues : \A i \in DOMAIN topic'[p] : \E j \in DOMAIN topic[p] : topic'[p][i] = topic[p][j]
      <4> TAKE p \in Queues
      <4>1. CASE topic'[p] = topic[p]
        BY <4>1
      <4>2. CASE topic'[p] # topic[p]
        <5>1. topic[p] # <<>> /\ topic[p] \in Seq(Message) /\ topic'[p] = Tail(topic[p])
          BY <3>1, <4>2
        <5>2. \A i \in DOMAIN Tail(topic[p]) : \E j \in DOMAIN topic[p] : Tail(topic[p])[i] = topic[p][j]
          BY <5>1, TailFacts, ZenonT(40)
        <5> QED
          BY <5>1, <5>2, Zenon
      <4> QED
        BY <4>1, <4>2
    <3> QED
      BY <2>3, <3>2, SMT DEF InTopic, Held
  <2>4. CASE AtDispatcher(id)'
    <3>1. PICK p \in Queues : disp'[p].pc \in {"hold", "pick", "register"} /\ disp'[p].msg.id = id
      BY <2>4 DEF AtDispatcher
    <3>2. CASE p # q
      BY <3>1, <3>2, <1>1 DEF AtDispatcher, Held
    <3>3. CASE p = q /\ Dequeue(q)
      <4>1. topic[q] \in Seq(Message) /\ topic[q] # <<>> /\ disp'[q].msg = Head(topic[q])
        BY <3>3, <1>0 DEF Dequeue
      <4>2. 1 \in DOMAIN topic[q] /\ topic[q][1].id = id
        BY <3>1, <3>3, <4>1, TailFacts
      <4> QED
        BY <4>2 DEF InTopic, Held
    <3>4. CASE p = q /\ ~Dequeue(q)
      <4>1. disp[q].pc \in {"hold", "pick", "register"} /\ disp'[q].msg = disp[q].msg
        BY <3>1, <3>4, <1>0, SMTT(30) DEF Dispatch, FindEligible, IncrementInFlight, Register, Send
      <4> QED
        BY <3>1, <3>4, <4>1 DEF AtDispatcher, Held
    <3> QED
      BY <3>2, <3>3, <3>4
  <2> QED
    BY <1>3, <2>1, <2>2, <2>3, <2>4 DEF Held
<1> QED
  BY <1>2, <1>3

(* Entries taken from the in-flight map are held as tasks. *)
LEMMA TakeHeld ==
  ASSUME TInv, KeyInv, NEW t \in Threads, NEW S \in SUBSET DOMAIN inFlight,
         NEW next \in {"tomb", "enq"}, Take(t, S, next), UNCHANGED <<topic, disp>>
  PROVE  \A id \in Ids : Held(id)' <=> Held(id)
<1>0. work \in [Threads -> SUBSET Task]
  BY DEF TInv, TypeOK
<1>1. DOMAIN inFlight' = DOMAIN inFlight \ S /\ \A u \in Threads : work[u] \subseteq work'[u]
  BY <1>0 DEF Take
<1>2. \A id \in S : \E j \in work'[t] : j.msg = inFlight[id].msg
  <2>1. \A id \in S : [step |-> "dec", next |-> next, msg |-> inFlight[id].msg,
                       con |-> inFlight[id].con] \in work'[t]
    BY <1>0 DEF Take
  <2> QED
    BY <2>1, ZenonT(40)
<1>3. ASSUME NEW id \in Ids, Held(id) PROVE Held(id)'
  <2>1. CASE InWork(id)
    BY <2>1, <1>1 DEF InWork, Held
  <2>2. CASE id \in DOMAIN inFlight
    BY <2>2, <1>1, <1>2 DEF InWork, Held, KeyInv
  <2>3. CASE InTopic(id) \/ AtDispatcher(id)
    BY <2>3 DEF InTopic, AtDispatcher, Held
  <2> QED
    BY <1>3, <2>1, <2>2, <2>3 DEF Held
<1>4. \A u \in Threads : \A j \in work'[u] : j \in work[u] \/ \E id \in S : j.msg = inFlight[id].msg
  <2> DEFINE new == {[step |-> "dec", next |-> next, msg |-> inFlight[id].msg,
                      con |-> inFlight[id].con] : id \in S}
  <2>1. work' = [work EXCEPT ![t] = @ \cup new]
    BY DEF Take
  <2>2. \A j \in new : \E id \in S : j.msg = inFlight[id].msg
    BY SMTT(30)
  <2> HIDE DEF new
  <2>3. \A u \in Threads : \A j \in work'[u] : j \in work[u] \/ j \in new
    BY <1>0, <2>1
  <2> QED
    BY <2>2, <2>3
<1>5. ASSUME NEW id \in Ids, Held(id)' PROVE Held(id)
  <2>1. CASE InWork(id)'
    <3>1. InWork(id) \/ id \in S
      BY <2>1, <1>4, SMT DEF InWork, KeyInv
    <3> QED
      BY <3>1 DEF Held
  <2>2. CASE id \in DOMAIN inFlight'
    BY <2>2, <1>1 DEF Held
  <2>3. CASE InTopic(id)' \/ AtDispatcher(id)'
    BY <2>3 DEF InTopic, AtDispatcher, Held
  <2> QED
    BY <1>5, <2>1, <2>2, <2>3 DEF Held
<1> QED
  BY <1>3, <1>5

(* The DLQ scanner turns what it takes from a topic into tasks. *)
LEMMA ExpireHeld ==
  ASSUME TInv, NEW q \in Queues, NEW S \in SUBSET DOMAIN topic[q], ExpireDLQPending(q, S)
  PROVE  \A id \in Ids : Held(id)' <=> Held(id)
<1> DEFINE scan == <<"scan", "dlqttl">>
           kept == DOMAIN topic[q] \ S
<1>0. /\ work \in [Threads -> SUBSET Task] /\ topic \in [Queues -> Seq(Message)]
      /\ scan \in Threads
  BY DEF TInv, TypeOK, Threads
<1>1. /\ UNCHANGED <<disp, inFlight>>
      /\ topic'[q] = Select(topic[q], kept) /\ \A p \in Queues : p # q => topic'[p] = topic[p]
      /\ work[scan] = {} /\ \A u \in Threads : u # scan => work'[u] = work[u]
      /\ work'[scan] = {[step |-> "tomb", msg |-> topic[q][i]] : i \in S}
  BY <1>0 DEF ExpireDLQPending
<1>2. /\ \A i \in kept : \E j \in DOMAIN topic'[q] : topic'[q][j] = topic[q][i]
      /\ \A j \in DOMAIN topic'[q] : \E i \in kept : topic'[q][j] = topic[q][i]
  <2>1. topic[q] \in Seq(Message) /\ kept \in SUBSET DOMAIN topic[q]
    BY <1>0
  <2>2. /\ \A i \in kept : \E j \in DOMAIN Select(topic[q], kept) :
             Select(topic[q], kept)[j] = topic[q][i]
        /\ \A j \in DOMAIN Select(topic[q], kept) : \E i \in kept :
             Select(topic[q], kept)[j] = topic[q][i]
    BY <2>1, SelectProperties, ZenonT(40)
  <2> QED
    BY <1>1, <2>2, ZenonT(40)
<1>3. ASSUME NEW id \in Ids, InTopic(id) PROVE InTopic(id)' \/ InWork(id)'
  <2>0. PICK p \in Queues : \E i \in DOMAIN topic[p] : topic[p][i].id = id
    BY <1>3 DEF InTopic
  <2>1. PICK i \in DOMAIN topic[p] : topic[p][i].id = id
    BY <2>0
  <2>2. CASE p # q
    BY <1>1, <2>1, <2>2 DEF InTopic
  <2>3. CASE p = q /\ i \in S
    <3>1. [step |-> "tomb", msg |-> topic[q][i]] \in work'[scan]
      BY <1>1, <2>3
    <3> QED
      BY <1>0, <2>1, <2>3, <3>1 DEF InWork
  <2>4. CASE p = q /\ i \notin S
    <3>1. PICK j \in DOMAIN topic'[q] : topic'[q][j] = topic[q][i]
      BY <1>2, <2>4
    <3> QED
      BY <2>1, <2>4, <3>1 DEF InTopic
  <2> QED
    BY <2>2, <2>3, <2>4
<1>4. \A id \in Ids : InWork(id) => InWork(id)'
  BY <1>1 DEF InWork
<1>5. ASSUME NEW id \in Ids, InTopic(id)' PROVE InTopic(id)
  <2>1. PICK p \in Queues : \E j \in DOMAIN topic'[p] : topic'[p][j].id = id
    BY <1>5 DEF InTopic
  <2>2. CASE p # q
    BY <1>1, <2>1, <2>2 DEF InTopic
  <2>3. CASE p = q
    <3>1. PICK j \in DOMAIN topic'[q] : topic'[q][j].id = id
      BY <2>1, <2>3
    <3>2. PICK i \in kept : topic'[q][j] = topic[q][i]
      BY <1>2
    <3> QED
      BY <3>1, <3>2 DEF InTopic
  <2> QED
    BY <2>2, <2>3
<1>6. ASSUME NEW id \in Ids, InWork(id)' PROVE InWork(id) \/ InTopic(id)
  <2>1. PICK u \in Threads : \E k \in work'[u] : k.msg.id = id
    BY <1>6 DEF InWork
  <2>2. CASE u = scan
    <3>1. PICK i \in S : topic[q][i].id = id
      BY <1>1, <2>1, <2>2, SMTT(30)
    <3> QED
      BY <3>1 DEF InTopic
  <2>3. CASE u # scan
    BY <1>1, <2>1, <2>3 DEF InWork
  <2> QED
    BY <2>2, <2>3
<1>7. \A id \in Ids : AtDispatcher(id)' <=> AtDispatcher(id)
  BY <1>1 DEF AtDispatcher
<1> QED
  BY <1>1, <1>3, <1>4, <1>5, <1>6, <1>7 DEF Held

(* A Publish call takes hold of its message and of no other. *)
LEMMA PublishHeld ==
  ASSUME TInv, PublishTasks, NEW id \in Ids, NEW q \in Queues, Publish(id, q)
  PROVE  Held(id)' /\ \A i \in Ids : i # id => (Held(i)' <=> Held(i))
<1> DEFINE p == <<"publish", id>>
<1>0. work \in [Threads -> SUBSET Task] /\ p \in Threads
  BY DEF TInv, TypeOK, Threads, Publishers
<1>1. /\ UNCHANGED <<topic, disp, inFlight>>
      /\ \A u \in Threads : u # p => work'[u] = work[u]
      /\ work'[p] = {[step |-> "enq", msg |-> [id |-> id, queue |-> q, retry |-> 0]]}
  BY <1>0 DEF Publish
<1>2. (\A j \in work[p] : j.msg.id = id) /\ (\A j \in work'[p] : j.msg.id = id)
  BY <1>1, SMTT(30) DEF PublishTasks
<1>3. \A i \in Ids : i # id => (InWork(i)' <=> InWork(i))
  BY <1>1, <1>2 DEF InWork
<1>4. Held(id)'
  <2>1. [step |-> "enq", msg |-> [id |-> id, queue |-> q, retry |-> 0]] \in work'[p]
    BY <1>1
  <2> QED
    BY <1>0, <1>2, <2>1 DEF Held, InWork
<1>5. \A i \in Ids : (InTopic(i)' <=> InTopic(i)) /\ (AtDispatcher(i)' <=> AtDispatcher(i))
  BY <1>1 DEF InTopic, AtDispatcher
<1> QED
  BY <1>1, <1>3, <1>4, <1>5 DEF Held

(* A restart finds in the log what is published and not settled, and holds *)
(* nothing that the log does not have.                                     *)
LEMMA RestartHeld ==
  ASSUME TInv, LogInv, CrashRestart
  PROVE  /\ \A id \in Ids : pub[id] = "ok" /\ id \notin settled => Held(id)'
         /\ \A id \in Ids : Held(id)' => InTopic(id)'
<1>1. ASSUME NEW id \in Ids, pub[id] = "ok", id \notin settled PROVE InTopic(id)'
  <2>1. PICK q \in Queues : InLog(wal[q], id)
    BY <1>1, ZenonT(40) DEF LogInv, PublishedInLog, OnRecord
  <2>2. InLog(Replay(wal[q]), id)
    BY <1>1, <2>1, ReplayKeeps DEF LogInv
  <2>3. topic'[q] = Replayed(q)
    BY DEF CrashRestart
  <2>4. \E k \in DOMAIN Replayed(q) : Replayed(q)[k].id = id
    BY <2>2 DEF InLog, Replayed
  <2> QED
    BY <2>3, <2>4 DEF InTopic
<1>2. /\ DOMAIN inFlight' = {} /\ \A t \in Threads : work'[t] = {}
      /\ \A q \in Queues : disp'[q].pc = "off"
  BY DEF CrashRestart
<1>3. \A id \in Ids : Held(id)' => InTopic(id)'
  BY <1>2 DEF Held, AtDispatcher, InWork
<1> QED
  BY <1>1, <1>3 DEF Held

(* No other step takes hold of a message or loses it. *)
LEMMA OtherHeld ==
  ASSUME TInv, KeyInv, [Next]_vars, ~CrashRestart,
         ~ \E id \in Ids, q \in Queues : Publish(id, q),
         ~ \E t \in Threads : \E k \in work[t] :
             Step(t, k) \/ EnqueueFails(t, k) \/ WriteTombstoneFails(t, k),
         ~ \E q \in Queues : Dispatch(q)
  PROVE  /\ \A id \in Ids : Held(id)' <=> Held(id)
         /\ UNCHANGED <<pub, settled, lost, dead, faults>>
<1> DEFINE Same == /\ \A id \in Ids : Held(id)' <=> Held(id)
                   /\ UNCHANGED <<pub, settled, lost, dead, faults>>
<1> HIDE DEF Same
<1>0. /\ <<"scan", "timeout">> \in Threads /\ <<"scan", "dlqttl">> \in Threads
      /\ \A c \in Consumers : <<"recv", c>> \in Threads /\ <<"drain", c>> \in Threads
  BY DEF Threads
<1>1. ASSUME UNCHANGED <<topic, inFlight, work, pub, settled, lost, dead, faults>>,
             \A q \in Queues : disp'[q] = disp[q] \/ (disp[q].pc = "off" /\ disp'[q].pc = "dequeue")
      PROVE  Same
  BY <1>1 DEF Held, InTopic, AtDispatcher, InWork, Same
<1>2. ASSUME NEW t \in Threads, NEW S \in SUBSET DOMAIN inFlight, NEW next \in {"tomb", "enq"},
             Take(t, S, next), UNCHANGED <<topic, disp, pub, settled, lost, dead, faults>>
      PROVE  Same
  BY <1>2, TakeHeld DEF Same
<1>3. ASSUME NEW q \in Queues, Compact(q) PROVE Same
  BY <1>1, <1>3 DEF Compact
<1>4. ASSUME TimeoutScan PROVE Same
  <2>1. PICK S \in SUBSET DOMAIN inFlight : ScanAndTimeout(S)
    BY <1>4 DEF TimeoutScan
  <2>2. /\ Take(<<"scan", "timeout">>, S, "enq")
        /\ UNCHANGED <<topic, disp, pub, settled, lost, dead, faults>>
    BY <2>1 DEF ScanAndTimeout
  <2> QED
    BY <1>0, <1>2, <2>2
<1>5. ASSUME NEW S \in SUBSET DOMAIN inFlight, ExpireDLQInFlight(S) PROVE Same
  <2>1. /\ Take(<<"scan", "dlqttl">>, S, "tomb")
        /\ UNCHANGED <<topic, disp, pub, settled, lost, dead, faults>>
    BY <1>5 DEF ExpireDLQInFlight
  <2> QED
    BY <1>0, <1>2, <2>1
<1>6. ASSUME NEW q \in Queues, NEW S \in SUBSET DOMAIN topic[q], ExpireDLQPending(q, S)
      PROVE  Same
  BY <1>6, ExpireHeld DEF ExpireDLQPending, Same
<1>7. ASSUME NEW c \in Consumers, NEW q \in 0..(MaxDepth - 1), Subscribe(c, q) PROVE Same
  <2>1. /\ UNCHANGED <<topic, inFlight, work, pub, settled, lost, dead, faults>>
        /\ \A p \in Queues : disp'[p] = disp[p] \/ (disp[p].pc = "off" /\ disp'[p].pc = "dequeue")
    BY <1>7 DEF Subscribe, TInv, TypeOK
  <2> QED
    BY <1>1, <2>1
<1>8. ASSUME NEW c \in Consumers,
             Forward(c) \/ ForwardFails(c) \/ SenderStops(c) \/ Deregister(c) \/ Drained(c)
      PROVE  Same
  BY <1>1, <1>8 DEF Forward, ForwardFails, SenderStops, Deregister, Drained
<1>9. ASSUME NEW c \in Consumers, Drain(c) PROVE Same
  <2>1. PICK S \in SUBSET DOMAIN inFlight : Take(<<"drain", c>>, S, "enq")
    BY <1>9 DEF Drain, TakeOne
  <2>2. UNCHANGED <<topic, disp, pub, settled, lost, dead, faults>>
    BY <1>9 DEF Drain
  <2> QED
    BY <1>0, <1>2, <2>1, <2>2
<1>10. ASSUME NEW c \in Consumers, NEW id \in Ids, Ack(c, id) \/ Nack(c, id) PROVE Same
  <2>1. UNCHANGED <<topic, disp, pub, settled, lost, dead, faults>>
    BY <1>10 DEF Ack, Nack, Answered
  <2>2. PICK next \in {"tomb", "enq"} : TakeOne(<<"recv", c>>, id, next)
    BY <1>10 DEF Ack, Nack
  <2>3. PICK S \in SUBSET DOMAIN inFlight : Take(<<"recv", c>>, S, next)
    BY <2>2 DEF TakeOne
  <2>4. <<"recv", c>> \in Threads
    BY <1>0, ZenonT(40)
  <2> QED
    BY <1>2, <2>1, <2>3, <2>4
<1>11. ASSUME BeginShutdown \/ UNCHANGED vars PROVE Same
  BY <1>1, <1>11 DEF BeginShutdown, vars
<1>12. Same
  BY <1>3, <1>4, <1>5, <1>6, <1>7, <1>8, <1>9, <1>10, <1>11 DEF Next, DlqScan
<1> QED
  BY <1>12 DEF Same

FInv == LogInv /\ KeyInv /\ NothingForgotten

(* What is owed stays held, or is let go by settling it or by a failure. *)
LEMMA HeldStep ==
  ASSUME TInv, FInv, [Next]_vars
  PROVE  NothingForgotten'
<1>1. ASSUME NEW t \in Threads, NEW k \in work[t],
             Step(t, k) \/ EnqueueFails(t, k) \/ WriteTombstoneFails(t, k)
      PROVE  NothingForgotten'
  <2>1. /\ settled \subseteq settled' /\ lost \subseteq lost'
        /\ LetGo(t, k) => k.msg.id \in settled' \cup lost'
    BY <1>1 DEF Step, EnqueueCheck, EnqueueWal, EnqueueRejected, EnqueueFails, EnqueueTopic,
       DecrementInFlight, WriteTombstone, WriteTombstoneFails, LetGo
  <2>2. pub \in [Ids -> {"new", "busy", "ok", "err"}]
    BY DEF TInv, TypeOK
  <2>3. \A id \in Ids : id # k.msg.id => pub'[id] = pub[id]
    BY <1>1, <2>2 DEF Step, EnqueueCheck, EnqueueWal, EnqueueRejected, EnqueueFails, EnqueueTopic,
       DecrementInFlight, WriteTombstone, WriteTombstoneFails, Answer
  <2>4. /\ \A id \in Ids : id # k.msg.id => (Held(id)' <=> Held(id))
        /\ LetGo(t, k) \/ Held(k.msg.id)'
    BY <1>1, StepHeld
  <2> QED
    BY <2>1, <2>3, <2>4 DEF NothingForgotten, FInv
<1>2. ASSUME NEW q \in Queues, Dispatch(q) PROVE NothingForgotten'
  <2>1. UNCHANGED <<pub, settled, lost>>
    BY <1>2 DEF Dispatch, Dequeue, FindEligible, IncrementInFlight, Register, Send
  <2> QED
    BY <1>2, <2>1, DispatchHeld DEF NothingForgotten, FInv
<1>3. ASSUME NEW id \in Ids, NEW q \in Queues, Publish(id, q) PROVE NothingForgotten'
  <2>1. UNCHANGED <<settled, lost>> /\ \A i \in Ids : pub'[i] = "ok" => pub[i] = "ok" /\ i # id
    BY <1>3 DEF Publish, TInv, TypeOK
  <2> QED
    BY <1>3, <2>1, PublishHeld DEF NothingForgotten, FInv, LogInv
<1>4. CASE CrashRestart
  <2>1. UNCHANGED settled /\ \A id \in Ids : pub'[id] = "ok" => pub[id] = "ok"
    BY <1>4 DEF CrashRestart
  <2> QED
    BY <1>4, <2>1, RestartHeld DEF NothingForgotten, FInv
<1> QED
  BY <1>1, <1>2, <1>3, <1>4, OtherHeld DEF NothingForgotten, FInv

(* The inductive invariant of at-least-once delivery. *)
LEMMA DeliveryInvariant == Spec => []FInv
<1>1. Init => NothingForgotten
  BY DEF Init, NothingForgotten
<1>2. TInv /\ LogInv /\ KeyInv /\ NothingForgotten /\ [Next]_vars => NothingForgotten'
  BY HeldStep DEF FInv
<1>3. LogInv /\ KeyInv /\ NothingForgotten => FInv
  BY DEF FInv
<1> QED
  BY <1>1, <1>2, <1>3, TypeInvariant, LogInvariant, PTL DEF Spec

(***************************************************************************)
(* At-least-once: a message whose Publish returned OK is held by the       *)
(* running broker until a tombstone is written for it or an enqueue of it  *)
(* fails, and a restart takes it up again from the log.                    *)
(***************************************************************************)
THEOREM PublishedNeverForgotten == Spec => []NothingForgotten
<1>1. FInv => NothingForgotten
  BY DEF FInv
<1> QED
  BY <1>1, DeliveryInvariant, PTL
-----------------------------------------------------------------------------
\* The task ends with a tombstone.
Settling(k) == k.step = "tomb" \/ (k.step = "dec" /\ k.next = "tomb")

\* An ack took its in-flight entry, or it is a dead letter and these expire.
Due(id) == id \in acked \/ (DlqTtl /\ id \in dead)

TasksDue == \A t \in Threads : \A k \in work[t] : Settling(k) => Due(k.msg.id)
DueInv == TasksDue /\ SettledWhenDue

(* What is due stays due. *)
LEMMA DueStays ==
  ASSUME TInv, PublishTasks, MsgInv, [Next]_vars
  PROVE  \A id : Due(id) => Due(id)'
<1>1. dead \subseteq dead'
  BY KnownStays DEF MsgInv
<1>2. ASSUME NEW t \in Threads, NEW k \in work[t], StepOrFail(t, k) PROVE acked' = acked
  BY <1>2 DEF StepOrFail, Step, EnqueueCheck, EnqueueWal, EnqueueRejected, EnqueueFails, EnqueueTopic,
     DecrementInFlight, WriteTombstone, WriteTombstoneFails
<1>3. ASSUME NEW q \in Queues, Dispatch(q) \/ Compact(q) PROVE acked' = acked
  BY <1>3, ZenonT(40) DEF Dispatch, Dequeue, FindEligible, IncrementInFlight, Register, Send, Compact
<1>4. ASSUME NEW c \in Consumers, NEW id \in Ids, Ack(c, id) \/ Nack(c, id)
      PROVE  acked \subseteq acked'
  BY <1>4 DEF Ack, Nack
<1>5. ASSUME NEW c \in Consumers,
             \/ \E q \in 0..(MaxDepth - 1) : Subscribe(c, q)
             \/ Forward(c) \/ ForwardFails(c) \/ SenderStops(c) \/ Deregister(c)
             \/ Drain(c) \/ Drained(c)
      PROVE  acked' = acked
  BY <1>5 DEF Subscribe, Forward, ForwardFails, SenderStops, Deregister, Drain, Drained
<1>6. ASSUME TimeoutScan \/ DlqScan \/ BeginShutdown \/ CrashRestart PROVE acked' = acked
  BY <1>6 DEF TimeoutScan, ScanAndTimeout, DlqScan, ExpireDLQPending, ExpireDLQInFlight,
     BeginShutdown, CrashRestart
<1>7. ASSUME NEW id \in Ids, NEW q \in Queues, Publish(id, q) PROVE acked' = acked
  BY <1>7 DEF Publish
<1>8. acked \subseteq acked'
  BY <1>2, <1>3, <1>4, <1>5, <1>6, <1>7 DEF Next, StepOrFail, vars
<1> QED
  BY <1>1, <1>8 DEF Due

(* A goroutine's step writes a tombstone only for a task that is due. *)
LEMMA StepDue ==
  ASSUME TInv, PublishTasks, MsgInv, DueInv, [Next]_vars,
         NEW t \in Threads, NEW k \in work[t], StepOrFail(t, k)
  PROVE  DueInv'
<1>0. work \in [Threads -> SUBSET Task] /\ k \in Task
  BY DEF TInv, TypeOK
<1>1. \A id : Due(id) => Due(id)'
  BY DueStays
<1>2. SettledWhenDue'
  <2>1. settled' = settled \/ (k.step = "tomb" /\ settled' = settled \cup {k.msg.id})
    BY DEF StepOrFail, Step, EnqueueCheck, EnqueueWal, EnqueueRejected, EnqueueFails, EnqueueTopic,
       DecrementInFlight, WriteTombstone, WriteTombstoneFails
  <2>2. k.step = "tomb" => Due(k.msg.id)
    BY DEF DueInv, TasksDue, Settling
  <2>3. \A id \in settled' : Due(id)
    BY <2>1, <2>2 DEF DueInv, SettledWhenDue, Due
  <2>4. \A id \in settled' : Due(id)'
    BY <1>1, <2>3
  <2> QED
    BY <2>4 DEF SettledWhenDue, Due
<1>3. TasksDue'
  <2> SUFFICES ASSUME NEW u \in Threads, NEW j \in work'[u], Settling(j)
               PROVE  Due(j.msg.id)
    BY <1>1 DEF TasksDue, Settling
  <2>1. CASE j \in work[u]
    BY <2>1 DEF DueInv, TasksDue
  <2>2. CASE j \notin work[u]
    <3>1. CASE DecrementInFlight(t, k)
      <4>1. j = AfterDecrement(k) /\ k.step = "dec"
        BY <1>0, <2>2, <3>1 DEF DecrementInFlight
      <4>2. k.next = "tomb" /\ j.msg = k.msg
        BY <1>0, <4>1 DEF AfterDecrement, Settling, Task
      <4> QED
        BY <4>1, <4>2 DEF DueInv, TasksDue, Settling
    <3>2. CASE EnqueueCheck(t, k) \/ EnqueueWal(t, k)
      <4>1. j.step \in {"wal", "topic"}
        BY <1>0, <2>2, <3>2, SMTT(30) DEF EnqueueCheck, EnqueueWal
      <4> QED
        BY <4>1 DEF Settling
    <3>3. CASE ~(DecrementInFlight(t, k) \/ EnqueueCheck(t, k) \/ EnqueueWal(t, k))
      BY <1>0, <2>2, <3>3 DEF StepOrFail, Step, EnqueueRejected, EnqueueFails, EnqueueTopic,
         WriteTombstone, WriteTombstoneFails
    <3> QED
      BY <3>1, <3>2, <3>3
  <2> QED
    BY <2>1, <2>2
<1> QED
  BY <1>2, <1>3 DEF DueInv

(* Whoever takes entries for a tombstone takes due ones. *)
LEMMA TakeDue ==
  ASSUME TInv, PublishTasks, MsgInv, DueInv, [Next]_vars,
         NEW t \in Threads, NEW S \in SUBSET DOMAIN inFlight, NEW next \in {"tomb", "enq"},
         Take(t, S, next), settled' = settled,
         next = "tomb" => \A id \in S : inFlight[id].msg.id \in acked' \/ Due(inFlight[id].msg.id)
  PROVE  DueInv'
<1>0. work \in [Threads -> SUBSET Task]
  BY DEF TInv, TypeOK
<1>1. \A id : Due(id) => Due(id)'
  BY DueStays
<1>2. \A u \in Threads : \A j \in work'[u] :
        j \in work[u] \/ (j.step = "dec" /\ j.next = next /\ \E id \in S : j.msg = inFlight[id].msg)
  <2> DEFINE new == {[step |-> "dec", next |-> next, msg |-> inFlight[id].msg,
                      con |-> inFlight[id].con] : id \in S}
  <2>1. work' = [work EXCEPT ![t] = @ \cup new]
    BY DEF Take
  <2>2. \A j \in new : j.step = "dec" /\ j.next = next /\ \E id \in S : j.msg = inFlight[id].msg
    BY SMTT(30)
  <2> HIDE DEF new
  <2>3. \A u \in Threads : \A j \in work'[u] : j \in work[u] \/ j \in new
    BY <1>0, <2>1
  <2> QED
    BY <2>2, <2>3
<1>3. TasksDue'
  <2> SUFFICES ASSUME NEW u \in Threads, NEW j \in work'[u], Settling(j)
               PROVE  j.msg.id \in acked' \/ Due(j.msg.id)
    BY <1>1 DEF TasksDue, Settling, Due
  <2> QED
    BY <1>2 DEF DueInv, TasksDue, Settling
<1>4. SettledWhenDue'
  BY <1>1 DEF DueInv, SettledWhenDue, Due
<1> QED
  BY <1>3, <1>4 DEF DueInv

(* The DLQ scanner takes from a dead-letter topic: its messages are dead letters. *)
LEMMA ExpireDue ==
  ASSUME TInv, PublishTasks, MsgInv, DueInv, [Next]_vars,
         NEW q \in Queues, NEW S \in SUBSET DOMAIN topic[q], ExpireDLQPending(q, S)
  PROVE  DueInv'
<1> DEFINE scan == <<"scan", "dlqttl">>
<1>0. work \in [Threads -> SUBSET Task] /\ scan \in Threads
  BY DEF TInv, TypeOK, Threads
<1>1. /\ UNCHANGED <<settled, acked, dead>> /\ q > 0 /\ DlqTtl
      /\ \A u \in Threads : u # scan => work'[u] = work[u]
      /\ work'[scan] = {[step |-> "tomb", msg |-> topic[q][i]] : i \in S}
  BY <1>0 DEF ExpireDLQPending, IsDLQQueue
<1>2. \A i \in S : topic[q][i].id \in dead
  BY <1>1 DEF MsgInv, TopicKnown, Known, TInv, DepthInv
<1>3. TasksDue'
  <2> SUFFICES ASSUME NEW u \in Threads, NEW j \in work'[u], Settling(j)
               PROVE  Due(j.msg.id)
    BY <1>1 DEF TasksDue, Settling, Due
  <2>1. CASE u = scan
    <3>1. j.msg.id \in dead
      BY <1>1, <1>2, <2>1, SMTT(30)
    <3> QED
      BY <1>1, <3>1 DEF Due
  <2>2. CASE u # scan
    BY <1>1, <2>2 DEF DueInv, TasksDue
  <2> QED
    BY <2>1, <2>2
<1> QED
  BY <1>1, <1>3 DEF DueInv, SettledWhenDue

(* Every step settles only what is due. *)
LEMMA DueStep ==
  ASSUME TInv, KeyInv, PublishTasks, MsgInv, DueInv, [Next]_vars
  PROVE  DueInv'
<1>0. /\ <<"scan", "timeout">> \in Threads /\ <<"scan", "dlqttl">> \in Threads
      /\ \A c \in Consumers : <<"recv", c>> \in Threads /\ <<"drain", c>> \in Threads
      /\ work \in [Threads -> SUBSET Task]
  BY DEF Threads, TInv, TypeOK
<1>1. \A id : Due(id) => Due(id)'
  BY DueStays
<1>2. ASSUME settled' = settled PROVE SettledWhenDue'
  BY <1>1, <1>2 DEF DueInv, SettledWhenDue, Due
<1>3. ASSUME UNCHANGED <<settled, work>> PROVE DueInv'
  BY <1>1, <1>2, <1>3 DEF DueInv, TasksDue, Settling
<1>4. ASSUME NEW id \in Ids, NEW q \in Queues, Publish(id, q) PROVE DueInv'
  <2>1. /\ settled' = settled
        /\ \A u \in Threads : u # <<"publish", id>> => work'[u] = work[u]
        /\ <<"publish", id>> \in Threads => \A j \in work'[<<"publish", id>>] : j.step = "enq"
    BY <1>0, <1>4, SMTT(30) DEF Publish
  <2>2. \A u \in Threads : \A j \in work'[u] : j \in work[u] \/ ~Settling(j)
    BY <2>1 DEF Settling
  <2>3. TasksDue'
    BY <1>1, <2>2 DEF DueInv, TasksDue, Settling
  <2> QED
    BY <1>2, <2>1, <2>3 DEF DueInv
<1>5. ASSUME NEW q \in Queues, Dispatch(q) \/ Compact(q) PROVE DueInv'
  BY <1>3, <1>5 DEF Dispatch, Dequeue, FindEligible, IncrementInFlight, Register, Send, Compact
<1>6. ASSUME TimeoutScan PROVE DueInv'
  <2>1. PICK S \in SUBSET DOMAIN inFlight : ScanAndTimeout(S)
    BY <1>6 DEF TimeoutScan
  <2>2. Take(<<"scan", "timeout">>, S, "enq") /\ settled' = settled
    BY <2>1 DEF ScanAndTimeout
  <2> QED
    BY <1>0, <2>2, TakeDue
<1>7. ASSUME NEW S \in SUBSET DOMAIN inFlight, ExpireDLQInFlight(S) PROVE DueInv'
  <2>1. Take(<<"scan", "dlqttl">>, S, "tomb") /\ settled' = settled /\ DlqTtl
    BY <1>7 DEF ExpireDLQInFlight
  <2>2. \A id \in S : inFlight[id].msg.id \in dead
    BY <1>7 DEF ExpireDLQInFlight, IsDLQQueue, MsgInv, FlightKnown, Known
  <2>3. \A id \in S : Due(inFlight[id].msg.id)
    BY <2>1, <2>2 DEF Due
  <2> QED
    BY <1>0, <2>1, <2>3, TakeDue
<1>8. ASSUME NEW c \in Consumers,
             \/ \E q \in 0..(MaxDepth - 1) : Subscribe(c, q)
             \/ Forward(c) \/ ForwardFails(c) \/ SenderStops(c) \/ Deregister(c) \/ Drained(c)
      PROVE  DueInv'
  BY <1>3, <1>8 DEF Subscribe, Forward, ForwardFails, SenderStops, Deregister, Drained
<1>9. ASSUME NEW c \in Consumers, Drain(c) PROVE DueInv'
  <2>1. PICK S \in SUBSET DOMAIN inFlight : Take(<<"drain", c>>, S, "enq")
    BY <1>9 DEF Drain, TakeOne
  <2>2. settled' = settled
    BY <1>9 DEF Drain
  <2>3. <<"drain", c>> \in Threads
    BY DEF Threads
  <2> QED
    BY <2>1, <2>2, <2>3, TakeDue
<1>10. ASSUME NEW c \in Consumers, NEW id \in Ids, Ack(c, id) PROVE DueInv'
  <2>1. settled' = settled /\ acked' = acked \cup ({id} \cap DOMAIN inFlight)
    BY <1>10 DEF Ack, Answered
  <2>2. PICK S \in SUBSET DOMAIN inFlight : Take(<<"recv", c>>, S, "tomb") /\ S \subseteq {id}
    BY <1>10, SMT DEF Ack, TakeOne
  <2>3. \A i \in S : inFlight[i].msg.id \in acked'
    BY <2>1, <2>2 DEF KeyInv
  <2>4. <<"recv", c>> \in Threads
    BY DEF Threads
  <2> QED
    BY <2>1, <2>2, <2>3, <2>4, TakeDue
<1>11. ASSUME NEW c \in Consumers, NEW id \in Ids, Nack(c, id) PROVE DueInv'
  <2>1. settled' = settled
    BY <1>11 DEF Nack, Answered
  <2>2. PICK S \in SUBSET DOMAIN inFlight : Take(<<"recv", c>>, S, "enq")
    BY <1>11 DEF Nack, TakeOne
  <2>3. <<"recv", c>> \in Threads
    BY DEF Threads
  <2> QED
    BY <2>1, <2>2, <2>3, TakeDue
<1>12. ASSUME BeginShutdown \/ UNCHANGED vars PROVE DueInv'
  BY <1>3, <1>12 DEF BeginShutdown, vars
<1>13. ASSUME CrashRestart PROVE DueInv'
  <2>1. settled' = settled /\ \A t \in Threads : work'[t] = {}
    BY <1>13 DEF CrashRestart
  <2>2. TasksDue'
    <3> SUFFICES ASSUME NEW t \in Threads', NEW k \in work'[t] PROVE FALSE
      BY Zenon DEF TasksDue
    <3>1. t \in Threads
      BY DEF Threads, Publishers
    <3> QED
      BY <2>1, <3>1, Zenon
  <2> QED
    BY <1>2, <2>1, <2>2 DEF DueInv
<1> QED
  BY <1>4, <1>5, <1>6, <1>7, <1>8, <1>9, <1>10, <1>11, <1>12, <1>13, StepDue, ExpireDue
     DEF Next, DlqScan, StepOrFail

(* The inductive invariant of settling, with the ones it rests on. *)
LEMMA SettleInvariant == Spec => [](TInv /\ FInv /\ MsgInv /\ DueInv)
<1>1. Init => DueInv
  BY SMT DEF Init, DueInv, TasksDue, SettledWhenDue
<1>2. TInv /\ FInv /\ MsgInv /\ DueInv /\ [Next]_vars => DueInv'
  BY DueStep DEF FInv, LogInv
<1> QED
  BY <1>1, <1>2, TypeInvariant, DeliveryInvariant, KnownInvariant, PTL DEF Spec

(***************************************************************************)
(* A tombstone is written only for a message whose in-flight entry an ack  *)
(* took or, with a DLQ TTL, for one that is on a dead-letter queue:        *)
(* whatever acks, nacks, timeouts, drains and DLQ expiries arrive late,    *)
(* from clients that may name any message, for any numbers of messages,    *)
(* consumers, retries, failing writes and restarts.                        *)
(***************************************************************************)
THEOREM SettlesOnlyWhatIsDue == Spec => []SettledWhenDue
<1>1. DueInv => SettledWhenDue
  BY DEF DueInv
<1> QED
  BY <1>1, SettleInvariant, PTL
-----------------------------------------------------------------------------
ContractStep == Contract!Next \/ UNCHANGED Contract!vars

(* A step that its clients cannot see. *)
LEMMA Unseen ==
  ASSUME \A id \in Ids : Held(id)' <=> Held(id),
         UNCHANGED <<pub, seen, acked, dead, settled, lost, closing, faults>>
  PROVE  ContractStep
<1>1. UNCHANGED {id \in Ids : Held(id)}
  OBVIOUS
<1>2. UNCHANGED (closing \/ faults > 0)
  OBVIOUS
<1> QED
  BY <1>1, <1>2 DEF ContractStep, Contract!vars

(* The process starts as the contract does. *)
LEMMA ContractInit == Init => Contract!Init
<1> SUFFICES ASSUME Init PROVE Contract!Init
  OBVIOUS
<1>1. DOMAIN <<>> = {}
  BY SMT
<1>2. \A id \in Ids : ~Held(id)
  BY <1>1 DEF Init, Held, InTopic, AtDispatcher, InWork
<1>3. (closing \/ faults > 0) = FALSE
  BY SMT DEF Init
<1> QED
  BY <1>2, <1>3 DEF Init, Contract!Init

(* A step lets go of one message at most. *)
LEMMA Released ==
  ASSUME NEW x \in Ids, Held(x), \A id \in Ids : id # x => (Held(id)' <=> Held(id))
  PROVE  Contract!Release(x) /\ (Held(x)' => UNCHANGED {id \in Ids : Held(id)})
BY DEF Contract!Release

(* The tasks of the goroutines: accept, give up, settle, drop. *)
LEMMA StepContract ==
  ASSUME TInv, FInv, MsgInv, DueInv, NEW t \in Threads, NEW k \in work[t], StepOrFail(t, k)
  PROVE  ContractStep
<1> DEFINE x == k.msg.id
<1>0. /\ x \in Ids /\ pub \in [Ids -> {"new", "busy", "ok", "err"}]
      /\ closing \in BOOLEAN /\ faults \in Nat /\ k \in Task /\ k.msg \in Message
  <2>1. k \in Task
    BY DEF TInv, TypeOK
  <2>2. k.msg \in Message /\ x \in Ids
    BY <2>1 DEF Task, Message
  <2> QED
    BY <2>1, <2>2, BrokerConstants, SMTT(30) DEF TInv, TypeOK
<1>1. /\ Held(x) /\ \A id \in Ids : id # x => (Held(id)' <=> Held(id))
      /\ LetGo(t, k) \/ Held(x)'
  BY StepHeld DEF StepOrFail
<1>2. Contract!Release(x) /\ (Held(x)' => \A id \in Ids : Held(id)' <=> Held(id))
  BY <1>0, <1>1, Released
<1>3. /\ t \in Publishers => pub[x] = "busy"
      /\ t \notin Publishers => pub[x] \in {"ok", "err"}
  <2>1. CASE t \in Publishers
    BY <2>1, PublisherTask DEF FInv, LogInv, MsgInv
  <2>2. CASE t \notin Publishers
    BY <2>2 DEF MsgInv, WorkKnown, Known
  <2> QED
    BY <2>1, <2>2
<1>4. CASE EnqueueCheck(t, k) \/ EnqueueWal(t, k)
  <2>1. ~LetGo(t, k) /\ UNCHANGED <<pub, seen, acked, dead, settled, lost, closing, faults>>
    BY <1>0, <1>4, SMT DEF EnqueueCheck, EnqueueWal, LetGo, EnqueueRejected, EnqueueFails, WriteTombstone,
       WriteTombstoneFails
  <2> QED
    BY <1>1, <1>2, <2>1, Unseen
<1>5. CASE EnqueueRejected(t, k) \/ EnqueueFails(t, k)
  <2>1. /\ lost' = lost \cup {x} /\ UNCHANGED <<seen, acked, dead, settled>>
        /\ Answer(t, k, "err")
    BY <1>5 DEF EnqueueRejected, EnqueueFails
  <2>2. (closing \/ faults > 0)'
    BY <1>0, <1>5, SMT DEF EnqueueRejected, EnqueueFails
  <2>3. pub' = [pub EXCEPT ![x] = IF @ = "busy" THEN "err" ELSE @]
    BY <1>0, <1>3, <2>1 DEF Answer
  <2>4. Contract!Drop(x)
    BY <1>2, <2>1, <2>2, <2>3, ZenonT(40) DEF Contract!Drop
  <2> QED
    BY <1>0, <2>4 DEF ContractStep, Contract!Next
<1>6. CASE EnqueueTopic(t, k)
  <2>1. ~LetGo(t, k) /\ UNCHANGED <<seen, acked, dead, settled, lost, closing, faults>> /\ Answer(t, k, "ok")
    BY <1>6 DEF EnqueueTopic, LetGo, EnqueueRejected, EnqueueFails, WriteTombstone,
       WriteTombstoneFails
  <2>2. \A id \in Ids : Held(id)' <=> Held(id)
    BY <1>1, <1>2, <2>1
  <2>3. CASE t \in Publishers
    <3>1. pub[x] = "busy" /\ pub' = [pub EXCEPT ![x] = "ok"]
      BY <1>3, <2>1, <2>3, ZenonT(40) DEF Answer
    <3>2. UNCHANGED {id \in Ids : Held(id)} /\ UNCHANGED (closing \/ faults > 0)
      BY <2>1, <2>2
    <3>3. Contract!Accept(x)
      BY <1>0, <1>1, <2>1, <3>1, <3>2 DEF Contract!Accept
    <3> QED
      BY <1>0, <3>3 DEF ContractStep, Contract!Next
  <2>4. CASE t \notin Publishers
    BY <2>1, <2>2, <2>4, Unseen DEF Answer
  <2> QED
    BY <2>3, <2>4
<1>7. CASE DecrementInFlight(t, k)
  <2>1. /\ ~LetGo(t, k) /\ UNCHANGED <<pub, seen, acked, settled, lost, closing, faults>>
        /\ dead' = dead \/ dead' = dead \cup {x}
    BY <1>7 DEF DecrementInFlight, LetGo, EnqueueRejected, EnqueueFails, WriteTombstone,
       WriteTombstoneFails
  <2>2. \A id \in Ids : Held(id)' <=> Held(id)
    BY <1>1, <1>2, <2>1
  <2>3. CASE dead' = dead
    BY <2>1, <2>2, <2>3, Unseen
  <2>4. CASE dead' = dead \cup {x}
    <3>1. UNCHANGED {id \in Ids : Held(id)} /\ UNCHANGED (closing \/ faults > 0)
      BY <2>1, <2>2, ZenonT(40)
    <3>2. Contract!GiveUp(x)
      BY <1>0, <1>1, <2>1, <2>4, <3>1 DEF Contract!GiveUp
    <3> QED
      BY <1>0, <3>2 DEF ContractStep, Contract!Next
  <2> QED
    BY <2>1, <2>3, <2>4
<1>8. CASE WriteTombstone(t, k) \/ WriteTombstoneFails(t, k)
  <2>1. /\ settled' = settled \cup {x} /\ UNCHANGED <<pub, seen, acked, dead, lost, closing>>
        /\ k.step = "tomb" /\ faults' \in {faults, faults + 1}
    BY <1>8 DEF WriteTombstone, WriteTombstoneFails
  <2>2. x \in acked \cup dead
    BY <2>1 DEF DueInv, TasksDue, Settling, Due
  <2>3. (closing \/ faults > 0)' \in {closing \/ faults > 0, TRUE}
    <3>1. CASE faults' = faults
      <4>1. (closing \/ faults > 0)' = (closing \/ faults > 0)
        BY <2>1, <3>1
      <4> QED
        BY <4>1, Zenon
    <3>2. CASE faults' = faults + 1
      <4>1. (closing \/ faults > 0)' = TRUE
        BY <1>0, <3>2, SMTT(30)
      <4> QED
        BY <4>1, Zenon
    <3> QED
      BY <2>1, <3>1, <3>2
  <2>4. Contract!Settle(x)
    BY <1>2, <2>1, <2>2, <2>3, ZenonT(40) DEF Contract!Settle
  <2> QED
    BY <1>0, <2>4 DEF ContractStep, Contract!Next
<1> QED
  BY <1>4, <1>5, <1>6, <1>7, <1>8, ZenonT(40) DEF StepOrFail, Step

(* Publish, Forward and Ack, and the two ends of the process. *)
LEMMA ClientContract ==
  ASSUME TInv, FInv, MsgInv, [Next]_vars,
         \/ \E id \in Ids, q \in Queues : Publish(id, q)
         \/ \E c \in Consumers : Forward(c) \/ \E id \in Ids : Ack(c, id)
         \/ BeginShutdown \/ CrashRestart
  PROVE  ContractStep
<1>0. /\ pub \in [Ids -> {"new", "busy", "ok", "err"}]
      /\ closing \in BOOLEAN /\ faults \in Nat /\ KeyInv /\ PublishTasks /\ LogInv
      /\ send \in [Consumers -> Seq(Message)]
  BY BrokerConstants, SMTT(30) DEF TInv, TypeOK, FInv, LogInv
<1>1. ASSUME NEW x \in Ids, NEW q \in Queues, Publish(x, q) PROVE ContractStep
  <2>1. /\ pub[x] = "new" /\ pub' = [pub EXCEPT ![x] = "busy"]
        /\ dead' \in {dead, dead \cup {x}}
        /\ UNCHANGED <<seen, acked, settled, lost, closing, faults>>
    BY <1>1 DEF Publish
  <2>2. Held(x)' /\ \A id \in Ids : id # x => (Held(id)' <=> Held(id))
    BY <1>0, <1>1, PublishHeld
  <2>3. /\ {id \in Ids : Held(id)}' = {id \in Ids : Held(id)} \cup {x}
        /\ UNCHANGED (closing \/ faults > 0)
    BY <2>1, <2>2
  <2>4. Contract!Publish(x)
    BY <2>1, <2>3 DEF Contract!Publish
  <2> QED
    BY <2>4 DEF ContractStep, Contract!Next
<1>2. ASSUME NEW c \in Consumers, Forward(c) PROVE ContractStep
  <2> DEFINE x == Head(send[c]).id
  <2>1. /\ send[c] \in Seq(Message) /\ send[c] # <<>>
        /\ UNCHANGED <<topic, disp, inFlight, work, pub, settled, acked, dead, lost, closing, faults>>
        /\ seen' = seen \cup {x}
    BY <1>0, <1>2 DEF Forward
  <2>2. 1 \in DOMAIN send[c] /\ Head(send[c]) \in Message /\ Head(send[c]) = send[c][1]
    BY <2>1, TailFacts
  <2>3. x \in Ids /\ pub[x] # "new"
    BY <2>2 DEF MsgInv, SendKnown, Known, Message
  <2>4. UNCHANGED {id \in Ids : Held(id)} /\ UNCHANGED (closing \/ faults > 0)
    BY <2>1 DEF Held, InTopic, AtDispatcher, InWork
  <2>5. Contract!Deliver(x)
    BY <2>1, <2>3, <2>4 DEF Contract!Deliver
  <2> QED
    BY <2>3, <2>5 DEF ContractStep, Contract!Next
<1>3. ASSUME BeginShutdown PROVE ContractStep
  <2>1. /\ UNCHANGED <<topic, disp, inFlight, work, pub, seen, acked, settled, dead, lost,
                       faults>>
        /\ closing' = TRUE
    BY <1>3 DEF BeginShutdown
  <2>2. UNCHANGED {id \in Ids : Held(id)} /\ (closing \/ faults > 0)' = TRUE
    BY <2>1 DEF Held, InTopic, AtDispatcher, InWork
  <2>3. Contract!Trouble
    BY <2>1, <2>2 DEF Contract!Trouble
  <2> QED
    BY <2>3 DEF ContractStep, Contract!Next
<1>4. ASSUME CrashRestart PROVE ContractStep
  <2>1. /\ pub' = [id \in Ids |-> IF pub[id] = "busy" THEN "err" ELSE pub[id]]
        /\ lost' = {} /\ UNCHANGED <<seen, acked, dead, settled>>
    BY <1>4 DEF CrashRestart
  <2>2. (closing \/ faults > 0)' \in BOOLEAN
    OBVIOUS
  <2>3. Contract!Owed \subseteq {id \in Ids : Held(id)}'
    BY <1>0, <1>4, RestartHeld DEF Contract!Owed
  <2>4. \A id \in Ids : Held(id)' => pub[id] # "new"
    <3>1. TopicKnown' /\ \A id \in Ids : pub'[id] \in {"ok", "err"} => pub[id] # "new"
      BY <1>0, <1>4, <2>1, RestartKnown DEF MsgInv
    <3>2. \A id \in Ids : Held(id)' => InTopic(id)'
      BY <1>0, <1>4, RestartHeld
    <3> QED
      BY <3>1, <3>2 DEF TopicKnown, Known, InTopic
  <2>5. Contract!Restart
    BY <2>1, <2>2, <2>3, <2>4 DEF Contract!Restart
  <2> QED
    BY <2>5 DEF ContractStep, Contract!Next
<1>5. ASSUME NEW c \in Consumers, NEW x \in Ids, Ack(c, x) PROVE ContractStep
  <2>1. /\ UNCHANGED <<topic, disp, pub, seen, settled, dead, lost, closing, faults>>
        /\ acked' = acked \cup ({x} \cap DOMAIN inFlight)
    BY <1>5 DEF Ack, Answered
  <2>2. PICK S \in SUBSET DOMAIN inFlight : Take(<<"recv", c>>, S, "tomb")
    BY <1>5 DEF Ack, TakeOne
  <2>3. <<"recv", c>> \in Threads
    BY DEF Threads
  <2>4. \A id \in Ids : Held(id)' <=> Held(id)
    BY <1>0, <2>1, <2>2, <2>3, TakeHeld
  <2>5. CASE x \notin DOMAIN inFlight
    <3>1. acked' = acked
      BY <2>1, <2>5
    <3> QED
      BY <2>1, <2>4, <3>1, Unseen
  <2>6. CASE x \in DOMAIN inFlight
    <3>1. acked' = acked \cup {x} /\ Held(x)
      BY <2>1, <2>6 DEF Held
    <3>2. UNCHANGED {id \in Ids : Held(id)} /\ UNCHANGED (closing \/ faults > 0)
      BY <2>1, <2>4
    <3>3. Contract!Ack(x)
      BY <2>1, <3>1, <3>2 DEF Contract!Ack
    <3> QED
      BY <3>3 DEF ContractStep, Contract!Next
  <2> QED
    BY <2>5, <2>6
<1> QED
  BY <1>1, <1>2, <1>3, <1>4, <1>5

(* The clients see nothing of the other steps. *)
LEMMA OtherContract ==
  ASSUME TInv, FInv, [Next]_vars, ~CrashRestart, ~BeginShutdown,
         ~ \E id \in Ids, q \in Queues : Publish(id, q), ~ \E c \in Consumers : Forward(c),
         ~ \E c \in Consumers, id \in Ids : Ack(c, id),
         ~ \E t \in Threads : \E k \in work[t] : StepOrFail(t, k)
  PROVE  ContractStep
<1>1. UNCHANGED <<seen, acked, closing>>
  <2>1. ASSUME NEW q \in Queues, Dispatch(q) \/ Compact(q) PROVE UNCHANGED <<seen, acked, closing>>
    BY <2>1, ZenonT(40) DEF Dispatch, Dequeue, FindEligible, IncrementInFlight, Register, Send, Compact
  <2>2. ASSUME NEW c \in Consumers, NEW id \in Ids, Nack(c, id)
        PROVE  UNCHANGED <<seen, acked, closing>>
    BY <2>2 DEF Nack, Answered
  <2>3. ASSUME NEW c \in Consumers,
               \/ \E q \in 0..(MaxDepth - 1) : Subscribe(c, q)
               \/ ForwardFails(c) \/ SenderStops(c) \/ Deregister(c) \/ Drain(c) \/ Drained(c)
        PROVE  UNCHANGED <<seen, acked, closing>>
    BY <2>3 DEF Subscribe, ForwardFails, SenderStops, Deregister, Drain, Drained
  <2>4. ASSUME TimeoutScan \/ DlqScan PROVE UNCHANGED <<seen, acked, closing>>
    BY <2>4 DEF TimeoutScan, ScanAndTimeout, DlqScan, ExpireDLQPending, ExpireDLQInFlight
  <2> QED
    BY <2>1, <2>2, <2>3, <2>4 DEF Next, StepOrFail, vars
<1>2. ASSUME NEW q \in Queues, Dispatch(q) PROVE ContractStep
  <2>1. UNCHANGED <<pub, dead, settled, lost, faults>>
    BY <1>2 DEF Dispatch, Dequeue, FindEligible, IncrementInFlight, Register, Send
  <2> QED
    BY <1>1, <1>2, <2>1, DispatchHeld, Unseen
<1>3. ASSUME ~ \E q \in Queues : Dispatch(q) PROVE ContractStep
  <2>1. /\ \A id \in Ids : Held(id)' <=> Held(id)
        /\ UNCHANGED <<pub, settled, lost, dead, faults>>
    BY <1>3, OtherHeld DEF FInv, StepOrFail
  <2> QED
    BY <1>1, <2>1, Unseen
<1> QED
  BY <1>2, <1>3, ZenonT(40)

(***************************************************************************)
(* The broker implements AtLeastOnce, for any sets of messages and         *)
(* consumers, prefetch limits, retry limits, failing writes and restarts:  *)
(* every step of every goroutine is one step of the contract or none.      *)
(***************************************************************************)
THEOREM BrokerImplementsContract == Spec => ImplementsAtLeastOnce
<1>1. TInv /\ FInv /\ MsgInv /\ DueInv /\ [Next]_vars => [Contract!Next]_(Contract!vars)
  <2> SUFFICES ASSUME TInv, FInv, MsgInv, DueInv, [Next]_vars PROVE ContractStep
    BY DEF ContractStep
  <2> QED
    BY StepContract, ClientContract, OtherContract
<1> QED
  BY <1>1, ContractInit, SettleInvariant, PTL DEF Spec, ImplementsAtLeastOnce, Contract!Spec
-----------------------------------------------------------------------------
(* The logs never run ahead of the copies.                                 *)

\* No message record of m's id is in a queue behind m's, or has more retries than m.
Behind(m) ==
  \A q \in Queues : \A j \in DOMAIN wal[q] :
    wal[q][j].type = "msg" /\ wal[q][j].id = m.id
      => q < m.queue \/ (q = m.queue /\ wal[q][j].retry <= m.retry)

Copy(m) ==
  \/ \E q \in Queues : \E i \in DOMAIN topic[q] : topic[q][i] = m
  \/ \E q \in Queues : Holding(q) /\ disp[q].msg = m
  \/ \E id \in DOMAIN inFlight : inFlight[id].msg = m
  \/ \E t \in Threads : \E k \in work[t] : k.msg = m

AheadInv == \A m \in Message : Copy(m) => Behind(m)

(* The records a task writes are about its own message, as it is now; one  *)
(* more retry, or the next dead-letter queue, leaves them behind.          *)
LEMMA StepAhead ==
  ASSUME TInv, KeyInv, OnceInv, AheadInv, NEW t \in Threads, NEW k \in work[t], StepOrFail(t, k)
  PROVE  AheadInv'
<1> DEFINE x == k.msg.id
<1>0. /\ k \in Task /\ k.msg \in Message /\ x \in Ids /\ k.msg.queue \in Queues /\ k.msg.retry \in Nat
      /\ work \in [Threads -> SUBSET Task] /\ topic \in [Queues -> Seq(Message)]
      /\ wal \in [Queues -> Seq(WalRecord)]
  <2>1. k \in Task
    BY DEF TInv, TypeOK
  <2>2. k.msg \in Message /\ k.msg.id \in Ids /\ k.msg.queue \in Queues /\ k.msg.retry \in Nat
    BY <2>1 DEF Task, Message
  <2> QED
    BY <2>1, <2>2 DEF TInv, TypeOK, WalRecord
<1>1. UNCHANGED <<disp, inFlight>>
  BY DEF StepOrFail, Step, EnqueueCheck, EnqueueWal, EnqueueRejected, EnqueueFails, EnqueueTopic,
     DecrementInFlight, WriteTombstone, WriteTombstoneFails
<1>2. InWork(x) /\ ~InTopic(x) /\ ~AtDispatcher(x) /\ x \notin DOMAIN inFlight
  BY <1>0 DEF InWork, OnceInv, Apart
<1>3. Copy(k.msg) /\ Behind(k.msg)
  BY <1>0 DEF Copy, AheadInv
<1> DEFINE y == AfterDecrement(k).msg
<1>4. \A u \in Threads : \A j \in work'[u] :
        \/ j \in work[u] /\ j.msg.id # x
        \/ j.msg = k.msg
        \/ DecrementInFlight(t, k) /\ j.msg = y
  <2> TAKE u \in Threads
  <2> TAKE j \in work'[u]
  <2>1. CASE j \in work[u]
    BY <2>1 DEF OnceInv, WorkOnce
  <2>2. CASE j \notin work[u]
    <3>1. CASE DecrementInFlight(t, k)
      BY <1>0, <2>2, <3>1 DEF DecrementInFlight
    <3>2. CASE EnqueueCheck(t, k) \/ EnqueueWal(t, k)
      <4>1. \E s : work' = [work EXCEPT ![t] = (work[t] \ {k}) \cup {[step |-> s, msg |-> k.msg]}]
        BY <3>2 DEF EnqueueCheck, EnqueueWal
      <4> QED
        BY <1>0, <2>2, <4>1, SMTT(30)
    <3>3. CASE ~(DecrementInFlight(t, k) \/ EnqueueCheck(t, k) \/ EnqueueWal(t, k))
      BY <1>0, <2>2, <3>3, ZenonT(40) DEF StepOrFail, Step, EnqueueRejected, EnqueueFails, EnqueueTopic,
         WriteTombstone, WriteTombstoneFails
    <3> QED
      BY <3>1, <3>2, <3>3
  <2> QED
    BY <2>1, <2>2, ZenonT(40)
<1>5. \A q \in Queues : \A i \in DOMAIN topic'[q] :
        (i \in DOMAIN topic[q] /\ topic'[q][i] = topic[q][i]) \/ topic'[q][i] = k.msg
  <2>1. CASE EnqueueTopic(t, k)
    <3> DEFINE q0 == k.msg.queue
               m == k.msg
               g == topic'
    <3>1. /\ topic \in [Queues -> Seq(Message)] /\ q0 \in Queues /\ m \in Message
          /\ g = [topic EXCEPT ![q0] = Append(@, m)]
      BY <1>0, <2>1 DEF EnqueueTopic
    <3> HIDE DEF q0, m, g
    <3>2. \A q \in Queues : \A i \in DOMAIN g[q] :
            (i \in DOMAIN topic[q] /\ g[q][i] = topic[q][i]) \/ (q = q0 /\ g[q][i] = m)
      BY <3>1, PutFacts, SMTT(30)
    <3> QED
      BY <3>2 DEF m, g
  <2>2. CASE ~EnqueueTopic(t, k)
    <3>1. topic' = topic
      BY <2>2 DEF StepOrFail, Step, EnqueueCheck, EnqueueWal, EnqueueRejected, EnqueueFails,
         DecrementInFlight, WriteTombstone, WriteTombstoneFails
    <3> QED
      BY <3>1
  <2> QED
    BY <2>1, <2>2
<1>6. \A q \in Queues : \A j \in DOMAIN wal'[q] :
        \/ \E i \in DOMAIN wal[q] : wal'[q][j] = wal[q][i]
        \/ wal'[q][j].type = "tomb"
        \/ /\ q = k.msg.queue /\ wal'[q][j].id = x /\ wal'[q][j].retry = k.msg.retry
           /\ ~DecrementInFlight(t, k)
  <2>1. wal' = wal \/ (wal' = Logged(k.msg) /\ ~DecrementInFlight(t, k)) \/ wal' = Tombstoned(k.msg)
    <3>1. CASE DecrementInFlight(t, k)
      BY <3>1 DEF DecrementInFlight
    <3>2. CASE ~DecrementInFlight(t, k)
      BY <3>2 DEF StepOrFail, Step, EnqueueCheck, EnqueueWal, EnqueueRejected, EnqueueFails, EnqueueTopic,
         WriteTombstone, WriteTombstoneFails
    <3> QED
      BY <3>1, <3>2
  <2>2. ASSUME NEW r \in WalRecord, wal' = [wal EXCEPT ![k.msg.queue] = Append(@, r)]
        PROVE  \A q \in Queues : \A j \in DOMAIN wal'[q] :
                 (\E i \in DOMAIN wal[q] : wal'[q][j] = wal[q][i]) \/ (q = k.msg.queue /\ wal'[q][j] = r)
    <3> DEFINE q0 == k.msg.queue
               g == wal'
    <3>1. /\ wal \in [Queues -> Seq(WalRecord)] /\ q0 \in Queues
          /\ g = [wal EXCEPT ![q0] = Append(@, r)]
      BY <1>0, <2>2
    <3> HIDE DEF q0, g
    <3>2. \A q \in Queues : \A i \in DOMAIN g[q] :
            (i \in DOMAIN wal[q] /\ g[q][i] = wal[q][i]) \/ (q = q0 /\ g[q][i] = r)
      BY <3>1, PutFacts, SMTT(30)
    <3> QED
      BY <3>2 DEF q0, g
  <2>3. /\ RecordMessage(x, k.msg.retry) \in WalRecord /\ RecordTombstone(x) \in WalRecord
        /\ RecordMessage(x, k.msg.retry).id = x /\ RecordMessage(x, k.msg.retry).retry = k.msg.retry
        /\ RecordTombstone(x).type = "tomb"
    BY <1>0 DEF RecordMessage, RecordTombstone, WalRecord
  <2>4. CASE wal' = wal
    BY <2>4
  <2>5. CASE wal' = Logged(k.msg) /\ ~DecrementInFlight(t, k)
    BY <2>2, <2>3, <2>5, ZenonT(40) DEF Logged
  <2>6. CASE wal' = Tombstoned(k.msg)
    BY <2>2, <2>3, <2>6 DEF Tombstoned
  <2> QED
    BY <2>1, <2>4, <2>5, <2>6
<1>7. ASSUME NEW m \in Message, Copy(m)' PROVE (Copy(m) /\ m.id # x) \/ m = k.msg \/ (DecrementInFlight(t, k) /\ m = y)
  <2>1. CASE \E q \in Queues : \E i \in DOMAIN topic'[q] : topic'[q][i] = m
    <3>1. PICK q \in Queues : \E i \in DOMAIN topic'[q] : topic'[q][i] = m
      BY <2>1, Zenon
    <3>2. CASE m = k.msg
      BY <3>2, Zenon
    <3>3. CASE m # k.msg
      <4>1. \E i \in DOMAIN topic[q] : topic[q][i] = m
        BY <1>5, <3>1, <3>3, Zenon
      <4>2. Copy(m) /\ InTopic(m.id)
        BY <3>1, <4>1, Zenon DEF Copy, InTopic
      <4> QED
        BY <1>2, <4>2, Zenon
    <3> QED
      BY <3>2, <3>3, Zenon
  <2>2. CASE \E q \in Queues : Holding(q)' /\ disp'[q].msg = m
    BY <1>1, <1>2, <2>2 DEF Copy, Holding, AtDispatcher
  <2>3. CASE \E id \in DOMAIN inFlight' : inFlight'[id].msg = m
    BY <1>1, <1>2, <2>3 DEF Copy, KeyInv
  <2>4. CASE \E u \in Threads : \E j \in work'[u] : j.msg = m
    BY <1>4, <2>4 DEF Copy
  <2> QED
    BY <1>7, <2>1, <2>2, <2>3, <2>4 DEF Copy
<1>8. y \in [id : {x}, queue : {k.msg.queue, k.msg.queue + 1}, retry : Nat]
        /\ (y.queue = k.msg.queue => y.retry >= k.msg.retry) /\ k.msg.queue \in Nat
  BY <1>0, SMT DEF AfterDecrement, Requeued, Message, Queues
<1> SUFFICES ASSUME NEW m \in Message, Copy(m)', NEW q \in Queues, NEW j \in DOMAIN wal'[q],
                    wal'[q][j].type = "msg", wal'[q][j].id = m.id
             PROVE  q < m.queue \/ (q = m.queue /\ wal'[q][j].retry <= m.retry)
  BY DEF AheadInv, Behind
<1> HIDE DEF y
<1>9. CASE Copy(m) /\ m.id # x
  BY <1>6, <1>9, SMTT(30) DEF AheadInv, Behind
<1>10. CASE m = k.msg
  <2>1. CASE \E i \in DOMAIN wal[q] : wal'[q][j] = wal[q][i]
    BY <1>3, <1>10, <2>1, ZenonT(40) DEF Behind
  <2>2. CASE ~\E i \in DOMAIN wal[q] : wal'[q][j] = wal[q][i]
    <3>1. q = k.msg.queue /\ wal'[q][j].retry = k.msg.retry
      BY <1>6, <2>2, ZenonT(40)
    <3> QED
      BY <1>0, <1>10, <3>1, SMTT(30)
  <2> QED
    BY <2>1, <2>2
<1>11. CASE DecrementInFlight(t, k) /\ m = y
  <2>1. PICK i \in DOMAIN wal[q] : wal'[q][j] = wal[q][i]
    BY <1>6, <1>11
  <2>2. q < k.msg.queue \/ (q = k.msg.queue /\ wal[q][i].retry <= k.msg.retry)
    BY <1>3, <1>8, <1>11, <2>1 DEF Behind
  <2>3. wal[q][i].retry \in Nat
    <3>1. wal[q] \in Seq(WalRecord) /\ wal[q][i] \in WalRecord /\ wal[q][i].type = "msg"
      BY <1>0, <2>1, ElementOfSeq, LenProperties, ZenonT(40)
    <3> QED
      BY <3>1 DEF WalRecord
  <2> QED
    BY <1>0, <1>8, <1>11, <2>1, <2>2, <2>3, SMTT(30) DEF Queues
<1> QED
  BY <1>7, <1>9, <1>10, <1>11

(* Copies that come from copies, while the logs gain no message record. *)
LEMMA CopiesStayAhead ==
  ASSUME AheadInv, \A m \in Message : Copy(m)' => Copy(m),
         \A q \in Queues : \A j \in DOMAIN wal'[q] : \E i \in DOMAIN wal[q] : wal'[q][j] = wal[q][i]
  PROVE  AheadInv'
<1> SUFFICES ASSUME NEW m \in Message, Copy(m)', NEW q \in Queues, NEW j \in DOMAIN wal'[q],
                    wal'[q][j].type = "msg", wal'[q][j].id = m.id
             PROVE  q < m.queue \/ (q = m.queue /\ wal'[q][j].retry <= m.retry)
  BY DEF AheadInv, Behind
<1>1. Behind(m)
  BY DEF AheadInv
<1> QED
  BY <1>1, SMTT(30) DEF Behind

(* A dispatcher moves the copy it takes. *)
LEMMA DispatchAhead ==
  ASSUME TInv, AheadInv, NEW q \in Queues, Dispatch(q)
  PROVE  AheadInv'
<1>0. disp \in [Queues -> Dispatcher] /\ topic \in [Queues -> Seq(Message)]
  BY DEF TInv, TypeOK
<1>1. UNCHANGED <<work, wal>> /\ \A p \in Queues : p # q => disp'[p] = disp[p]
  BY <1>0 DEF Dispatch, Dequeue, FindEligible, IncrementInFlight, Register, Send
<1>2. \A p \in Queues : \A i \in DOMAIN topic'[p] : \E j \in DOMAIN topic[p] : topic'[p][i] = topic[p][j]
  <2>1. CASE Dequeue(q)
    <3>1. topic[q] \in Seq(Message) /\ topic[q] # <<>> /\ topic'[q] = Tail(topic[q])
            /\ \A p \in Queues : p # q => topic'[p] = topic[p]
      BY <1>0, <2>1 DEF Dequeue
    <3>2. \A i \in DOMAIN Tail(topic[q]) : \E j \in DOMAIN topic[q] : Tail(topic[q])[i] = topic[q][j]
      BY <3>1, TailFacts, ZenonT(40)
    <3>3. \A i \in DOMAIN topic'[q] : \E j \in DOMAIN topic[q] : topic'[q][i] = topic[q][j]
      BY <3>1, <3>2, Zenon
    <3> TAKE p \in Queues
    <3>4. CASE p = q
      BY <3>3, <3>4
    <3>5. CASE p # q
      BY <3>1, <3>5
    <3> QED
      BY <3>4, <3>5
  <2>2. CASE ~Dequeue(q)
    <3>1. topic' = topic
      BY <2>2 DEF Dispatch, FindEligible, IncrementInFlight, Register, Send
    <3> QED
      BY <3>1
  <2> QED
    BY <2>1, <2>2
<1>3. Holding(q)' => (\E i \in DOMAIN topic[q] : disp'[q].msg = topic[q][i])
                       \/ (Holding(q) /\ disp'[q].msg = disp[q].msg)
  <2>1. CASE Dequeue(q)
    <3>1. topic[q] \in Seq(Message) /\ topic[q] # <<>> /\ disp'[q].msg = Head(topic[q])
      BY <1>0, <2>1 DEF Dequeue
    <3>2. 1 \in DOMAIN topic[q] /\ Head(topic[q]) = topic[q][1]
      BY <3>1, TailFacts
    <3> QED
      BY <3>1, <3>2
  <2>2. CASE FindEligible(q)
    BY <1>0, <2>2 DEF FindEligible, Holding
  <2>3. CASE IncrementInFlight(q)
    BY <1>0, <2>3, SMT DEF IncrementInFlight, Holding
  <2>4. CASE Register(q)
    BY <1>0, <2>4 DEF Register, Holding
  <2>5. CASE Send(q)
    BY <1>0, <2>5 DEF Send, Holding
  <2> QED
    BY <2>1, <2>2, <2>3, <2>4, <2>5, Zenon DEF Dispatch
<1>4. \A id \in DOMAIN inFlight' : (id \in DOMAIN inFlight /\ inFlight'[id] = inFlight[id])
                                \/ (Holding(q) /\ inFlight'[id].msg = disp[q].msg)
  <2>1. CASE Register(q)
    BY <2>1 DEF Register, Holding
  <2>2. CASE ~Register(q)
    BY <2>2 DEF Dispatch, Dequeue, FindEligible, IncrementInFlight, Send
  <2> QED
    BY <2>1, <2>2
<1>5. ASSUME NEW m \in Message, Copy(m)' PROVE Copy(m)
  <2>1. CASE \E p \in Queues : \E i \in DOMAIN topic'[p] : topic'[p][i] = m
    <3>1. PICK p \in Queues : \E i \in DOMAIN topic'[p] : topic'[p][i] = m
      BY <2>1, Zenon
    <3>2. \E j \in DOMAIN topic[p] : topic[p][j] = m
      BY <1>2, <3>1, ZenonT(40)
    <3> QED
      BY <3>1, <3>2, Zenon DEF Copy
  <2>2. CASE \E p \in Queues : Holding(p)' /\ disp'[p].msg = m
    <3>1. PICK p \in Queues : Holding(p)' /\ disp'[p].msg = m
      BY <2>2
    <3>2. CASE p = q
      BY <1>3, <3>1, <3>2 DEF Copy
    <3>3. CASE p # q
      BY <1>1, <3>1, <3>3 DEF Copy, Holding
    <3> QED
      BY <3>2, <3>3
  <2>3. CASE \E id \in DOMAIN inFlight' : inFlight'[id].msg = m
    BY <1>4, <2>3 DEF Copy
  <2>4. CASE \E u \in Threads : \E j \in work'[u] : j.msg = m
    BY <1>1, <2>4 DEF Copy
  <2> QED
    BY <1>5, <2>1, <2>2, <2>3, <2>4 DEF Copy
<1>6. \A p \in Queues : \A j \in DOMAIN wal'[p] : \E i \in DOMAIN wal[p] : wal'[p][j] = wal[p][i]
  BY <1>1
<1> QED
  BY <1>5, <1>6, CopiesStayAhead

(* So does whoever takes an entry from the in-flight map. *)
LEMMA TakeAhead ==
  ASSUME TInv, AheadInv, NEW t \in Threads, NEW S \in SUBSET DOMAIN inFlight,
         NEW next \in {"tomb", "enq"}, Take(t, S, next), UNCHANGED <<topic, disp, wal>>
  PROVE  AheadInv'
<1>0. work \in [Threads -> SUBSET Task]
  BY DEF TInv, TypeOK
<1>1. \A id \in DOMAIN inFlight' : id \in DOMAIN inFlight /\ inFlight'[id] = inFlight[id]
  BY TakeType
<1>2. \A u \in Threads : \A j \in work'[u] :
        j \in work[u] \/ (\E id \in S : j.msg = inFlight[id].msg)
  <2> DEFINE new == {[step |-> "dec", next |-> next, msg |-> inFlight[id].msg,
                      con |-> inFlight[id].con] : id \in S}
  <2>1. work' = [work EXCEPT ![t] = @ \cup new]
    BY DEF Take
  <2>2. ASSUME NEW j \in new PROVE \E id \in S : j.msg = inFlight[id].msg
    <3>1. PICK id \in S : j = [step |-> "dec", next |-> next, msg |-> inFlight[id].msg,
                              con |-> inFlight[id].con]
      BY Zenon
    <3>2. j.msg = inFlight[id].msg
      BY <3>1, Zenon
    <3> QED
      BY <3>2, Zenon
  <2> HIDE DEF new
  <2>3. \A u \in Threads : \A j \in work'[u] : j \in work[u] \/ (u = t /\ j \in new)
    BY <1>0, <2>1
  <2> QED
    BY <2>2, <2>3
<1>3. ASSUME NEW m \in Message, Copy(m)' PROVE Copy(m)
  <2>1. CASE \E id \in DOMAIN inFlight' : inFlight'[id].msg = m
    BY <1>1, <2>1 DEF Copy
  <2>2. CASE \E u \in Threads : \E j \in work'[u] : j.msg = m
    BY <1>2, <2>2 DEF Copy
  <2> QED
    BY <1>3, <2>1, <2>2 DEF Copy, Holding
<1>4. \A p \in Queues : \A j \in DOMAIN wal'[p] : \E i \in DOMAIN wal[p] : wal'[p][j] = wal[p][i]
  OBVIOUS
<1> QED
  BY <1>3, <1>4, CopiesStayAhead

(* And the DLQ scanner. *)
LEMMA ExpireAhead ==
  ASSUME TInv, AheadInv, NEW q \in Queues, NEW S \in SUBSET DOMAIN topic[q], ExpireDLQPending(q, S)
  PROVE  AheadInv'
<1> DEFINE scan == <<"scan", "dlqttl">>
           kept == DOMAIN topic[q] \ S
<1>0. /\ work \in [Threads -> SUBSET Task] /\ topic \in [Queues -> Seq(Message)]
      /\ scan \in Threads /\ topic[q] \in Seq(Message) /\ kept \in SUBSET DOMAIN topic[q]
  BY DEF TInv, TypeOK, Threads
<1>1. /\ UNCHANGED <<disp, inFlight, wal>>
      /\ topic'[q] = Select(topic[q], kept) /\ \A p \in Queues : p # q => topic'[p] = topic[p]
      /\ \A u \in Threads : u # scan => work'[u] = work[u]
      /\ work'[scan] = {[step |-> "tomb", msg |-> topic[q][i]] : i \in S}
  BY <1>0 DEF ExpireDLQPending
<1>2. \A p \in Queues : \A i \in DOMAIN topic'[p] : \E j \in DOMAIN topic[p] : topic'[p][i] = topic[p][j]
  <2>1. \A j \in DOMAIN Select(topic[q], kept) : \E i \in kept : Select(topic[q], kept)[j] = topic[q][i]
    BY <1>0, SelectProperties, ZenonT(40)
  <2>2. \A j \in DOMAIN topic'[q] : \E i \in DOMAIN topic[q] : topic'[q][j] = topic[q][i]
    BY <1>1, <2>1, Zenon
  <2> TAKE p \in Queues
  <2>3. CASE p = q
    BY <2>2, <2>3
  <2>4. CASE p # q
    BY <1>1, <2>4
  <2> QED
    BY <2>3, <2>4
<1>3. \A u \in Threads : \A j \in work'[u] : j \in work[u] \/ \E i \in S : j.msg = topic[q][i]
  <2> TAKE u \in Threads
  <2>1. CASE u = scan
    BY <1>1, <2>1, SMT
  <2>2. CASE u # scan
    BY <1>1, <2>2
  <2> QED
    BY <2>1, <2>2
<1> HIDE DEF scan, kept
<1>4. ASSUME NEW m \in Message, Copy(m)' PROVE Copy(m)
  <2>1. CASE \E p \in Queues : \E i \in DOMAIN topic'[p] : topic'[p][i] = m
    <3>1. PICK p \in Queues : \E i \in DOMAIN topic'[p] : topic'[p][i] = m
      BY <2>1, Zenon
    <3>2. \E j \in DOMAIN topic[p] : topic[p][j] = m
      BY <1>2, <3>1, ZenonT(40)
    <3> QED
      BY <3>1, <3>2, Zenon DEF Copy
  <2>2. CASE \E u \in Threads : \E j \in work'[u] : j.msg = m
    BY <1>3, <2>2 DEF Copy
  <2> QED
    BY <1>1, <1>4, <2>1, <2>2 DEF Copy, Holding
<1>5. \A p \in Queues : \A j \in DOMAIN wal'[p] : \E i \in DOMAIN wal[p] : wal'[p][j] = wal[p][i]
  BY <1>1
<1> QED
  BY <1>4, <1>5, CopiesStayAhead

(* No log knows a message that is yet to be published. *)
LEMMA PublishAhead ==
  ASSUME TInv, MsgInv, AheadInv, NEW x \in Ids, NEW to \in Queues, Publish(x, to)
  PROVE  AheadInv'
<1> DEFINE p == <<"publish", x>>
<1>0. work \in [Threads -> SUBSET Task] /\ p \in Threads
  BY DEF TInv, TypeOK, Threads, Publishers
<1>1. /\ UNCHANGED <<topic, disp, inFlight, wal>> /\ pub[x] = "new"
      /\ \A u \in Threads : u # p => work'[u] = work[u]
      /\ work'[p] = {[step |-> "enq", msg |-> [id |-> x, queue |-> to, retry |-> 0]]}
  BY <1>0 DEF Publish
<1>2. ASSUME NEW m \in Message, Copy(m)' PROVE Copy(m) \/ m.id = x
  <2>1. CASE \E u \in Threads : \E j \in work'[u] : j.msg = m
    <3>1. PICK u \in Threads : \E j \in work'[u] : j.msg = m
      BY <2>1
    <3>2. CASE u = p
      <4>1. PICK j \in work'[u] : j.msg = m
        BY <3>1, Zenon
      <4>2. j = [step |-> "enq", msg |-> [id |-> x, queue |-> to, retry |-> 0]]
        BY <1>1, <3>2, <4>1, Zenon
      <4>3. j.msg.id = x
        BY <4>2, Zenon
      <4> QED
        BY <4>1, <4>3, Zenon
    <3>3. CASE u # p
      BY <1>1, <3>1, <3>3 DEF Copy
    <3> QED
      BY <3>2, <3>3
  <2> QED
    BY <1>1, <1>2, <2>1 DEF Copy, Holding
<1>3. \A q \in Queues : \A j \in DOMAIN wal[q] : wal[q][j].id # x
  BY <1>1 DEF MsgInv, LogKnown
<1> SUFFICES ASSUME NEW m \in Message, Copy(m)', NEW q \in Queues, NEW j \in DOMAIN wal[q],
                    wal[q][j].type = "msg", wal[q][j].id = m.id
             PROVE  q < m.queue \/ (q = m.queue /\ wal[q][j].retry <= m.retry)
  BY <1>1 DEF AheadInv, Behind
<1>4. Behind(m)
  BY <1>2, <1>3 DEF AheadInv
<1> QED
  BY <1>4 DEF Behind

(* Nothing but a restart brings an older copy back. *)
LEMMA AheadStep ==
  ASSUME TInv, KeyInv, MsgInv, OnceInv, AheadInv, [Next]_vars, ~CrashRestart
  PROVE  AheadInv'
<1>0. <<"scan", "timeout">> \in Threads /\ <<"scan", "dlqttl">> \in Threads
  BY DEF Threads
<1>1. ASSUME UNCHANGED <<topic, inFlight, work>>, \A q \in Queues : Holding(q)' => disp'[q] = disp[q],
             \A q \in Queues : \A j \in DOMAIN wal'[q] : \E i \in DOMAIN wal[q] : wal'[q][j] = wal[q][i]
      PROVE  AheadInv'
  <2>1. \A q \in Queues : Holding(q)' => Holding(q) /\ disp'[q].msg = disp[q].msg
    BY <1>1 DEF Holding
  <2>2. \A m \in Message : Copy(m)' => Copy(m)
    BY <1>1, <2>1 DEF Copy
  <2> QED
    BY <1>1, <2>2, CopiesStayAhead
<1>2. ASSUME UNCHANGED <<topic, inFlight, work, disp, wal>> PROVE AheadInv'
  BY <1>1, <1>2
<1>3. ASSUME TimeoutScan PROVE AheadInv'
  <2>1. PICK S \in SUBSET DOMAIN inFlight : ScanAndTimeout(S)
    BY <1>3 DEF TimeoutScan
  <2>2. Take(<<"scan", "timeout">>, S, "enq") /\ UNCHANGED <<topic, disp, wal>>
    BY <2>1 DEF ScanAndTimeout
  <2> QED
    BY <1>0, <2>2, TakeAhead
<1>4. ASSUME NEW S \in SUBSET DOMAIN inFlight, ExpireDLQInFlight(S) PROVE AheadInv'
  <2>1. Take(<<"scan", "dlqttl">>, S, "tomb") /\ UNCHANGED <<topic, disp, wal>>
    BY <1>4 DEF ExpireDLQInFlight
  <2> QED
    BY <1>0, <2>1, TakeAhead
<1>5. ASSUME NEW c \in Consumers, NEW q \in 0..(MaxDepth - 1), Subscribe(c, q) PROVE AheadInv'
  <2>1. /\ UNCHANGED <<topic, inFlight, work, wal>>
        /\ \A p \in Queues : disp'[p] = disp[p] \/ disp'[p].pc = "dequeue"
    BY <1>5 DEF Subscribe, TInv, TypeOK
  <2>2. \A p \in Queues : Holding(p)' => disp'[p] = disp[p]
    BY <2>1 DEF Holding
  <2> QED
    BY <1>1, <2>1, <2>2
<1>6. ASSUME NEW c \in Consumers, Forward(c) \/ ForwardFails(c) \/ SenderStops(c) \/ Deregister(c) \/ Drained(c)
      PROVE  AheadInv'
  BY <1>2, <1>6 DEF Forward, ForwardFails, SenderStops, Deregister, Drained
<1>7. ASSUME NEW c \in Consumers, Drain(c) PROVE AheadInv'
  <2>1. PICK S \in SUBSET DOMAIN inFlight : Take(<<"drain", c>>, S, "enq")
    BY <1>7 DEF Drain, TakeOne
  <2>2. UNCHANGED <<topic, disp, wal>> /\ <<"drain", c>> \in Threads
    BY <1>7 DEF Drain, Threads
  <2> QED
    BY <2>1, <2>2, TakeAhead
<1>8. ASSUME NEW c \in Consumers, NEW id \in Ids, Ack(c, id) \/ Nack(c, id) PROVE AheadInv'
  <2>1. UNCHANGED <<topic, disp, wal>> /\ <<"recv", c>> \in Threads
    BY <1>8 DEF Ack, Nack, Answered, Threads
  <2>2. PICK next \in {"tomb", "enq"} : TakeOne(<<"recv", c>>, id, next)
    BY <1>8 DEF Ack, Nack
  <2>3. PICK S \in SUBSET DOMAIN inFlight : Take(<<"recv", c>>, S, next)
    BY <2>2 DEF TakeOne
  <2> QED
    BY <2>1, <2>3, TakeAhead
<1>9. ASSUME NEW q \in Queues, Compact(q) PROVE AheadInv'
  <2>1. UNCHANGED <<topic, disp, inFlight, work>>
    BY <1>9 DEF Compact
  <2>2. wal \in [Queues -> Seq(WalRecord)]
    BY DEF TInv, TypeOK, WalRecord
  <2>3. wal'[q] = Replay(wal[q]) /\ \A p \in Queues : p # q => wal'[p] = wal[p]
    BY <1>9, <2>2 DEF Compact
  <2>4. \A k \in DOMAIN Replay(wal[q]) : \E i \in DOMAIN wal[q] : Replay(wal[q])[k] = wal[q][i]
    <3>1. wal[q] \in Seq(WalRecord) /\ Live(wal[q]) \subseteq DOMAIN wal[q]
      BY <2>2 DEF Live, Readable
    <3>2. \A k \in DOMAIN Replay(wal[q]) : \E i \in Live(wal[q]) : Replay(wal[q])[k] = wal[q][i]
      BY <3>1, ReplayProperties
    <3> QED
      BY <3>1, <3>2, Zenon
  <2>5. \A p \in Queues : \A j \in DOMAIN wal'[p] : \E i \in DOMAIN wal[p] : wal'[p][j] = wal[p][i]
    BY <2>3, <2>4, SMT
  <2> QED
    BY <1>1, <2>1, <2>5
<1>10. ASSUME BeginShutdown \/ UNCHANGED vars PROVE AheadInv'
  BY <1>2, <1>10 DEF BeginShutdown, vars
<1> QED
  BY <1>3, <1>4, <1>5, <1>6, <1>7, <1>8, <1>9, <1>10, StepAhead, DispatchAhead, ExpireAhead,
     PublishAhead DEF Next, DlqScan, StepOrFail

(* With one copy, the logs stay behind it for the first run of the process. *)
LEMMA AheadInvariant == Spec => [](TInv /\ (crashes = 0 => AheadInv))
<1>1. Init => AheadInv
  <2> SUFFICES ASSUME Init PROVE AheadInv
    OBVIOUS
  <2>1. /\ DOMAIN <<>> = {} /\ DOMAIN inFlight = {}
        /\ \A q \in Queues : topic[q] = <<>> /\ ~Holding(q)
        /\ \A t \in Threads : work[t] = {}
    BY SMT DEF Init, Holding
  <2>2. \A m \in Message : ~Copy(m)
    BY <2>1 DEF Copy
  <2> QED
    BY <2>2 DEF AheadInv
<1>2. TInv /\ FInv /\ MsgInv /\ (crashes = 0 => OnceInv) /\ (crashes = 0 => AheadInv) /\ [Next]_vars
        => (crashes = 0 => AheadInv)'
  BY FirstRun, AheadStep DEF FInv, LogInv
<1> QED
  BY <1>1, <1>2, TypeInvariant, DeliveryInvariant, SettleInvariant, OnceInvariant, PTL DEF Spec

(***************************************************************************)
(* Until the process restarts a queued message is never behind its log:    *)
(* nackEntry's retry count reaches the log and the topic alike.            *)
(***************************************************************************)
THEOREM RetriesKeptUntilRestart == Spec => [](crashes = 0 => RetryCountKept)
<1>1. TInv /\ (crashes = 0 => AheadInv) => (crashes = 0 => RetryCountKept)
  <2> SUFFICES ASSUME TInv, AheadInv, NEW q \in Queues, NEW i \in DOMAIN topic[q], NEW j \in DOMAIN wal[q],
                      wal[q][j].type = "msg", wal[q][j].id = topic[q][i].id
               PROVE  wal[q][j].retry <= topic[q][i].retry
    BY DEF RetryCountKept
  <2>1. topic[q][i] \in Message /\ topic[q][i].queue = q
    BY ElementOfSeq, LenProperties, SMTT(30) DEF TInv, TypeOK, DepthInv
  <2>2. Behind(topic[q][i])
    BY <2>1 DEF AheadInv, Copy
  <2> QED
    BY <2>1, <2>2, SMT DEF Behind, Queues
<1> QED
  BY <1>1, AheadInvariant, PTL

(***************************************************************************)
(* Until the process restarts a message with a record in a dead-letter     *)
(* queue's log is not in the main queue.                                   *)
(***************************************************************************)
THEOREM DeadLettersFinalUntilRestart == Spec => [](crashes = 0 => DeadLetterFinal)
<1>1. TInv /\ (crashes = 0 => AheadInv) => (crashes = 0 => DeadLetterFinal)
  <2> SUFFICES ASSUME TInv, AheadInv, NEW id \in Ids, DeadLettered(id), NEW i \in DOMAIN topic[0],
                      topic[0][i].id = id
               PROVE  FALSE
    BY DEF DeadLetterFinal
  <2>0. 0 \in Queues
    BY BrokerConstants, SMTT(30) DEF Queues
  <2>1. topic[0][i] \in Message /\ topic[0][i].queue = 0
    BY <2>0, ElementOfSeq, LenProperties, SMTT(30) DEF TInv, TypeOK, DepthInv
  <2>2. Behind(topic[0][i])
    BY <2>0, <2>1 DEF AheadInv, Copy
  <2>3. PICK q \in Queues : q > 0 /\ \E j \in DOMAIN wal[q] : wal[q][j].type = "msg" /\ wal[q][j].id = id
    BY DEF DeadLettered, IsDLQQueue
  <2> QED
    BY <2>1, <2>2, <2>3, SMTT(30) DEF Behind, Queues
<1> QED
  BY <1>1, AheadInvariant, PTL
=============================================================================
