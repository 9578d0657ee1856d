---------------------------- MODULE BrokerProofs ----------------------------
(***************************************************************************)
(* What holds of every state of Broker, for any sets of messages and       *)
(* consumers and any bounds: its types, the prefetch bound, and what makes *)
(* a restart safe: which records are in the logs.                          *)
(***************************************************************************)
EXTENDS Broker, WalRecordsProofs

\* Most leaves are first-order; those that need arithmetic or sequences cite SMT.
USE Zenon

WalRecord == [type : {"msg"}, id : Ids, retry : Nat] \cup [type : {"tomb"}, id : Ids]

\* A message is where its queue field says; nothing is dispatched from the
\* deepest queue, so there is always a deeper one to dead-letter into.
DepthInv ==
  /\ disp[MaxDepth].pc = "off"
  /\ \A q \in Queues : \A i \in DOMAIN topic[q] : topic[q][i].queue = q
  /\ \A q \in Queues : disp[q].pc \notin {"off", "dequeue", "undo"} => disp[q].msg.queue = q
  /\ \A id \in DOMAIN inFlight : inFlight[id].msg.queue < MaxDepth
  /\ \A t \in Threads : \A k \in work[t] :
       k.step = "dec" => k.msg.queue < MaxDepth

TInv == TypeOK /\ DepthInv
-----------------------------------------------------------------------------
(* The entries S of the in-flight map become tasks of one goroutine. *)
LEMMA TakeType ==
  ASSUME TInv, NEW t \in Threads, NEW S \in SUBSET DOMAIN inFlight,
         NEW next \in {"tomb", "enq"}, Take(t, S, next)
  PROVE  /\ DOMAIN inFlight' = DOMAIN inFlight \ S
         /\ \A id \in DOMAIN inFlight' : inFlight'[id] = inFlight[id]
         /\ inFlight' \in [DOMAIN inFlight' -> [msg : Message, con : Consumers]]
         /\ work' \in [Threads -> SUBSET Task]
         /\ \A u \in Threads : \A k \in work'[u] : k.step = "dec" => k.msg.queue < MaxDepth
<1> DEFINE new(id) == [step |-> "dec", next |-> next, msg |-> inFlight[id].msg,
                       con |-> inFlight[id].con]
<1>1. \A id \in DOMAIN inFlight :
        inFlight[id].msg \in Message /\ inFlight[id].con \in Consumers
          /\ inFlight[id].msg.queue < MaxDepth
  BY DEF TInv, TypeOK, DepthInv
<1>2. \A id \in S : new(id) \in Task /\ new(id).msg.queue < MaxDepth
  BY <1>1 DEF Task
<1>3. work' = [work EXCEPT ![t] = @ \cup {new(id) : id \in S}]
  BY DEF Take
<1>4. work \in [Threads -> SUBSET Task]
        /\ \A u \in Threads : \A k \in work[u] : k.step = "dec" => k.msg.queue < MaxDepth
  BY DEF TInv, TypeOK, DepthInv
<1> HIDE DEF new
<1>5. /\ work' \in [Threads -> SUBSET Task]
      /\ \A u \in Threads : \A k \in work'[u] : k.step = "dec" => k.msg.queue < MaxDepth
  <2>1. {new(id) : id \in S} \in SUBSET Task
    BY <1>2
  <2>2. work[t] \cup {new(id) : id \in S} \in SUBSET Task
    BY <1>4, <2>1
  <2>3. work' \in [Threads -> SUBSET Task]
    BY <1>3, <1>4, <2>2
  <2>4. \A u \in Threads : \A k \in work'[u] : k \in work[u] \/ \E id \in S : k = new(id)
    BY <1>3, <1>4
  <2> QED
    BY <2>3, <2>4, <1>2, <1>4
<1>6. /\ DOMAIN inFlight' = DOMAIN inFlight \ S
      /\ \A id \in DOMAIN inFlight' : inFlight'[id] = inFlight[id]
  BY DEF Take
<1>7. inFlight' \in [DOMAIN inFlight' -> [msg : Message, con : Consumers]]
  BY DEF Take, TInv, TypeOK
<1> QED
  BY <1>5, <1>6, <1>7

(* Appending to a sequence keeps its elements. *)
LEMMA AppendFacts ==
  ASSUME NEW T, NEW s \in Seq(T), NEW e \in T
  PROVE  /\ Append(s, e) \in Seq(T)
         /\ DOMAIN s \subseteq DOMAIN Append(s, e)
         /\ \A i \in DOMAIN s : Append(s, e)[i] = s[i]
         /\ \A i \in DOMAIN Append(s, e) : i \in DOMAIN s \/ Append(s, e)[i] = e
         /\ \E i \in DOMAIN Append(s, e) : Append(s, e)[i] = e
<1>1. /\ Len(s) \in Nat /\ DOMAIN s = 1..Len(s)
      /\ Append(s, e) \in Seq(T) /\ Len(Append(s, e)) = Len(s) + 1
      /\ DOMAIN Append(s, e) = 1..(Len(s) + 1)
      /\ \A i \in 1..Len(s) : Append(s, e)[i] = s[i]
      /\ Append(s, e)[Len(s) + 1] = e
  BY LenProperties, AppendProperties, SMT
<1> QED
  BY <1>1, SMT

(* Appending to one of several sequences keeps the elements of all. *)
LEMMA PutFacts ==
  ASSUME NEW I, NEW T, NEW f \in [I -> Seq(T)], NEW q \in I, NEW m \in T,
         NEW g, g = [f EXCEPT ![q] = Append(@, m)]
  PROVE  /\ g \in [I -> Seq(T)]
         /\ \A p \in I : \A i \in DOMAIN f[p] : i \in DOMAIN g[p] /\ g[p][i] = f[p][i]
         /\ \A p \in I : \A i \in DOMAIN g[p] :
              (i \in DOMAIN f[p] /\ g[p][i] = f[p][i]) \/ (p = q /\ g[p][i] = m)
         /\ \E i \in DOMAIN g[q] : g[q][i] = m
<1>1. g[q] = Append(f[q], m) /\ \A p \in I : p # q => g[p] = f[p]
  OBVIOUS
<1>2. /\ Append(f[q], m) \in Seq(T)
      /\ DOMAIN f[q] \subseteq DOMAIN Append(f[q], m)
      /\ \A i \in DOMAIN f[q] : Append(f[q], m)[i] = f[q][i]
      /\ \A i \in DOMAIN Append(f[q], m) : i \in DOMAIN f[q] \/ Append(f[q], m)[i] = m
      /\ \E i \in DOMAIN Append(f[q], m) : Append(f[q], m)[i] = m
  <2>1. f[q] \in Seq(T)
    OBVIOUS
  <2> QED
    BY <2>1, AppendFacts, SMT
<1>3. g \in [I -> Seq(T)]
  BY <1>2
<1>4. /\ DOMAIN f[q] \subseteq DOMAIN g[q]
      /\ \A i \in DOMAIN f[q] : g[q][i] = f[q][i]
      /\ \A i \in DOMAIN g[q] : i \in DOMAIN f[q] \/ g[q][i] = m
      /\ \E i \in DOMAIN g[q] : g[q][i] = m
  BY <1>1, <1>2, Zenon
<1>5. \A p \in I : \A i \in DOMAIN f[p] : i \in DOMAIN g[p] /\ g[p][i] = f[p][i]
  BY <1>1, <1>4, Zenon
<1>6. \A p \in I : \A i \in DOMAIN g[p] :
        (i \in DOMAIN f[p] /\ g[p][i] = f[p][i]) \/ (p = q /\ g[p][i] = m)
  BY <1>1, <1>4, Zenon
<1> QED
  BY <1>3, <1>4, <1>5, <1>6

(* The tail holds the elements but the first. *)
LEMMA TailFacts ==
  ASSUME NEW T, NEW s \in Seq(T), s # <<>>
  PROVE  /\ Head(s) \in T /\ Tail(s) \in Seq(T) /\ 1 \in DOMAIN s /\ Head(s) = s[1]
         /\ \A i \in DOMAIN Tail(s) : \E j \in DOMAIN s : Tail(s)[i] = s[j]
         /\ \A j \in DOMAIN s : j = 1 \/ \E i \in DOMAIN Tail(s) : Tail(s)[i] = s[j]
<1>1. /\ Len(s) \in Nat /\ DOMAIN s = 1..Len(s) /\ Len(s) # 0
      /\ Head(s) \in T /\ Tail(s) \in Seq(T) /\ Len(Tail(s)) = Len(s) - 1
      /\ \A i \in 1..Len(Tail(s)) : Tail(s)[i] = s[i + 1]
  BY LenProperties, HeadTailProperties, EmptySeq
<1>2. DOMAIN Tail(s) = 1..(Len(s) - 1)
  BY <1>1, LenProperties
<1>3. Head(s) = s[1] /\ 1 \in DOMAIN s
  BY <1>1, SMT
<1>4. \A i \in DOMAIN Tail(s) : i + 1 \in DOMAIN s /\ Tail(s)[i] = s[i + 1]
  BY <1>1, <1>2, SMT
<1>5. ASSUME NEW j \in DOMAIN s, j # 1
      PROVE  \E i \in DOMAIN Tail(s) : Tail(s)[i] = s[j]
  <2>1. j - 1 \in DOMAIN Tail(s) /\ Tail(s)[j - 1] = s[j]
    BY <1>1, <1>2, <1>5, SMT
  <2> QED
    BY <2>1
<1> QED
  BY <1>1, <1>3, <1>4, <1>5
-----------------------------------------------------------------------------
(* A goroutine's step on one of its tasks keeps types and depths. *)
LEMMA StepType ==
  ASSUME TInv, NEW t \in Threads, NEW k \in work[t],
         Step(t, k) \/ EnqueueFails(t, k) \/ WriteTombstoneFails(t, k)
  PROVE  TInv'
<1> USE BrokerConstants DEF TInv
<1>0. /\ k \in Task /\ k.msg \in Message /\ k.msg.queue \in Queues /\ k.msg.id \in Ids
      /\ k.step = "dec" => k.con \in Consumers /\ k.next \in {"tomb", "enq"}
                            /\ k.msg.queue < MaxDepth
  <2>1. k \in Task /\ (k.step = "dec" => k.msg.queue < MaxDepth)
    BY DEF TypeOK, DepthInv
  <2>2. k.msg \in Message /\ (k.step = "dec" => k.con \in Consumers /\ k.next \in {"tomb", "enq"})
    BY <2>1 DEF Task
  <2>3. k.msg.queue \in Queues /\ k.msg.id \in Ids
    BY <2>2 DEF Message
  <2> QED
    BY <2>1, <2>2, <2>3, Zenon
<1>l. Logged(k.msg) \in [Queues -> Seq(WalRecord)] /\ Tombstoned(k.msg) \in [Queues -> Seq(WalRecord)]
  <2>1. wal \in [Queues -> Seq(WalRecord)]
    BY DEF TypeOK, WalRecord
  <2>2. RecordMessage(k.msg.id, k.msg.retry) \in WalRecord /\ RecordTombstone(k.msg.id) \in WalRecord
    BY <1>0 DEF RecordMessage, RecordTombstone, WalRecord, Message
  <2>3. /\ Append(wal[k.msg.queue], RecordMessage(k.msg.id, k.msg.retry)) \in Seq(WalRecord)
        /\ Append(wal[k.msg.queue], RecordTombstone(k.msg.id)) \in Seq(WalRecord)
    BY <1>0, <2>1, <2>2, AppendFacts, SMT
  <2> QED
    BY <2>1, <2>3 DEF Logged, Tombstoned
<1>a. \A r \in {"ok", "err"} : Answer(t, k, r) => pub' \in [Ids -> {"new", "busy", "ok", "err"}]
  BY <1>0 DEF Answer, TypeOK
<1>r. work[t] \ {k} \in SUBSET Task /\ work \in [Threads -> SUBSET Task]
  BY DEF TypeOK
<1>1. CASE EnqueueWal(t, k)
  <2>1. [step |-> "topic", msg |-> k.msg] \in Task
    BY <1>0 DEF Task
  <2>2. work' \in [Threads -> SUBSET Task]
    BY <1>1, <1>r, <2>1 DEF EnqueueWal
  <2>3. TypeOK'
    BY <1>1, <1>l, <2>2 DEF EnqueueWal, consumerVars, TypeOK, WalRecord
  <2>4. DepthInv'
    BY <1>1, <1>r, SMT DEF EnqueueWal, DepthInv
  <2> QED
    BY <2>3, <2>4
<1>c. CASE EnqueueCheck(t, k)
  <2>1. [step |-> "wal", msg |-> k.msg] \in Task
    BY <1>0 DEF Task
  <2>2. work' \in [Threads -> SUBSET Task]
    BY <1>c, <1>r, <2>1 DEF EnqueueCheck
  <2>3. TypeOK'
    BY <1>c, <2>2 DEF EnqueueCheck, consumerVars, TypeOK
  <2>4. DepthInv'
    BY <1>c, <1>r, SMT DEF EnqueueCheck, DepthInv
  <2> QED
    BY <2>3, <2>4
<1>2. CASE EnqueueRejected(t, k)
  <2>1. TypeOK'
    BY <1>2, <1>0, <1>a, <1>r DEF EnqueueRejected, consumerVars, TypeOK
  <2>2. DepthInv'
    BY <1>2, <1>r DEF EnqueueRejected, DepthInv
  <2> QED
    BY <2>1, <2>2
<1>3. CASE EnqueueFails(t, k)
  <2>1. wal' \in [Queues -> Seq(WalRecord)]
    BY <1>3, <1>l DEF EnqueueFails, TypeOK, WalRecord
  <2>f. faults' \in 0..MaxFaults
    BY <1>3, SMT DEF EnqueueFails, TypeOK
  <2>w. work' \in [Threads -> SUBSET Task] /\ lost' \subseteq Ids
    BY <1>3, <1>0, <1>r DEF EnqueueFails, TypeOK
  <2>p. pub' \in [Ids -> {"new", "busy", "ok", "err"}]
    BY <1>3, <1>a DEF EnqueueFails
  <2>u. UNCHANGED <<topic, closing, disp, inFlight, status, sub, count, send, settled, seen,
                    acked, dead, crashes>>
    BY <1>3 DEF EnqueueFails, consumerVars
  <2>2. TypeOK'
    BY <2>1, <2>f, <2>w, <2>p, <2>u DEF TypeOK, WalRecord
  <2>3. DepthInv'
    BY <1>3, <1>r DEF EnqueueFails, DepthInv
  <2> QED
    BY <2>2, <2>3
<1>4. CASE EnqueueTopic(t, k)
  <2>1. topic \in [Queues -> Seq(Message)] /\ topic[k.msg.queue] \in Seq(Message)
    BY <1>0 DEF TypeOK
  <2>p. topic' = [topic EXCEPT ![k.msg.queue] = Append(@, k.msg)]
    BY <1>4 DEF EnqueueTopic
  <2>2. /\ topic' \in [Queues -> Seq(Message)]
        /\ \A q \in Queues : \A i \in DOMAIN topic'[q] :
             \/ i \in DOMAIN topic[q] /\ topic'[q][i] = topic[q][i]
             \/ q = k.msg.queue /\ topic'[q][i] = k.msg
    BY <1>0, <2>1, <2>p, PutFacts, SMTT(30)
  <2>3. TypeOK'
    BY <1>4, <1>0, <1>a, <1>r, <2>2 DEF EnqueueTopic, consumerVars, TypeOK
  <2>4. \A q \in Queues : \A i \in DOMAIN topic'[q] : topic'[q][i].queue = q
    BY <2>2, SMT DEF DepthInv
  <2>5. DepthInv'
    BY <1>4, <1>r, <2>4 DEF EnqueueTopic, DepthInv
  <2> QED
    BY <2>3, <2>5
<1>5. CASE DecrementInFlight(t, k)
  <2>1. k.step = "dec"
    BY <1>5 DEF DecrementInFlight
  <2>2. Requeued(k.msg) \in Message
    BY <1>0, <2>1, SMT DEF Requeued, Message, Queues
  <2>3. AfterDecrement(k) \in Task /\ AfterDecrement(k).step # "dec"
    BY <1>0, <2>1, <2>2 DEF AfterDecrement, Task
  <2>4. work' \in [Threads -> SUBSET Task]
    BY <1>5, <1>r, <2>3 DEF DecrementInFlight
  <2>5. count' \in [Consumers -> Int]
    <3>1. count \in [Consumers -> Int] /\ k.con \in Consumers
      BY <1>0, <2>1 DEF TypeOK
    <3>2. count' = count \/ count' = [count EXCEPT ![k.con] = @ - 1]
      BY <1>5 DEF DecrementInFlight
    <3>3. count[k.con] - 1 \in Int
      BY <3>1, SMT
    <3> QED
      BY <3>1, <3>2, <3>3
  <2>d. dead' \subseteq Ids
    BY <1>5, <1>0 DEF DecrementInFlight, TypeOK
  <2>6. TypeOK'
    BY <1>5, <2>4, <2>5, <2>d DEF DecrementInFlight, TypeOK
  <2>7. DepthInv'
    BY <1>5, <1>r, <2>3 DEF DecrementInFlight, DepthInv
  <2> QED
    BY <2>6, <2>7
<1>6. CASE WriteTombstone(t, k)
  <2>1. TypeOK'
    BY <1>6, <1>0, <1>l, <1>r DEF WriteTombstone, consumerVars, TypeOK, WalRecord
  <2>2. DepthInv'
    BY <1>6, <1>r DEF WriteTombstone, DepthInv
  <2> QED
    BY <2>1, <2>2
<1>7. CASE WriteTombstoneFails(t, k)
  <2>1. wal' \in [Queues -> Seq(WalRecord)]
    BY <1>7, <1>l DEF WriteTombstoneFails, TypeOK, WalRecord
  <2>f. faults' \in 0..MaxFaults
    BY <1>7, SMT DEF WriteTombstoneFails, TypeOK
  <2>w. work' \in [Threads -> SUBSET Task] /\ settled' \subseteq Ids
    BY <1>7, <1>0, <1>r DEF WriteTombstoneFails, TypeOK
  <2>u. UNCHANGED <<topic, closing, disp, inFlight, status, sub, count, send, pub, seen, acked,
                    dead, lost, crashes>>
    BY <1>7 DEF WriteTombstoneFails, consumerVars
  <2>2. TypeOK'
    BY <2>1, <2>f, <2>w, <2>u DEF TypeOK, WalRecord
  <2>3. DepthInv'
    BY <1>7, <1>r DEF WriteTombstoneFails, DepthInv
  <2> QED
    BY <2>2, <2>3
<1> QED
  BY <1>1, <1>c, <1>2, <1>3, <1>4, <1>5, <1>6, <1>7 DEF Step
-----------------------------------------------------------------------------
(* A dispatcher's step keeps types and depths. *)
LEMMA DispatchType ==
  ASSUME TInv, NEW q \in Queues, Dispatch(q)
  PROVE  TInv'
<1> USE BrokerConstants DEF TInv
<1>0. disp \in [Queues -> Dispatcher] /\ disp[q] \in Dispatcher /\ MaxDepth \in Queues
        /\ q \in Nat
  BY SMT DEF TypeOK, Queues
<1>1. CASE Dequeue(q)
  <2>1. topic[q] \in Seq(Message) /\ topic[q] # <<>> /\ q # MaxDepth
    BY <1>1 DEF Dequeue, TypeOK, DepthInv
  <2>2. Head(topic[q]) \in Message /\ Head(topic[q]).queue = q /\ Tail(topic[q]) \in Seq(Message)
    BY <2>1, TailFacts, SMT DEF DepthInv
  <2>3. [pc |-> "hold", msg |-> Head(topic[q])] \in Dispatcher
    BY <2>2 DEF Dispatcher
  <2>4. TypeOK'
    BY <1>1, <1>0, <2>2, <2>3 DEF Dequeue, consumerVars, TypeOK
  <2>5. \A p \in Queues : \A i \in DOMAIN topic'[p] : topic'[p][i].queue = p
    <3>1. topic'[q] = Tail(topic[q]) /\ \A p \in Queues : p # q => topic'[p] = topic[p]
      BY <1>1 DEF Dequeue, TypeOK
    <3>2. \A i \in DOMAIN Tail(topic[q]) : \E j \in DOMAIN topic[q] : Tail(topic[q])[i] = topic[q][j]
      BY <2>1, TailFacts
    <3>3. \A p \in Queues : \A i \in DOMAIN topic[p] : topic[p][i].queue = p
      BY DEF DepthInv
    <3>4. \A i \in DOMAIN topic'[q] : \E j \in DOMAIN topic[q] : topic'[q][i] = topic[q][j]
      BY <3>1, <3>2, Zenon
    <3>5. ASSUME NEW i \in DOMAIN topic'[q] PROVE topic'[q][i].queue = q
      <4>1. PICK j \in DOMAIN topic[q] : topic'[q][i] = topic[q][j]
        BY <3>4
      <4> QED
        BY <3>3, <4>1
    <3> QED
      BY <3>1, <3>3, <3>5
  <2>6. DepthInv'
    BY <1>1, <1>0, <2>1, <2>2, <2>5 DEF Dequeue, DepthInv
  <2> QED
    BY <2>4, <2>6
<1>2. CASE FindEligible(q)
  <2>1. disp[q].msg \in Message /\ disp[q].msg.queue = q /\ q # MaxDepth
    BY <1>2, <1>0 DEF FindEligible, Dispatcher, DepthInv
  <2>2. [pc |-> "pick", msg |-> disp[q].msg, elig |-> EligibleConsumers(q)] \in Dispatcher
    BY <2>1 DEF Dispatcher, EligibleConsumers
  <2>3. TypeOK'
    BY <1>2, <1>0, <2>2 DEF FindEligible, consumerVars, TypeOK
  <2>4. DepthInv'
    BY <1>2, <1>0, <2>1 DEF FindEligible, DepthInv
  <2> QED
    BY <2>3, <2>4
<1>3. CASE IncrementInFlight(q)
  <2>1. disp[q].msg \in Message /\ disp[q].msg.queue = q /\ q # MaxDepth
          /\ disp[q].elig \subseteq Consumers
    BY <1>3, <1>0 DEF IncrementInFlight, Dispatcher, DepthInv
  <2>2. PICK c \in Consumers :
          /\ count' = count \/ count' = [count EXCEPT ![c] = @ + 1]
          /\ disp' = [disp EXCEPT ![q] = [pc |-> "register", msg |-> disp[q].msg, con |-> c]]
    BY <1>3, <2>1 DEF IncrementInFlight, LeastInFlight
  <2>3. count' \in [Consumers -> Int]
    <3>1. count \in [Consumers -> Int] /\ count[c] + 1 \in Int
      BY SMT DEF TypeOK
    <3> QED
      BY <2>2, <3>1
  <2>4. [pc |-> "register", msg |-> disp[q].msg, con |-> c] \in Dispatcher
    BY <2>1 DEF Dispatcher
  <2>5. TypeOK'
    BY <1>3, <1>0, <2>2, <2>3, <2>4 DEF IncrementInFlight, TypeOK
  <2>6. DepthInv'
    BY <1>3, <1>0, <2>1, <2>2 DEF IncrementInFlight, DepthInv
  <2> QED
    BY <2>5, <2>6
<1>4. CASE Register(q)
  <2>1. disp[q].msg \in Message /\ disp[q].msg.queue = q /\ q < MaxDepth
          /\ disp[q].con \in Consumers /\ disp[q].msg.id \in Ids
    BY <1>4, <1>0, SMT DEF Register, Dispatcher, DepthInv, Queues, Message
  <2>2. /\ DOMAIN inFlight' = DOMAIN inFlight \cup {disp[q].msg.id}
        /\ \A id \in DOMAIN inFlight' : inFlight'[id] =
             IF id = disp[q].msg.id THEN [msg |-> disp[q].msg, con |-> disp[q].con] ELSE inFlight[id]
    BY <1>4 DEF Register
  <2>3. inFlight' \in [DOMAIN inFlight' -> [msg : Message, con : Consumers]]
    BY <1>4, <2>1 DEF Register, TypeOK
  <2>4. [pc |-> "send", msg |-> disp[q].msg, con |-> disp[q].con] \in Dispatcher
    BY <2>1 DEF Dispatcher
  <2>5. TypeOK'
    BY <1>4, <1>0, <2>1, <2>2, <2>3, <2>4 DEF Register, consumerVars, TypeOK
  <2>6. \A id \in DOMAIN inFlight' : inFlight'[id].msg.queue < MaxDepth
    BY <2>1, <2>2, SMTT(30) DEF DepthInv
  <2>7. DepthInv'
    BY <1>4, <1>0, <2>1, <2>6 DEF Register, DepthInv
  <2> QED
    BY <2>5, <2>7
<1>5. CASE Send(q)
  <2>1. disp[q].msg \in Message /\ disp[q].con \in Consumers /\ q # MaxDepth
    BY <1>5, <1>0 DEF Send, Dispatcher, DepthInv
  <2>2. send' \in [Consumers -> Seq(Message)]
    BY <1>5, <2>1, AppendFacts, SMTT(30) DEF Send, TypeOK
  <2>3. [pc |-> "dequeue"] \in Dispatcher
    BY DEF Dispatcher
  <2>4. TypeOK'
    BY <1>5, <1>0, <2>2, <2>3 DEF Send, TypeOK
  <2>5. DepthInv'
    BY <1>5, <1>0, <2>1 DEF Send, DepthInv
  <2> QED
    BY <2>4, <2>5
<1> QED
  BY <1>1, <1>2, <1>3, <1>4, <1>5 DEF Dispatch
-----------------------------------------------------------------------------
(* The scanners keep types and depths. *)
LEMMA ScanType ==
  ASSUME TInv, TimeoutScan \/ DlqScan
  PROVE  TInv'
<1> USE DEF TInv
<1>t. <<"scan", "timeout">> \in Threads /\ <<"scan", "dlqttl">> \in Threads
  BY DEF Threads
<1>1. ASSUME NEW S \in SUBSET DOMAIN inFlight, ScanAndTimeout(S) PROVE TInv'
  <2>1. Take(<<"scan", "timeout">>, S, "enq")
    BY <1>1 DEF ScanAndTimeout
  <2>2. TypeOK'
    BY <1>1, <1>t, <2>1, TakeType DEF ScanAndTimeout, consumerVars, TypeOK
  <2>3. DepthInv'
    BY <1>1, <1>t, <2>1, TakeType DEF ScanAndTimeout, DepthInv
  <2> QED
    BY <2>2, <2>3
<1>2. ASSUME NEW S \in SUBSET DOMAIN inFlight, ExpireDLQInFlight(S) PROVE TInv'
  <2>1. Take(<<"scan", "dlqttl">>, S, "tomb")
    BY <1>2 DEF ExpireDLQInFlight
  <2>2. TypeOK'
    BY <1>2, <1>t, <2>1, TakeType DEF ExpireDLQInFlight, consumerVars, TypeOK
  <2>3. DepthInv'
    BY <1>2, <1>t, <2>1, TakeType DEF ExpireDLQInFlight, DepthInv
  <2> QED
    BY <2>2, <2>3
<1>3. ASSUME NEW q \in Queues, NEW S \in SUBSET DOMAIN topic[q], ExpireDLQPending(q, S)
      PROVE  TInv'
  <2>1. topic[q] \in Seq(Message) /\ DOMAIN topic[q] \ S \in SUBSET DOMAIN topic[q]
    BY DEF TypeOK
  <2>2. /\ Select(topic[q], DOMAIN topic[q] \ S) \in Seq(Message)
        /\ \A k \in DOMAIN Select(topic[q], DOMAIN topic[q] \ S) :
             \E i \in DOMAIN topic[q] : Select(topic[q], DOMAIN topic[q] \ S)[k] = topic[q][i]
    BY <2>1, SelectProperties, ZenonT(40)
  <2>3. topic' = [topic EXCEPT ![q] = Select(topic[q], DOMAIN topic[q] \ S)]
    BY <1>3 DEF ExpireDLQPending, TypeOK
  <2>4. \A i \in S : [step |-> "tomb", msg |-> topic[q][i]] \in Task
    BY <2>1, LenProperties, SMT DEF Task
  <2>5. {[step |-> "tomb", msg |-> topic[q][i]] : i \in S} \in SUBSET Task
    BY <2>4
  <2>6. work' \in [Threads -> SUBSET Task]
    BY <1>3, <1>t, <2>5 DEF ExpireDLQPending, TypeOK
  <2>7. TypeOK'
    BY <1>3, <2>2, <2>3, <2>6, SMT DEF ExpireDLQPending, consumerVars, TypeOK
  <2>8. \A p \in Queues : \A i \in DOMAIN topic'[p] : topic'[p][i].queue = p
    <3>1. \A p \in Queues : \A i \in DOMAIN topic[p] : topic[p][i].queue = p
      BY DEF DepthInv
    <3>2. topic'[q] = Select(topic[q], DOMAIN topic[q] \ S)
            /\ \A p \in Queues : p # q => topic'[p] = topic[p]
      BY <2>3 DEF TypeOK
    <3>3. ASSUME NEW k \in DOMAIN topic'[q] PROVE topic'[q][k].queue = q
      <4>1. PICK i \in DOMAIN topic[q] : topic'[q][k] = topic[q][i]
        BY <2>2, <3>2, Zenon
      <4> QED
        BY <3>1, <4>1
    <3> QED
      BY <3>1, <3>2, <3>3
  <2>9. \A t \in Threads : \A k \in work'[t] : k.step = "dec" => k.msg.queue < MaxDepth
    BY <1>3, <1>t, SMT DEF ExpireDLQPending, TypeOK, DepthInv
  <2>10. DepthInv'
    BY <1>3, <2>8, <2>9 DEF ExpireDLQPending, DepthInv
  <2> QED
    BY <2>7, <2>10
<1> QED
  BY <1>1, <1>2, <1>3 DEF TimeoutScan, DlqScan

(* The steps of a Subscribe call keep types and depths. *)
LEMMA ConsumerType ==
  ASSUME TInv, NEW c \in Consumers,
         \/ \E q \in 0..(MaxDepth - 1) : Subscribe(c, q)
         \/ Forward(c) \/ ForwardFails(c) \/ SenderStops(c) \/ Deregister(c) \/ Drain(c) \/ Drained(c)
         \/ \E id \in Ids : Ack(c, id) \/ Nack(c, id)
  PROVE  TInv'
<1> USE BrokerConstants DEF TInv
<1>t. <<"recv", c>> \in Threads /\ <<"drain", c>> \in Threads
  BY DEF Threads
<1>s. send[c] \in Seq(Message) /\ send \in [Consumers -> Seq(Message)]
  BY DEF TypeOK
<1>1. ASSUME NEW q \in 0..(MaxDepth - 1), Subscribe(c, q) PROVE TInv'
  <2>1. q \in Queues /\ q # MaxDepth /\ MaxDepth \in Queues
    BY SMT DEF Queues
  <2>2. [pc |-> "dequeue"] \in Dispatcher
    BY DEF Dispatcher
  <2>3. TypeOK'
    BY <1>1, <2>1, <2>2 DEF Subscribe, TypeOK
  <2>4. DepthInv'
    BY <1>1, <2>1 DEF Subscribe, TypeOK, DepthInv
  <2> QED
    BY <2>3, <2>4
<1>2. CASE Forward(c)
  <2>1. Head(send[c]) \in Message /\ Head(send[c]).id \in Ids /\ Tail(send[c]) \in Seq(Message)
    <3>1. send[c] # <<>>
      BY <1>2 DEF Forward
    <3>2. Head(send[c]) \in Message /\ Tail(send[c]) \in Seq(Message)
      BY <1>s, <3>1, TailFacts
    <3> QED
      BY <3>2 DEF Message
  <2>s. seen' \subseteq Ids /\ send' \in [Consumers -> Seq(Message)]
    BY <1>2, <1>s, <2>1 DEF Forward, TypeOK
  <2>3. TypeOK'
    BY <1>2, <2>s, ZenonT(40) DEF Forward, TypeOK
  <2>4. DepthInv'
    BY <1>2 DEF Forward, DepthInv
  <2> QED
    BY <2>3, <2>4
<1>3. CASE ForwardFails(c)
  <2>1. Tail(send[c]) \in Seq(Message)
    BY <1>3, <1>s, TailFacts DEF ForwardFails
  <2>2. TypeOK'
    BY <1>3, <1>s, <2>1 DEF ForwardFails, SenderEnded, TypeOK
  <2>3. DepthInv'
    BY <1>3 DEF ForwardFails, DepthInv
  <2> QED
    BY <2>2, <2>3
<1>4. CASE Deregister(c)
  <2>1. TypeOK'
    BY <1>4 DEF Deregister, TypeOK
  <2>2. DepthInv'
    BY <1>4 DEF Deregister, DepthInv
  <2> QED
    BY <2>1, <2>2
<1>8. CASE SenderStops(c)
  <2>1. TypeOK'
    BY <1>8 DEF SenderStops, SenderEnded, TypeOK
  <2>2. DepthInv'
    BY <1>8 DEF SenderStops, DepthInv
  <2> QED
    BY <2>1, <2>2
<1>5. CASE Drain(c)
  <2>1. Tail(send[c]) \in Seq(Message)
    BY <1>5, <1>s, TailFacts DEF Drain
  <2>2. PICK S \in SUBSET DOMAIN inFlight : Take(<<"drain", c>>, S, "enq")
    BY <1>5 DEF Drain, TakeOne
  <2>3. TypeOK'
    BY <1>5, <1>t, <1>s, <2>1, <2>2, TakeType DEF Drain, TypeOK
  <2>4. DepthInv'
    BY <1>5, <1>t, <2>2, TakeType DEF Drain, DepthInv
  <2> QED
    BY <2>3, <2>4
<1>6. CASE Drained(c)
  <2>1. TypeOK'
    BY <1>6 DEF Drained, TypeOK
  <2>2. DepthInv'
    BY <1>6 DEF Drained, DepthInv
  <2> QED
    BY <2>1, <2>2
<1>7. ASSUME NEW id \in Ids, Ack(c, id) \/ Nack(c, id) PROVE TInv'
  <2>1. PICK S \in SUBSET DOMAIN inFlight, n \in {"tomb", "enq"} : Take(<<"recv", c>>, S, n)
    BY <1>7 DEF Ack, Nack, TakeOne
  <2>2. Answered(c)
    BY <1>7 DEF Ack, Nack
  <2>3. acked' \subseteq Ids
    BY <1>7 DEF Ack, Nack, TypeOK
  <2>4. /\ DOMAIN inFlight' \subseteq DOMAIN inFlight
        /\ \A i \in DOMAIN inFlight' : inFlight'[i] = inFlight[i]
        /\ inFlight' \in [DOMAIN inFlight' -> [msg : Message, con : Consumers]]
        /\ work' \in [Threads -> SUBSET Task]
        /\ \A u \in Threads : \A k \in work'[u] : k.step = "dec" => k.msg.queue < MaxDepth
    <3>1. DOMAIN inFlight' = DOMAIN inFlight \ S
      BY <2>1 DEF Take
    <3> QED
      BY <1>t, <2>1, <3>1, TakeType
  <2>5. TypeOK'
    BY <2>2, <2>3, <2>4 DEF Answered, consumerVars, TypeOK
  <2>6. DepthInv'
    BY <2>2, <2>4 DEF Answered, DepthInv
  <2> QED
    BY <2>5, <2>6
<1> QED
  BY <1>1, <1>2, <1>3, <1>4, <1>5, <1>6, <1>7, <1>8

(* Publishing, compaction, shutdown and restart keep types and depths. *)
LEMMA ProcessType ==
  ASSUME TInv,
         \/ \E id \in Ids, q \in Queues : Publish(id, q)
         \/ \E q \in Queues : Compact(q)
         \/ BeginShutdown \/ CrashRestart
  PROVE  TInv'
<1> USE BrokerConstants DEF TInv
<1>w. \A q \in Queues : wal[q] \in Seq(WalRecord)
  BY DEF TypeOK, WalRecord
<1>r. \A q \in Queues : Replay(wal[q]) \in Seq(WalRecord)
  BY <1>w, ReplayProperties
<1>1. ASSUME NEW id \in Ids, NEW q \in Queues, Publish(id, q) PROVE TInv'
  <2>1. <<"publish", id>> \in Threads
    BY DEF Threads, Publishers
  <2>2. [step |-> "enq", msg |-> [id |-> id, queue |-> q, retry |-> 0]] \in Task
    BY SMT DEF Task, Message
  <2>d. dead' \subseteq Ids
    BY <1>1 DEF Publish, TypeOK
  <2>3. TypeOK'
    BY <1>1, <2>1, <2>2, <2>d DEF Publish, consumerVars, TypeOK
  <2>4. DepthInv'
    BY <1>1, <2>1, SMTT(30) DEF Publish, DepthInv, TypeOK
  <2> QED
    BY <2>3, <2>4
<1>2. ASSUME NEW q \in Queues, Compact(q) PROVE TInv'
  <2>1. wal' \in [Queues -> Seq(WalRecord)]
    BY <1>2, <1>r DEF Compact, TypeOK, WalRecord
  <2>2. TypeOK'
    BY <1>2, <2>1 DEF Compact, consumerVars, TypeOK, WalRecord
  <2>3. DepthInv'
    BY <1>2 DEF Compact, DepthInv
  <2> QED
    BY <2>2, <2>3
<1>3. CASE BeginShutdown
  <2>1. TypeOK'
    BY <1>3 DEF BeginShutdown, consumerVars, TypeOK
  <2>2. DepthInv'
    BY <1>3 DEF BeginShutdown, DepthInv
  <2> QED
    BY <2>1, <2>2
<1>4. CASE CrashRestart
  <2>1. ASSUME NEW q \in Queues
        PROVE  /\ Replayed(q) \in Seq(Message)
               /\ \A i \in DOMAIN Replayed(q) : Replayed(q)[i].queue = q
    <3>1. /\ Len(Replay(wal[q])) \in Nat /\ DOMAIN Replay(wal[q]) = 1..Len(Replay(wal[q]))
          /\ \A k \in DOMAIN Replay(wal[q]) :
               Replay(wal[q])[k] \in WalRecord /\ Replay(wal[q])[k].type = "msg"
      BY <1>w, ReplayProperties
    <3>2. \A k \in DOMAIN Replay(wal[q]) :
            Replay(wal[q])[k].id \in Ids /\ Replay(wal[q])[k].retry \in Nat
      BY <3>1 DEF WalRecord
    <3>3. Replayed(q) \in [1..Len(Replay(wal[q])) -> Message]
      BY <3>1, <3>2 DEF Replayed, Message
    <3>4. Replayed(q) \in Seq(Message)
      BY <3>1, <3>3, SeqDef, SMT
    <3>5. \A i \in DOMAIN Replayed(q) : Replayed(q)[i].queue = q
      BY DEF Replayed
    <3> QED
      BY <3>4, <3>5
  <2>2. topic' \in [Queues -> Seq(Message)]
    BY <1>4, <2>1 DEF CrashRestart
  <2>3. DOMAIN inFlight' = {} /\ inFlight' \in [DOMAIN inFlight' -> [msg : Message, con : Consumers]]
    BY <1>4 DEF CrashRestart
  <2>4. disp' \in [Queues -> Dispatcher]
    BY <1>4 DEF CrashRestart, Dispatcher
  <2>5. /\ send' \in [Consumers -> Seq(Message)]
        /\ work' \in [Threads -> SUBSET Task]
    BY <1>4, EmptySeq DEF CrashRestart
  <2>6. /\ status' \in [Consumers -> {"new", "up", "halted", "closing", "draining", "ended", "gone"}]
        /\ pub' \in [Ids -> {"new", "busy", "ok", "err"}]
    BY <1>4 DEF CrashRestart, TypeOK
  <2>7. TypeOK'
    <3>1. /\ crashes' \in 0..MaxCrashes /\ closing' \in BOOLEAN /\ lost' \subseteq Ids
          /\ DOMAIN inFlight' \subseteq Ids
      <4>1. crashes \in 0..MaxCrashes /\ crashes < MaxCrashes /\ crashes' = crashes + 1
        BY <1>4 DEF CrashRestart, TypeOK
      <4>2. crashes' \in 0..MaxCrashes
        BY <4>1, SMT
      <4>3. closing' = FALSE /\ lost' = {}
        BY <1>4 DEF CrashRestart
      <4> QED
        BY <2>3, <4>2, <4>3, Zenon
    <3>2. /\ UNCHANGED <<wal, settled, seen, acked, dead, faults>>
      BY <1>4 DEF CrashRestart
    <3>3. /\ wal' \in [Queues -> Seq(WalRecord)] /\ faults' \in 0..MaxFaults
          /\ settled' \subseteq Ids /\ seen' \subseteq Ids /\ acked' \subseteq Ids
          /\ dead' \subseteq Ids
      BY <3>2 DEF TypeOK, WalRecord
    <3>4. sub' \in [Consumers -> Queues] /\ count' \in [Consumers -> Int]
      <4>1. 0 \in Queues /\ 0 \in Int
        BY SMT DEF Queues
      <4> QED
        BY <1>4, <4>1 DEF CrashRestart
    <3> QED
      BY <2>2, <2>3, <2>4, <2>5, <2>6, <3>1, <3>3, <3>4, Zenon DEF TypeOK, WalRecord
  <2>8. \A q \in Queues : \A i \in DOMAIN topic'[q] : topic'[q][i].queue = q
    BY <1>4, <2>1 DEF CrashRestart
  <2>9. DepthInv'
    <3>1. /\ \A q \in Queues : disp'[q].pc = "off"
          /\ \A t \in Threads : work'[t] = {}
          /\ MaxDepth \in Queues
      BY <1>4, SMT DEF CrashRestart, Queues
    <3> QED
      BY <2>3, <2>8, <3>1 DEF DepthInv
  <2> QED
    BY <2>7, <2>9
<1> QED
  BY <1>1, <1>2, <1>3, <1>4

(* Every step keeps the types. *)
LEMMA TypeStep ==
  ASSUME TInv, [Next]_vars
  PROVE  TInv'
<1>1. CASE UNCHANGED vars
  BY <1>1 DEF vars, TInv, TypeOK, DepthInv
<1>2. CASE Next
  BY <1>2, StepType, DispatchType, ScanType, ConsumerType, ProcessType DEF Next
<1> QED
  BY <1>1, <1>2

(* The broker starts with empty logs, queues and maps. *)
LEMMA TypeInit == Init => TInv
<1> SUFFICES ASSUME Init PROVE TInv
  OBVIOUS
<1> USE BrokerConstants DEF Init
<1>1. <<>> \in Seq(WalRecord) /\ <<>> \in Seq(Message) /\ 0 \in Queues /\ DOMAIN <<>> = {}
  BY EmptySeq, SMT DEF Queues
<1>2. wal \in [Queues -> Seq(WalRecord)] /\ topic \in [Queues -> Seq(Message)]
        /\ send \in [Consumers -> Seq(Message)]
  BY <1>1
<1>3. DOMAIN inFlight = {} /\ inFlight \in [DOMAIN inFlight -> [msg : Message, con : Consumers]]
  OBVIOUS
<1>4. disp \in [Queues -> Dispatcher] /\ work \in [Threads -> SUBSET Task]
  BY DEF Dispatcher
<1>5. TypeOK
  <2>1. /\ crashes \in 0..MaxCrashes /\ faults \in 0..MaxFaults /\ closing \in BOOLEAN
        /\ settled \subseteq Ids /\ seen \subseteq Ids /\ acked \subseteq Ids
        /\ dead \subseteq Ids /\ lost \subseteq Ids
        /\ DOMAIN inFlight \subseteq Ids
    <3>1. 0 \in 0..MaxCrashes /\ 0 \in 0..MaxFaults
      BY SMT
    <3> QED
      BY <1>3, <3>1, Zenon
  <2>2. /\ status \in [Consumers -> {"new", "up", "halted", "closing", "draining", "ended", "gone"}]
        /\ sub \in [Consumers -> Queues] /\ count \in [Consumers -> Int]
        /\ pub \in [Ids -> {"new", "busy", "ok", "err"}]
    BY <1>1, SMTT(30)
  <2> HIDE DEF Init
  <2> QED
    BY <1>2, <1>3, <1>4, <2>1, <2>2, Zenon DEF TypeOK, WalRecord
<1>6. DepthInv
  BY <1>1, <1>3, SMT DEF DepthInv, Queues
<1> QED
  BY <1>5, <1>6 DEF TInv

(* Types and depths are invariant. *)
LEMMA TypeInvariant == Spec => []TInv
<1>1. Init => TInv
  BY TypeInit
<1>2. TInv /\ [Next]_vars => TInv'
  BY TypeStep
<1> QED
  BY <1>1, <1>2, PTL DEF Spec

(* Every variable of the broker keeps its type; in particular a message is *)
(* never lost to a queue name outside the model's.                         *)
THEOREM TypeCorrect == Spec => []TypeOK
BY TypeInvariant, PTL DEF TInv
-----------------------------------------------------------------------------
\* What a dispatcher learnt of the consumers it found eligible stays true
\* until it picks one: only its own queue's dispatcher raises their counters.
EligInv ==
  \A q \in Queues : disp[q].pc = "pick" =>
    \A c \in disp[q].elig : sub[c] = q /\ status[c] # "new" /\ count[c] < PrefetchLimit(c)

PInv == EligInv /\ PrefetchRespected

(* A prefetch limit is a positive number. *)
LEMMA LimitPositive == \A c \in Consumers : PrefetchLimit(c) \in Nat \ {0}
BY BrokerConstants, SMT DEF PrefetchLimit

(* Counters only fall in a goroutine's step on a task. *)
LEMMA StepPrefetch ==
  ASSUME TInv, PInv, NEW t \in Threads, NEW k \in work[t],
         Step(t, k) \/ EnqueueFails(t, k) \/ WriteTombstoneFails(t, k)
  PROVE  PInv'
<1>0. UNCHANGED <<disp, sub, status>>
  BY DEF Step, EnqueueCheck, EnqueueWal, EnqueueRejected, EnqueueFails, EnqueueTopic, DecrementInFlight,
         WriteTombstone, WriteTombstoneFails, consumerVars
<1>1. \A c \in Consumers : count'[c] \in Int /\ count'[c] <= count[c]
  <2>1. count \in [Consumers -> Int]
    BY DEF TInv, TypeOK
  <2>2. CASE DecrementInFlight(t, k)
    <3>1. count' = count \/ count' = [count EXCEPT ![k.con] = @ - 1]
      BY <2>2 DEF DecrementInFlight
    <3> QED
      BY <2>1, <3>1, SMT
  <2>3. CASE ~DecrementInFlight(t, k)
    <3>1. count' = count
      BY <2>3 DEF Step, EnqueueCheck, EnqueueWal, EnqueueRejected, EnqueueFails, EnqueueTopic,
         WriteTombstone, WriteTombstoneFails, consumerVars
    <3> QED
      BY <2>1, <3>1, SMT
  <2> QED
    BY <2>2, <2>3
<1>2. \A c \in Consumers : count[c] \in Int /\ PrefetchLimit(c) \in Nat
  BY LimitPositive DEF TInv, TypeOK
<1>3. \A q \in Queues : disp[q].pc = "pick" => disp[q].elig \subseteq Consumers
  BY DEF TInv, TypeOK, Dispatcher
<1>4. PrefetchRespected'
  BY <1>1, <1>2, SMT DEF PInv, PrefetchRespected, PrefetchLimit
<1>5. EligInv'
  <2> SUFFICES ASSUME NEW q \in Queues, disp[q].pc = "pick", NEW c \in disp[q].elig
               PROVE  sub[c] = q /\ status[c] # "new" /\ count'[c] < PrefetchLimit(c)
    BY <1>0 DEF EligInv, PrefetchLimit
  <2>1. sub[c] = q /\ status[c] # "new" /\ count[c] < PrefetchLimit(c) /\ c \in Consumers
    BY <1>3 DEF PInv, EligInv
  <2> QED
    BY <2>1, <1>1, <1>2, SMT
<1> QED
  BY <1>4, <1>5 DEF PInv

(* A dispatcher raises only the counter of a consumer that was eligible. *)
LEMMA DispatchPrefetch ==
  ASSUME TInv, PInv, NEW q \in Queues, Dispatch(q)
  PROVE  PInv'
<1>0. /\ \A c \in Consumers : count[c] \in Int /\ PrefetchLimit(c) \in Nat
      /\ count \in [Consumers -> Int] /\ disp \in [Queues -> Dispatcher]
      /\ \A p \in Queues : disp[p].pc = "pick" => disp[p].elig \subseteq Consumers
  BY LimitPositive DEF TInv, TypeOK, Dispatcher
<1>1. CASE Dequeue(q) \/ Register(q) \/ Send(q)
  <2>1. UNCHANGED <<count, sub, status>> /\ disp'[q].pc # "pick"
          /\ \A p \in Queues : p # q => disp'[p] = disp[p]
    BY <1>1, <1>0, SMT DEF Dequeue, Register, Send, consumerVars
  <2> QED
    BY <2>1 DEF PInv, EligInv, PrefetchRespected, PrefetchLimit
<1>2. CASE FindEligible(q)
  <2>1. UNCHANGED <<count, sub, status>> /\ disp'[q].elig = EligibleConsumers(q)
          /\ \A p \in Queues : p # q => disp'[p] = disp[p]
    BY <1>2, <1>0 DEF FindEligible, consumerVars
  <2>2. \A c \in EligibleConsumers(q) : sub[c] = q /\ status[c] # "new" /\ count[c] < PrefetchLimit(c)
    BY DEF EligibleConsumers, IsEligible, Registered
  <2> QED
    BY <2>1, <2>2, SMT DEF PInv, EligInv, PrefetchRespected, PrefetchLimit
<1>3. CASE IncrementInFlight(q)
  <2>1. PICK c \in disp[q].elig :
          /\ count' = count \/ count' = [count EXCEPT ![c] = @ + 1]
          /\ disp' = [disp EXCEPT ![q] = [pc |-> "register", msg |-> disp[q].msg, con |-> c]]
    BY <1>3 DEF IncrementInFlight, LeastInFlight
  <2>2. c \in Consumers /\ sub[c] = q /\ count[c] < PrefetchLimit(c)
    BY <1>3, <1>0 DEF IncrementInFlight, PInv, EligInv
  <2>3. UNCHANGED <<sub, status>> /\ disp'[q].pc # "pick"
          /\ \A p \in Queues : p # q => disp'[p] = disp[p]
    BY <1>3, <1>0, <2>1 DEF IncrementInFlight
  <2>4. count'[c] <= PrefetchLimit(c) /\ \A d \in Consumers : d # c => count'[d] = count[d]
    BY <1>0, <2>1, <2>2, SMT
  <2>5. PrefetchRespected'
    BY <2>4 DEF PInv, PrefetchRespected, PrefetchLimit
  <2>6. EligInv'
    <3> SUFFICES ASSUME NEW p \in Queues, disp'[p].pc = "pick", NEW d \in disp'[p].elig
                 PROVE  sub[d] = p /\ status[d] # "new" /\ count'[d] < PrefetchLimit(d)
      BY <2>3 DEF EligInv, PrefetchLimit
    <3>1. p # q /\ disp'[p] = disp[p]
      BY <2>3
    <3>2. d \in Consumers /\ sub[d] = p /\ status[d] # "new" /\ count[d] < PrefetchLimit(d)
      BY <3>1, <1>0 DEF PInv, EligInv
    <3>3. d # c
      BY <3>1, <3>2, <2>2
    <3> QED
      BY <3>2, <3>3, <2>4
  <2> QED
    BY <2>5, <2>6 DEF PInv
<1> QED
  BY <1>1, <1>2, <1>3 DEF Dispatch

(* No other step touches counters, and none a consumer found eligible. *)
LEMMA OtherPrefetch ==
  ASSUME TInv, PInv, [Next]_vars,
         ~ \E t \in Threads : \E k \in work[t] :
             Step(t, k) \/ EnqueueFails(t, k) \/ WriteTombstoneFails(t, k),
         ~ \E q \in Queues : Dispatch(q)
  PROVE  PInv'
<1>0. \A q \in Queues : disp[q].pc = "pick" => disp[q].elig \subseteq Consumers
  BY DEF TInv, TypeOK, Dispatcher
<1>1. ASSUME UNCHANGED <<count, sub, disp>>,
             \A c \in Consumers : status[c] # "new" => status'[c] # "new"
      PROVE  PInv'
  BY <1>0, <1>1 DEF PInv, EligInv, PrefetchRespected, PrefetchLimit
<1>2. ASSUME NEW c \in Consumers, NEW q \in 0..(MaxDepth - 1), Subscribe(c, q) PROVE PInv'
  <2>1. /\ count' = count /\ status[c] = "new"
        /\ \A d \in Consumers : d # c => sub'[d] = sub[d] /\ status'[d] = status[d]
    BY <1>2 DEF Subscribe, TInv, TypeOK
  <2>2. \A p \in Queues : disp'[p] = disp[p] \/ disp'[p].pc = "dequeue"
    BY <1>2 DEF Subscribe, TInv, TypeOK
  <2>3. \A p \in Queues : disp[p].pc = "pick" => c \notin disp[p].elig
    BY <2>1 DEF PInv, EligInv
  <2>4. EligInv'
    BY <2>1, <2>2, <2>3, <1>0, SMTT(30) DEF PInv, EligInv, PrefetchLimit
  <2>5. PrefetchRespected'
    BY <2>1 DEF PInv, PrefetchRespected, PrefetchLimit
  <2> QED
    BY <2>4, <2>5 DEF PInv
<1>3. CASE CrashRestart
  <2>1. /\ \A c \in Consumers : count'[c] = 0
        /\ \A q \in Queues : disp'[q].pc = "off"
    BY <1>3 DEF CrashRestart
  <2>2. EligInv'
    BY <2>1 DEF EligInv
  <2>3. PrefetchRespected'
    BY <2>1, LimitPositive, SMT DEF PrefetchRespected
  <2> QED
    BY <2>2, <2>3 DEF PInv
<1>4. ASSUME NEW c \in Consumers,
             \/ Forward(c) \/ ForwardFails(c) \/ SenderStops(c) \/ Deregister(c) \/ Drain(c) \/ Drained(c)
             \/ \E id \in Ids : Ack(c, id) \/ Nack(c, id)
      PROVE  PInv'
  <2>1. UNCHANGED <<count, sub, disp>>
    BY <1>4 DEF Forward, ForwardFails, SenderStops, SenderEnded, Deregister, Drain, Drained, Ack, Nack, Answered,
       consumerVars
  <2>2. \A d \in Consumers : status[d] # "new" => status'[d] # "new"
    BY <1>4 DEF Forward, ForwardFails, SenderStops, SenderEnded, Deregister, Drain, Drained, Ack, Nack, Answered,
       consumerVars, TInv, TypeOK
  <2> QED
    BY <1>1, <2>1, <2>2
<1>5. CASE \/ \E id \in Ids, q \in Queues : Publish(id, q)
           \/ \E q \in Queues : Compact(q)
           \/ TimeoutScan \/ DlqScan \/ BeginShutdown \/ UNCHANGED vars
  <2>1. UNCHANGED <<count, sub, disp, status>>
    BY <1>5, ZenonT(40) DEF Publish, Compact, TimeoutScan, DlqScan, ScanAndTimeout, ExpireDLQPending,
       ExpireDLQInFlight, BeginShutdown, vars, consumerVars
  <2> QED
    BY <1>1, <2>1
<1> QED
  BY <1>2, <1>3, <1>4, <1>5 DEF Next

(* A step keeps the counters within their limits. *)
LEMMA PrefetchStep ==
  ASSUME TInv, PInv, [Next]_vars
  PROVE  PInv'
BY StepPrefetch, DispatchPrefetch, OtherPrefetch

(* No counter has counted yet. *)
LEMMA PrefetchInit == Init => PInv
BY LimitPositive, SMT DEF Init, PInv, EligInv, PrefetchRespected

(* The inductive invariant of the prefetch bound. *)
LEMMA PrefetchInvariant == Spec => []PInv
<1>1. Init => PInv
  BY PrefetchInit
<1>2. TInv /\ PInv /\ [Next]_vars => PInv'
  BY PrefetchStep
<1> QED
  BY <1>1, <1>2, TypeInvariant, PTL DEF Spec

(***************************************************************************)
(* Whatever acks, nacks, timeouts and disconnects run against a dispatcher *)
(* between its look at the counters and its increment, no counter exceeds  *)
(* its consumer's prefetch limit.                                          *)
(***************************************************************************)
THEOREM PrefetchNeverExceeded == Spec => []PrefetchRespected
<1>1. PInv => PrefetchRespected
  BY DEF PInv
<1> QED
  BY <1>1, PrefetchInvariant, PTL
-----------------------------------------------------------------------------
InLog(w, id) == \E i \in DOMAIN w : w[i].type = "msg" /\ w[i].id = id
OnRecord(id) == \E q \in Queues : InLog(wal[q], id)

\* What makes a restart safe: a message that is published, or about to be, is
\* in some queue's log, and no tombstone hides it before it is settled.
PublishedInLog ==
  \A id \in Ids :
    /\ id \notin settled
    /\ pub[id] = "ok" \/ \E k \in work[<<"publish", id>>] : k.step = "topic"
    => OnRecord(id)
TombstonesSettled ==
  \A q \in Queues : \A i \in DOMAIN wal[q] : wal[q][i].type = "tomb" => wal[q][i].id \in settled
PublishTasks ==
  \A id \in Ids : \A k \in work[<<"publish", id>>] :
    k.step \in {"enq", "wal", "topic"} /\ k.msg.id = id
LogInv == PublishedInLog /\ TombstonesSettled /\ PublishTasks

(* Appending a record to a log hides no message record of any log. *)
LEMMA LogGrows ==
  ASSUME TInv, NEW m \in Message
  PROVE  /\ \A q \in Queues, id \in Ids : InLog(wal[q], id) =>
              InLog(Logged(m)[q], id) /\ InLog(Tombstoned(m)[q], id)
         /\ InLog(Logged(m)[m.queue], m.id)
         /\ \A q \in Queues : \A i \in DOMAIN Logged(m)[q] : Logged(m)[q][i].type = "tomb" =>
              \E j \in DOMAIN wal[q] : wal[q][j] = Logged(m)[q][i]
         /\ \A q \in Queues : \A i \in DOMAIN Tombstoned(m)[q] : Tombstoned(m)[q][i].type = "tomb" =>
              \/ Tombstoned(m)[q][i].id = m.id
              \/ \E j \in DOMAIN wal[q] : wal[q][j] = Tombstoned(m)[q][i]
<1> DEFINE M == RecordMessage(m.id, m.retry)
           D == RecordTombstone(m.id)
<1>1. wal \in [Queues -> Seq(WalRecord)] /\ m.queue \in Queues /\ wal[m.queue] \in Seq(WalRecord)
  BY DEF TInv, TypeOK, WalRecord, Message
<1>2. M \in WalRecord /\ D \in WalRecord
        /\ M.type = "msg" /\ M.id = m.id /\ D.type = "tomb" /\ D.id = m.id
  BY DEF RecordMessage, RecordTombstone, WalRecord, Message
<1>3. /\ Logged(m)[m.queue] = Append(wal[m.queue], M)
      /\ Tombstoned(m)[m.queue] = Append(wal[m.queue], D)
      /\ \A q \in Queues : q # m.queue => Logged(m)[q] = wal[q] /\ Tombstoned(m)[q] = wal[q]
  BY <1>1 DEF Logged, Tombstoned
<1> HIDE DEF M, D
<1>4. \A e \in WalRecord :
        /\ DOMAIN wal[m.queue] \subseteq DOMAIN Append(wal[m.queue], e)
        /\ \A i \in DOMAIN wal[m.queue] : Append(wal[m.queue], e)[i] = wal[m.queue][i]
        /\ \A i \in DOMAIN Append(wal[m.queue], e) :
             i \in DOMAIN wal[m.queue] \/ Append(wal[m.queue], e)[i] = e
        /\ \E i \in DOMAIN Append(wal[m.queue], e) : Append(wal[m.queue], e)[i] = e
  BY <1>1, AppendFacts, SMT
<1>5. ASSUME NEW q \in Queues, NEW id \in Ids, InLog(wal[q], id)
      PROVE  InLog(Logged(m)[q], id) /\ InLog(Tombstoned(m)[q], id)
  <2>1. CASE q = m.queue
    BY <2>1, <1>2, <1>3, <1>4, <1>5, SMTT(30) DEF InLog
  <2>2. CASE q # m.queue
    BY <2>2, <1>3, <1>5
  <2> QED
    BY <2>1, <2>2, ZenonT(40)
<1>6. InLog(Logged(m)[m.queue], m.id)
  BY <1>2, <1>3, <1>4, SMT DEF InLog
<1>7. ASSUME NEW q \in Queues, NEW i \in DOMAIN Logged(m)[q], Logged(m)[q][i].type = "tomb"
      PROVE  \E j \in DOMAIN wal[q] : wal[q][j] = Logged(m)[q][i]
  <2>1. CASE q = m.queue
    <3>1. Logged(m)[q][i] # M
      BY <1>2, <1>7
    <3> QED
      BY <2>1, <3>1, <1>2, <1>3, <1>4, SMT
  <2>2. CASE q # m.queue
    BY <2>2, <1>3
  <2> QED
    BY <2>1, <2>2, ZenonT(40)
<1>8. ASSUME NEW q \in Queues, NEW i \in DOMAIN Tombstoned(m)[q], Tombstoned(m)[q][i].type = "tomb"
      PROVE  \/ Tombstoned(m)[q][i].id = m.id
             \/ \E j \in DOMAIN wal[q] : wal[q][j] = Tombstoned(m)[q][i]
  <2>1. CASE q = m.queue
    BY <2>1, <1>2, <1>3, <1>4, SMTT(30)
  <2>2. CASE q # m.queue
    BY <2>2, <1>3
  <2> QED
    BY <2>1, <2>2
<1> QED
  BY <1>5, <1>6, <1>7, <1>8

(* An unsettled message of a log is in what the log replays to. *)
LEMMA ReplayKeeps ==
  ASSUME TInv, TombstonesSettled, NEW q \in Queues, NEW id \in Ids, id \notin settled,
         InLog(wal[q], id)
  PROVE  InLog(Replay(wal[q]), id)
<1>1. wal[q] \in Seq(WalRecord) /\ \A i \in DOMAIN wal[q] : wal[q][i] \in WalRecord
  <2>1. wal[q] \in Seq(WalRecord)
    BY DEF TInv, TypeOK, WalRecord
  <2> QED
    BY <2>1, LenProperties
<1>2. PICK i \in DOMAIN wal[q] : wal[q][i].type = "msg" /\ wal[q][i].id = id
  BY DEF InLog
<1>3. i \in Readable(wal[q])
  <2>1. DOMAIN wal[q] = 1..Len(wal[q]) /\ Len(wal[q]) \in Nat
    BY <1>1, LenProperties
  <2>2. \A j \in 1..i : j \in DOMAIN wal[q]
    BY <2>1, SMT
  <2>3. \A e \in WalRecord : e.type # "torn"
    BY DEF WalRecord
  <2> QED
    BY <1>1, <2>2, <2>3 DEF Readable
<1>4. id \notin Tombstones(wal[q])
  BY DEF Tombstones, Readable, TombstonesSettled
<1>5. i \in Live(wal[q])
  BY <1>2, <1>3, <1>4 DEF Live
<1>6. \E k \in DOMAIN Replay(wal[q]) : Replay(wal[q])[k] = wal[q][i]
  BY <1>1, <1>5, ReplayProperties
<1> QED
  BY <1>2, <1>6 DEF InLog

(* A goroutine's step on a task keeps the logs ahead of the publishers. *)
LEMMA StepLog ==
  ASSUME TInv, LogInv, NEW t \in Threads, NEW k \in work[t],
         Step(t, k) \/ EnqueueFails(t, k) \/ WriteTombstoneFails(t, k)
  PROVE  LogInv'
<1>0. /\ k \in Task /\ k.msg \in Message /\ k.msg.id \in Ids /\ k.msg.queue \in Queues
      /\ work \in [Threads -> SUBSET Task] /\ pub \in [Ids -> {"new", "busy", "ok", "err"}]
      /\ \A id \in Ids : <<"publish", id>> \in Threads
      /\ 0 \in Queues
  BY BrokerConstants, SMTT(30) DEF TInv, TypeOK, Task, Message, Threads, Publishers, Queues
<1>1. ASSUME t \in Publishers
      PROVE  /\ t = <<"publish", k.msg.id>>
             /\ k.step \in {"enq", "wal", "topic"}
  <2>1. PICK id \in Ids : t = <<"publish", id>>
    BY <1>1, SMT DEF Publishers
  <2> QED
    BY <2>1 DEF LogInv, PublishTasks
<1>2. \A id \in Ids : t = <<"publish", id>> => t \in Publishers
  BY SMT DEF Publishers
<1>3. ASSUME \A u \in Threads : \A j \in work'[u] :
               j \in work[u] \/ (u = t /\ j.msg = k.msg /\ j.step \in {"wal", "topic"})
      PROVE  PublishTasks'
  <2>1. ASSUME NEW id \in Ids, NEW j \in work'[<<"publish", id>>]
        PROVE  j.step \in {"enq", "wal", "topic"} /\ j.msg.id = id
    <3>1. CASE j \in work[<<"publish", id>>]
      BY <3>1 DEF LogInv, PublishTasks
    <3>2. CASE j \notin work[<<"publish", id>>]
      <4>1. t = <<"publish", id>> /\ j.msg = k.msg /\ j.step \in {"wal", "topic"}
        BY <3>2, <2>1, <1>0, <1>3
      <4> QED
        BY <4>1, <1>1, <1>2
    <3> QED
      BY <3>1, <3>2
  <2> QED
    BY <2>1 DEF PublishTasks
<1>4. /\ TombstonesSettled /\ PublishedInLog /\ PublishTasks
  BY DEF LogInv
<1>5. CASE EnqueueCheck(t, k)
  <2>1. work' = [work EXCEPT ![t] = (work[t] \ {k}) \cup {[step |-> "wal", msg |-> k.msg]}]
          /\ UNCHANGED <<wal, pub, settled>>
    BY <1>5 DEF EnqueueCheck
  <2>2. PublishTasks'
    BY <1>0, <1>3, <2>1, SMT
  <2>3. PublishedInLog'
    BY <1>0, <1>4, <2>1, SMT DEF PublishedInLog, OnRecord
  <2>4. TombstonesSettled'
    BY <1>4, <2>1 DEF TombstonesSettled
  <2> QED
    BY <2>2, <2>3, <2>4 DEF LogInv
<1>6. CASE EnqueueWal(t, k)
  <2>1. work' = [work EXCEPT ![t] = (work[t] \ {k}) \cup {[step |-> "topic", msg |-> k.msg]}]
          /\ wal' = Logged(k.msg) /\ UNCHANGED <<pub, settled>>
    BY <1>6 DEF EnqueueWal
  <2>2. PublishTasks'
    BY <1>0, <1>3, <2>1, SMT
  <2>3. PublishedInLog'
    <3> SUFFICES ASSUME NEW id \in Ids, id \notin settled,
                        pub[id] = "ok" \/ \E j \in work'[<<"publish", id>>] : j.step = "topic"
                 PROVE  OnRecord(id)'
      BY <2>1 DEF PublishedInLog
    <3>1. CASE pub[id] = "ok" \/ \E j \in work[<<"publish", id>>] : j.step = "topic"
      BY <3>1, <1>0, <1>4, <2>1, LogGrows DEF PublishedInLog, OnRecord
    <3>2. CASE ~(pub[id] = "ok" \/ \E j \in work[<<"publish", id>>] : j.step = "topic")
      <4>1. t = <<"publish", id>>
        BY <3>2, <1>0, <2>1
      <4>2. k.msg.id = id
        BY <4>1, <1>1, <1>2
      <4> QED
        BY <4>2, <1>0, <2>1, LogGrows DEF OnRecord
    <3> QED
      BY <3>1, <3>2
  <2>4. TombstonesSettled'
    BY <1>0, <1>4, <2>1, LogGrows, SMTT(30) DEF TombstonesSettled
  <2> QED
    BY <2>2, <2>3, <2>4 DEF LogInv
<1>7. CASE EnqueueRejected(t, k) \/ EnqueueFails(t, k)
  <2>1. /\ work' = [work EXCEPT ![t] = work[t] \ {k}]
        /\ wal' = wal \/ wal' = Logged(k.msg)
        /\ pub' = pub \/ pub' = [pub EXCEPT ![k.msg.id] = "err"]
        /\ settled' = settled
    BY <1>7 DEF EnqueueRejected, EnqueueFails, Answer
  <2>2. PublishTasks'
    BY <1>0, <1>3, <2>1
  <2>3. PublishedInLog'
    <3>1. \A id \in Ids : pub'[id] = "ok" => pub[id] = "ok"
      BY <1>0, <2>1
    <3>2. \A id \in Ids : work'[<<"publish", id>>] \subseteq work[<<"publish", id>>]
      BY <1>0, <2>1
    <3>3. \A id \in Ids : OnRecord(id) => OnRecord(id)'
      BY <1>0, <2>1, LogGrows, ZenonT(40) DEF OnRecord
    <3> QED
      BY <3>1, <3>2, <3>3, <1>4, <2>1 DEF PublishedInLog
  <2>4. TombstonesSettled'
    BY <1>0, <1>4, <2>1, LogGrows, SMTT(30) DEF TombstonesSettled
  <2> QED
    BY <2>2, <2>3, <2>4 DEF LogInv
<1>8. CASE EnqueueTopic(t, k)
  <2>1. /\ work' = [work EXCEPT ![t] = work[t] \ {k}]
        /\ pub' = IF t \in Publishers THEN [pub EXCEPT ![k.msg.id] = "ok"] ELSE pub
        /\ k.step = "topic"
        /\ UNCHANGED <<wal, settled>>
    BY <1>8 DEF EnqueueTopic, Answer
  <2>2. PublishTasks'
    BY <1>0, <1>3, <2>1
  <2>3. PublishedInLog'
    <3>1. \A id \in Ids : pub'[id] = "ok" =>
            pub[id] = "ok" \/ \E j \in work[<<"publish", id>>] : j.step = "topic"
      BY <1>0, <1>1, <2>1
    <3>2. \A id \in Ids : work'[<<"publish", id>>] \subseteq work[<<"publish", id>>]
      BY <1>0, <2>1
    <3> QED
      BY <3>1, <3>2, <1>4, <2>1 DEF PublishedInLog, OnRecord
  <2>4. TombstonesSettled'
    BY <1>4, <2>1 DEF TombstonesSettled
  <2> QED
    BY <2>2, <2>3, <2>4 DEF LogInv
<1>9. CASE DecrementInFlight(t, k)
  <2>1. work' = [work EXCEPT ![t] = (work[t] \ {k}) \cup {AfterDecrement(k)}]
          /\ k.step = "dec" /\ UNCHANGED <<wal, pub, settled>>
    BY <1>9 DEF DecrementInFlight
  <2>2. t \notin Publishers
    BY <2>1, <1>1
  <2>3. \A id \in Ids : work'[<<"publish", id>>] = work[<<"publish", id>>]
    BY <2>1, <2>2, <1>0, <1>2
  <2> QED
    BY <1>4, <2>1, <2>3 DEF LogInv, PublishedInLog, OnRecord, TombstonesSettled, PublishTasks
<1>10. CASE WriteTombstone(t, k) \/ WriteTombstoneFails(t, k)
  <2>1. /\ work' = [work EXCEPT ![t] = work[t] \ {k}]
        /\ wal' = wal \/ wal' = Tombstoned(k.msg)
        /\ settled' = settled \cup {k.msg.id}
        /\ pub' = pub
    BY <1>10 DEF WriteTombstone, WriteTombstoneFails
  <2>2. PublishTasks'
    BY <1>0, <1>3, <2>1
  <2>3. PublishedInLog'
    <3>2. \A id \in Ids : work'[<<"publish", id>>] \subseteq work[<<"publish", id>>]
      BY <1>0, <2>1
    <3>3. \A id \in Ids : OnRecord(id) => OnRecord(id)'
      BY <1>0, <2>1, LogGrows DEF OnRecord
    <3> QED
      BY <3>2, <3>3, <1>4, <2>1 DEF PublishedInLog
  <2>4. TombstonesSettled'
    <3>1. CASE wal' = wal
      BY <3>1, <1>4, <2>1, ZenonT(40) DEF TombstonesSettled
    <3>2. CASE wal' = Tombstoned(k.msg)
      BY <3>2, <1>0, <1>4, <2>1, LogGrows, SMTT(30) DEF TombstonesSettled
    <3> QED
      BY <3>1, <3>2, <2>1
  <2> QED
    BY <2>2, <2>3, <2>4 DEF LogInv
<1> QED
  BY <1>5, <1>6, <1>7, <1>8, <1>9, <1>10, ZenonT(40) DEF Step

(* Every goroutine but a publisher leaves the publishers' tasks alone. *)
LEMMA TakeLog ==
  ASSUME TInv, NEW t \in Threads \ Publishers, NEW S \in SUBSET DOMAIN inFlight,
         NEW next \in {"tomb", "enq"}, Take(t, S, next)
  PROVE  \A id \in Ids : work'[<<"publish", id>>] = work[<<"publish", id>>]
BY DEF Take, TInv, TypeOK, Publishers, Threads

(* The other steps keep the logs ahead of the publishers. *)
LEMMA OtherLog ==
  ASSUME TInv, LogInv, [Next]_vars,
         ~ \E t \in Threads : \E k \in work[t] :
             Step(t, k) \/ EnqueueFails(t, k) \/ WriteTombstoneFails(t, k)
  PROVE  LogInv'
<1>0. /\ PublishedInLog /\ TombstonesSettled /\ PublishTasks
      /\ work \in [Threads -> SUBSET Task] /\ pub \in [Ids -> {"new", "busy", "ok", "err"}]
      /\ wal \in [Queues -> Seq(WalRecord)] /\ 0 \in Queues
      /\ \A id \in Ids : <<"publish", id>> \in Threads
  BY BrokerConstants, SMT DEF LogInv, TInv, TypeOK, WalRecord, Threads, Publishers, Queues
<1>t. /\ <<"scan", "timeout">> \in Threads \ Publishers /\ <<"scan", "dlqttl">> \in Threads \ Publishers
      /\ \A c \in Consumers : <<"recv", c>> \in Threads \ Publishers
                                /\ <<"drain", c>> \in Threads \ Publishers
  BY DEF Threads, Publishers
<1>1. ASSUME UNCHANGED <<wal, pub, settled>>,
             \A id \in Ids : work'[<<"publish", id>>] = work[<<"publish", id>>]
      PROVE  LogInv'
  BY <1>0, <1>1 DEF LogInv, PublishedInLog, OnRecord, TombstonesSettled, PublishTasks
<1>2. ASSUME NEW id \in Ids, NEW q \in Queues, Publish(id, q) PROVE LogInv'
  <2>1. /\ UNCHANGED <<wal, settled>>
        /\ \A i \in Ids : pub'[i] = "ok" => pub[i] = "ok"
        /\ \A i \in Ids : i # id => work'[<<"publish", i>>] = work[<<"publish", i>>]
        /\ work'[<<"publish", id>>] =
             {[step |-> "enq", msg |-> [id |-> id, queue |-> q, retry |-> 0]]}
    BY <1>2, <1>0 DEF Publish
  <2>5. ASSUME NEW i \in Ids, NEW j \in work'[<<"publish", i>>]
        PROVE  \/ j \in work[<<"publish", i>>]
               \/ j.step = "enq" /\ j.msg.id = i
    <3>1. CASE i = id
      BY <2>1, <2>5, <3>1, SMT
    <3>2. CASE i # id
      BY <2>1, <2>5, <3>2
    <3> QED
      BY <3>1, <3>2
  <2>2. PublishTasks'
    BY <1>0, <2>5, ZenonT(40) DEF PublishTasks
  <2>3. PublishedInLog'
    <3> SUFFICES ASSUME NEW i \in Ids, i \notin settled,
                        pub'[i] = "ok" \/ \E j \in work'[<<"publish", i>>] : j.step = "topic"
                 PROVE  OnRecord(i)
      BY <2>1 DEF PublishedInLog, OnRecord
    <3>1. pub[i] = "ok" \/ \E j \in work[<<"publish", i>>] : j.step = "topic"
      BY <2>1, <2>5
    <3> QED
      BY <3>1, <1>0 DEF PublishedInLog
  <2>4. TombstonesSettled'
    BY <1>0, <2>1 DEF TombstonesSettled
  <2> QED
    BY <2>2, <2>3, <2>4 DEF LogInv
<1>3. ASSUME NEW q \in Queues, Dispatch(q) PROVE LogInv'
  <2>1. UNCHANGED <<wal, pub, settled, work>>
    BY <1>3 DEF Dispatch, Dequeue, FindEligible, IncrementInFlight, Register, Send
  <2> QED
    BY <1>1, <2>1
<1>4. ASSUME NEW q \in Queues, Compact(q) PROVE LogInv'
  <2>1. /\ UNCHANGED <<pub, settled, work>>
        /\ wal'[q] = Replay(wal[q]) /\ \A p \in Queues : p # q => wal'[p] = wal[p]
    BY <1>4, <1>0 DEF Compact
  <2>2. \A k \in DOMAIN Replay(wal[q]) : Replay(wal[q])[k].type = "msg"
    BY <1>0, ReplayProperties, SMT
  <2>3. \A id \in Ids : id \notin settled /\ OnRecord(id) => OnRecord(id)'
    BY <1>0, <2>1, ReplayKeeps DEF OnRecord
  <2>4. PublishedInLog'
    BY <1>0, <2>1, <2>3 DEF PublishedInLog
  <2>5. TombstonesSettled'
    BY <1>0, <2>1, <2>2 DEF TombstonesSettled
  <2>6. PublishTasks'
    BY <1>0, <2>1 DEF PublishTasks
  <2> QED
    BY <2>4, <2>5, <2>6 DEF LogInv
<1>5. CASE TimeoutScan
  <2>1. PICK S \in SUBSET DOMAIN inFlight : ScanAndTimeout(S)
    BY <1>5 DEF TimeoutScan
  <2>2. Take(<<"scan", "timeout">>, S, "enq") /\ UNCHANGED <<wal, pub, settled>>
    BY <2>1 DEF ScanAndTimeout
  <2> QED
    BY <1>1, <1>t, <2>2, TakeLog
<1>6. CASE DlqScan
  <2>1. ASSUME NEW S \in SUBSET DOMAIN inFlight, ExpireDLQInFlight(S) PROVE LogInv'
    <3>1. Take(<<"scan", "dlqttl">>, S, "tomb") /\ UNCHANGED <<wal, pub, settled>>
      BY <2>1 DEF ExpireDLQInFlight
    <3> QED
      BY <1>1, <1>t, <3>1, TakeLog
  <2>2. ASSUME NEW q \in Queues, NEW S \in SUBSET DOMAIN topic[q], ExpireDLQPending(q, S)
        PROVE  LogInv'
    <3>1. \A id \in Ids : work'[<<"publish", id>>] = work[<<"publish", id>>]
      BY <2>2, <1>0 DEF ExpireDLQPending
    <3>2. UNCHANGED <<wal, pub, settled>>
      BY <2>2 DEF ExpireDLQPending
    <3> QED
      BY <1>1, <3>1, <3>2
  <2> QED
    BY <1>6, <2>1, <2>2 DEF DlqScan
<1>7. ASSUME NEW c \in Consumers,
             \/ \E q \in 0..(MaxDepth - 1) : Subscribe(c, q)
             \/ Forward(c) \/ ForwardFails(c) \/ SenderStops(c) \/ Deregister(c) \/ Drained(c)
      PROVE  LogInv'
  <2>1. UNCHANGED <<wal, pub, settled, work>>
    BY <1>7 DEF Subscribe, Forward, ForwardFails, SenderStops, Deregister, Drained
  <2> QED
    BY <1>1, <2>1
<1>8. ASSUME NEW c \in Consumers, Drain(c) PROVE LogInv'
  <2>1. PICK S \in SUBSET DOMAIN inFlight : Take(<<"drain", c>>, S, "enq")
    BY <1>8 DEF Drain, TakeOne
  <2>2. UNCHANGED <<wal, pub, settled>>
    BY <1>8 DEF Drain
  <2> QED
    BY <1>1, <1>t, <2>1, <2>2, TakeLog, ZenonT(40)
<1>9. ASSUME NEW c \in Consumers, NEW id \in Ids, Ack(c, id) \/ Nack(c, id) PROVE LogInv'
  <2>1. PICK S \in SUBSET DOMAIN inFlight, n \in {"tomb", "enq"} : Take(<<"recv", c>>, S, n)
    BY <1>9 DEF Ack, Nack, TakeOne
  <2>2. UNCHANGED <<wal, pub, settled>>
    BY <1>9 DEF Ack, Nack, Answered
  <2>3. \A i \in Ids : work'[<<"publish", i>>] = work[<<"publish", i>>]
    BY <1>t, <2>1, TakeLog
  <2> QED
    BY <1>1, <2>2, <2>3
<1>10. CASE BeginShutdown \/ UNCHANGED vars
  <2>1. UNCHANGED <<wal, pub, settled, work>>
    BY <1>10 DEF BeginShutdown, vars
  <2> QED
    BY <1>1, <2>1
<1>11. CASE CrashRestart
  <2>1. /\ UNCHANGED <<wal, settled>>
        /\ \A id \in Ids : work'[<<"publish", id>>] = {}
        /\ \A id \in Ids : pub'[id] = "ok" => pub[id] = "ok"
    BY <1>11, <1>0 DEF CrashRestart
  <2> QED
    BY <1>0, <2>1 DEF LogInv, PublishedInLog, OnRecord, TombstonesSettled, PublishTasks
<1> QED
  BY <1>2, <1>3, <1>4, <1>5, <1>6, <1>7, <1>8, <1>9, <1>10, <1>11 DEF Next

(* Every step keeps what makes a restart safe. *)
LEMMA LogStep ==
  ASSUME TInv, LogInv, [Next]_vars
  PROVE  LogInv'
BY StepLog, OtherLog

\* An in-flight entry is filed under the id of its message.
KeyInv == \A id \in DOMAIN inFlight : inFlight[id].msg.id = id

(* The in-flight map is written by Register, emptied by Take and a restart. *)
LEMMA KeyStep ==
  ASSUME TInv, KeyInv, [Next]_vars
  PROVE  KeyInv'
<1>1. ASSUME inFlight' = inFlight PROVE KeyInv'
  BY <1>1 DEF KeyInv
<1>2. ASSUME NEW t, NEW S, NEW next, Take(t, S, next) PROVE KeyInv'
  <2>1. DOMAIN inFlight' \subseteq DOMAIN inFlight
          /\ \A id \in DOMAIN inFlight' : inFlight'[id] = inFlight[id]
    BY <1>2 DEF Take
  <2> QED
    BY <2>1 DEF KeyInv
<1>3. ASSUME NEW q \in Queues, Register(q) PROVE KeyInv'
  <2>1. /\ DOMAIN inFlight' = DOMAIN inFlight \cup {disp[q].msg.id}
        /\ \A id \in DOMAIN inFlight' : inFlight'[id] =
             IF id = disp[q].msg.id THEN [msg |-> disp[q].msg, con |-> disp[q].con] ELSE inFlight[id]
    BY <1>3 DEF Register
  <2> QED
    BY <2>1, SMT DEF KeyInv
<1>4. CASE CrashRestart
  BY <1>4 DEF CrashRestart, KeyInv
<1>5. ASSUME NEW t \in Threads, NEW k \in work[t],
             Step(t, k) \/ EnqueueFails(t, k) \/ WriteTombstoneFails(t, k)
      PROVE  KeyInv'
  <2>1. inFlight' = inFlight
    BY <1>5 DEF Step, EnqueueCheck, EnqueueWal, EnqueueRejected, EnqueueFails, EnqueueTopic,
         DecrementInFlight, WriteTombstone, WriteTombstoneFails
  <2> QED
    BY <1>1, <2>1
<1>6. ASSUME NEW q \in Queues, Dispatch(q) \/ Compact(q) PROVE KeyInv'
  <2>1. inFlight' = inFlight \/ Register(q)
    BY <1>6 DEF Dispatch, Dequeue, FindEligible, IncrementInFlight, Send, Compact
  <2> QED
    BY <1>1, <1>3, <2>1
<1>7. CASE TimeoutScan \/ DlqScan
  <2>1. inFlight' = inFlight \/ \E t \in Threads, S \in SUBSET DOMAIN inFlight, n \in {"tomb", "enq"} :
                                  Take(t, S, n)
    BY <1>7 DEF TimeoutScan, DlqScan, ScanAndTimeout, ExpireDLQPending, ExpireDLQInFlight, Threads
  <2> QED
    BY <1>1, <1>2, <2>1
<1>8. ASSUME NEW c \in Consumers,
             \/ \E q \in 0..(MaxDepth - 1) : Subscribe(c, q)
             \/ Forward(c) \/ ForwardFails(c) \/ SenderStops(c) \/ Deregister(c) \/ Drain(c) \/ Drained(c)
             \/ \E id \in Ids : Ack(c, id) \/ Nack(c, id)
      PROVE  KeyInv'
  <2>1. CASE Drain(c) \/ \E id \in Ids : Ack(c, id) \/ Nack(c, id)
    <3>1. \E t \in {<<"recv", c>>, <<"drain", c>>}, S \in SUBSET DOMAIN inFlight,
             n \in {"tomb", "enq"} : Take(t, S, n)
      BY <2>1 DEF Drain, Ack, Nack, TakeOne
    <3> QED
      BY <1>2, <3>1
  <2>2. CASE ~(Drain(c) \/ \E id \in Ids : Ack(c, id) \/ Nack(c, id))
    <3>1. inFlight' = inFlight
      BY <1>8, <2>2 DEF Subscribe, Forward, ForwardFails, SenderStops, Deregister, Drained
    <3> QED
      BY <1>1, <3>1
  <2> QED
    BY <2>1, <2>2
<1>9. CASE BeginShutdown \/ UNCHANGED vars \/ \E id \in Ids, q \in Queues : Publish(id, q)
  <2>1. inFlight' = inFlight
    BY <1>9, ZenonT(40) DEF BeginShutdown, vars, Publish
  <2> QED
    BY <1>1, <2>1
<1> QED
  BY <1>4, <1>5, <1>6, <1>7, <1>8, <1>9 DEF Next

(* Nothing is published yet. *)
LEMMA LogInit == Init => LogInv /\ KeyInv
<1> SUFFICES ASSUME Init PROVE LogInv /\ KeyInv
  OBVIOUS
<1>1. \A id \in Ids : <<"publish", id>> \in Threads
  BY DEF Threads, Publishers
<1>2. 0 \in Queues /\ DOMAIN <<>> = {}
  BY BrokerConstants, SMT DEF Queues
<1>3. \A id \in Ids : work[<<"publish", id>>] = {} /\ pub[id] = "new"
  BY <1>1 DEF Init
<1>4. \A q \in Queues : wal[q] = <<>>
  BY DEF Init
<1>5. LogInv
  BY <1>2, <1>3, <1>4 DEF LogInv, PublishedInLog, OnRecord, TombstonesSettled, PublishTasks
<1>6. KeyInv
  BY DEF Init, KeyInv
<1> QED
  BY <1>5, <1>6

(* The logs are always fit for a restart. *)
LEMMA LogInvariant == Spec => [](LogInv /\ KeyInv)
<1>1. Init => LogInv /\ KeyInv
  BY LogInit
<1>2. TInv /\ LogInv /\ KeyInv /\ [Next]_vars => LogInv' /\ KeyInv'
  BY LogStep, KeyStep
<1> QED
  BY <1>1, <1>2, TypeInvariant, PTL DEF Spec
=============================================================================
