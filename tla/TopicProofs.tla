---------------------------- MODULE TopicProofs -----------------------------
(***************************************************************************)
(* Topic: no lost wakeup, one dispatcher, and the steps of Fifo.           *)
(***************************************************************************)
EXTENDS Topic, WalRecordsProofs

\* What the three invariants need of each other, and of the set-up of a topic.
SetUp ==
  /\ closed <=> closer # "no"
  /\ ~started => \A d \in Subscribers : disp[d] = "none"
  /\ ~exists => msgs = <<>> /\ ~closed
  /\ \A m \in Msgs : enq[m] = "put" => exists
  /\ \A d \in Subscribers : disp[d] \in {"lock", "wait", "busy"} => exists
TopicInv == TypeOK /\ SetUp /\ OneDispatcher /\ NoLostWakeup /\ ServedUnlessInitFailed

(* Removing or taking messages leaves a sequence of messages. *)
LEMMA MsgsType ==
  ASSUME TypeOK
  PROVE  /\ \A m \in Msgs : Append(msgs, m) \in Seq(Msgs) /\ Append(msgs, m) # <<>>
         /\ \A S \in SUBSET DOMAIN msgs : Select(msgs, DOMAIN msgs \ S) \in Seq(Msgs)
         /\ msgs # <<>> => Tail(msgs) \in Seq(Msgs)
<1>1. msgs \in Seq(Msgs)
  BY DEF TypeOK
<1>2. \A S \in SUBSET DOMAIN msgs : DOMAIN msgs \ S \in SUBSET DOMAIN msgs
  OBVIOUS
<1>3. \A S \in SUBSET DOMAIN msgs : Select(msgs, DOMAIN msgs \ S) \in Seq(Msgs)
  BY <1>1, <1>2, SelectProperties
<1>4. \A m \in Msgs : Append(msgs, m) \in Seq(Msgs) /\ Append(msgs, m) # <<>>
  BY <1>1, AppendProperties
<1>5. msgs # <<>> => Tail(msgs) \in Seq(Msgs)
  BY <1>1, HeadTailProperties
<1> QED
  BY <1>3, <1>4, <1>5

(* The type invariant is inductive. *)
LEMMA TopicTypes ==
  ASSUME TypeOK, [Next]_vars
  PROVE  TypeOK'
<1>1. ASSUME NEW m \in Msgs, Enqueue(m) \/ EnqueueInitFails(m) \/ Put(m) PROVE TypeOK'
  BY <1>1, MsgsType DEF TypeOK, Enqueue, EnqueueInitFails, Put
<1>2. ASSUME NEW m \in Msgs, Signal(m) PROVE TypeOK'
  BY <1>2 DEF TypeOK, Signal, Waiters, InDequeue
<1>3. ASSUME NEW S \in SUBSET DOMAIN msgs, RemoveIf(S) PROVE TypeOK'
  BY <1>3, MsgsType DEF TypeOK, RemoveIf
<1>4. ASSUME NEW d \in Subscribers, EnsureDispatcher(d) \/ Dispatched(d) PROVE TypeOK'
  BY <1>4 DEF TypeOK, EnsureDispatcher, Dispatched, InDequeue
<1>5. ASSUME NEW d \in Subscribers, Dequeue(d) PROVE TypeOK'
  BY <1>5, MsgsType DEF TypeOK, Dequeue, InitQueue, InitQueueFails, Take, Wait, GiveUp, InDequeue
<1>6. CASE Cancel \/ Close \/ Broadcast \/ UNCHANGED vars
  BY <1>6 DEF TypeOK, Cancel, Close, Broadcast, vars, InDequeue
<1> QED
  BY <1>1, <1>2, <1>3, <1>4, <1>5, <1>6 DEF Next

(* An Enqueue call, up to its Signal. *)
LEMMA EnqueueInv ==
  ASSUME TopicInv, NEW m \in Msgs, Enqueue(m) \/ EnqueueInitFails(m) \/ Put(m)
  PROVE  SetUp' /\ OneDispatcher' /\ NoLostWakeup' /\ ServedUnlessInitFailed'
<1>1. UNCHANGED <<closed, started, disp, closer, cancelled, failed>>
  BY DEF Enqueue, EnqueueInitFails, Put
<1>2. OneDispatcher' /\ ServedUnlessInitFailed'
  BY <1>1 DEF TopicInv, OneDispatcher, ServedUnlessInitFailed, Running
<1>3. CASE Enqueue(m) \/ EnqueueInitFails(m)
  BY <1>1, <1>2, <1>3 DEF TopicInv, TypeOK, SetUp, NoLostWakeup, Waiters, Enqueue, EnqueueInitFails
<1>4. CASE Put(m)
  <2>1. enq'[m] = "signal" /\ exists /\ exists' /\ \A n \in Msgs : enq'[n] = "put" => enq[n] = "put"
    BY <1>4 DEF Put, TopicInv, TypeOK, SetUp
  <2>2. SetUp'
    BY <1>1, <2>1 DEF TopicInv, SetUp
  <2> QED
    BY <1>2, <2>1, <2>2 DEF NoLostWakeup
<1> QED
  BY <1>3, <1>4

(* Signal wakes the one waiter, if there is one. *)
LEMMA SignalInv ==
  ASSUME TopicInv, NEW m \in Msgs, Signal(m)
  PROVE  SetUp' /\ OneDispatcher' /\ NoLostWakeup' /\ ServedUnlessInitFailed'
<1>0. UNCHANGED <<exists, msgs, closed, started, closer, cancelled, failed>>
        /\ \A n \in Msgs : enq'[n] = "put" => enq[n] = "put"
  BY DEF Signal, TopicInv, TypeOK
<1>1. CASE Waiters = {}
  <2>1. disp' = disp
    BY <1>1 DEF Signal
  <2>2. Waiters' = {}
    BY <1>1, <2>1 DEF Waiters
  <2> QED
    BY <1>0, <2>1, <2>2 DEF TopicInv, SetUp, OneDispatcher, NoLostWakeup, ServedUnlessInitFailed, Running
<1>2. CASE Waiters # {}
  <2>1. PICK d \in Waiters : disp' = [disp EXCEPT ![d] = "lock"]
    BY <1>2 DEF Signal
  <2>2. d \in Subscribers /\ disp[d] = "wait" /\ disp'[d] = "lock"
          /\ \A e \in Subscribers : e # d => disp'[e] = disp[e]
    BY <2>1 DEF Waiters, TopicInv, TypeOK
  <2>3. \A e \in Subscribers : Running(e)' <=> Running(e)
    BY <2>2 DEF Running, InDequeue
  <2>4. OneDispatcher' /\ ServedUnlessInitFailed'
    BY <1>0, <2>3 DEF TopicInv, OneDispatcher, ServedUnlessInitFailed
  <2>5. Waiters' = {}
    BY <2>2 DEF Waiters, TopicInv, OneDispatcher, Running, InDequeue
  <2>6. SetUp'
    BY <1>0, <2>2 DEF TopicInv, SetUp
  <2> QED
    BY <2>4, <2>5, <2>6 DEF NoLostWakeup
<1> QED
  BY <1>1, <1>2

(* The dispatcher goroutine: it goes to sleep only on an empty, open topic. *)
LEMMA DispatcherInv ==
  ASSUME TopicInv, NEW d \in Subscribers,
         EnsureDispatcher(d) \/ Dequeue(d) \/ Dispatched(d)
  PROVE  SetUp' /\ OneDispatcher' /\ NoLostWakeup' /\ ServedUnlessInitFailed'
<1>0. /\ \A e \in Subscribers : e # d => disp'[e] = disp[e]
      /\ UNCHANGED <<closed, closer, enq, cancelled>>
      /\ disp \in [Subscribers -> InDequeue \cup {"none", "busy", "stopped"}]
  BY DEF EnsureDispatcher, Dequeue, InitQueue, InitQueueFails, Take, Wait, GiveUp, Dispatched,
         TopicInv, TypeOK
<1>1. CASE EnsureDispatcher(d)
  <2>1. disp'[d] = "init" /\ started' /\ \A e \in Subscribers : e # d => disp'[e] = "none"
    BY <1>0, <1>1 DEF EnsureDispatcher, TopicInv, SetUp
  <2>2. UNCHANGED <<exists, msgs>>
    BY <1>1 DEF EnsureDispatcher
  <2>3. SetUp'
    BY <1>0, <2>1, <2>2 DEF TopicInv, SetUp
  <2>4. OneDispatcher' /\ ServedUnlessInitFailed'
    BY <2>1 DEF OneDispatcher, ServedUnlessInitFailed, Running, InDequeue
  <2>5. Waiters' = {}
    BY <2>1 DEF Waiters
  <2> QED
    BY <2>3, <2>4, <2>5 DEF NoLostWakeup
<1>2. CASE Dequeue(d) \/ Dispatched(d)
  <2>1. Running(d) /\ started /\ started'
    BY <1>2 DEF Dequeue, InitQueue, InitQueueFails, Take, Wait, GiveUp, Dispatched, Running,
       InDequeue, TopicInv, SetUp
  <2>2. \A e \in Subscribers : e # d => ~Running(e) /\ ~Running(e)'
    BY <1>0, <2>1 DEF TopicInv, OneDispatcher, Running
  <2>3. OneDispatcher'
    BY <2>2 DEF OneDispatcher
  <2>4. SetUp'
    BY <1>0, <1>2, <2>1 DEF Dequeue, InitQueue, InitQueueFails, Take, Wait, GiveUp, Dispatched, TopicInv, SetUp
  <2>5. ServedUnlessInitFailed'
    <3>1. Running(d)' \/ failed' \/ closed' \/ cancelled'
      BY <1>0, <1>2 DEF Dequeue, InitQueue, InitQueueFails, Take, Wait, GiveUp, Dispatched, Running, InDequeue
    <3> QED
      BY <3>1 DEF ServedUnlessInitFailed
  <2>6. NoLostWakeup'
    <3>1. CASE disp'[d] # "wait"
      BY <2>2, <3>1 DEF NoLostWakeup, Waiters, Running, InDequeue
    <3>2. CASE disp'[d] = "wait"
      <4>1. msgs' = <<>> /\ ~closed'
        BY <1>0, <1>2, <3>2 DEF Dequeue, InitQueue, InitQueueFails, Take, Wait, GiveUp, Dispatched
      <4> QED
        BY <4>1 DEF NoLostWakeup
    <3> QED
      BY <3>1, <3>2
  <2> QED
    BY <2>3, <2>4, <2>5, <2>6
<1> QED
  BY <1>1, <1>2

(* The scanner, the cancellation and the two steps of Close. *)
LEMMA EnvironmentInv ==
  ASSUME TopicInv,
         \/ \E S \in SUBSET DOMAIN msgs : RemoveIf(S)
         \/ Cancel \/ Close \/ Broadcast \/ UNCHANGED vars
  PROVE  SetUp' /\ OneDispatcher' /\ NoLostWakeup' /\ ServedUnlessInitFailed'
<1>1. ASSUME NEW S \in SUBSET DOMAIN msgs, RemoveIf(S)
      PROVE  SetUp' /\ OneDispatcher' /\ NoLostWakeup' /\ ServedUnlessInitFailed'
  <2>1. UNCHANGED <<exists, closed, enq, started, disp, closer, cancelled, failed>> /\ msgs # <<>>
    BY <1>1 DEF RemoveIf
  <2> QED
    BY <2>1 DEF TopicInv, SetUp, OneDispatcher, NoLostWakeup, ServedUnlessInitFailed, Running, Waiters
<1>2. CASE Cancel \/ Close \/ UNCHANGED vars
  BY <1>2 DEF Cancel, Close, vars, TopicInv, SetUp, OneDispatcher, NoLostWakeup,
     ServedUnlessInitFailed, Running, Waiters
<1>3. CASE Broadcast
  <2>1. \A d \in Subscribers : disp'[d] # "wait" /\ (Running(d)' <=> Running(d))
    BY <1>3 DEF Broadcast, Running, InDequeue
  <2>2. OneDispatcher' /\ NoLostWakeup'
    BY <2>1 DEF TopicInv, OneDispatcher, NoLostWakeup, Waiters
  <2>3. SetUp' /\ ServedUnlessInitFailed'
    BY <1>3 DEF Broadcast, TopicInv, SetUp, ServedUnlessInitFailed
  <2> QED
    BY <2>2, <2>3
<1> QED
  BY <1>1, <1>2, <1>3

(***************************************************************************)
(* For every number of Enqueue and Subscribe calls: no wakeup of Topic is  *)
(* lost, ensureDispatcher never lets two dispatchers run, and a dispatcher *)
(* ends only by shutdown or by a failed initQueue.                         *)
(***************************************************************************)
THEOREM TopicInvariant == Spec => []TopicInv
<1>1. Init => TopicInv
  <2> SUFFICES ASSUME Init PROVE TopicInv
    OBVIOUS
  <2>1. <<>> \in Seq(Msgs) /\ Backlog \in Seq(Msgs)
    BY TopicConstants
  <2>2. TypeOK
    BY <2>1 DEF Init, TypeOK
  <2>3. \A d \in Subscribers : disp[d] = "none"
    BY DEF Init
  <2> QED
    BY <2>2, <2>3 DEF Init, TopicInv, SetUp, OneDispatcher, NoLostWakeup, ServedUnlessInitFailed,
       Running, InDequeue, Waiters
<1>2. TopicInv /\ [Next]_vars => TopicInv'
  <2> SUFFICES ASSUME TopicInv, [Next]_vars PROVE TopicInv'
    OBVIOUS
  <2>1. TypeOK'
    BY TopicTypes DEF TopicInv
  <2>2. SetUp' /\ OneDispatcher' /\ NoLostWakeup' /\ ServedUnlessInitFailed'
    BY EnqueueInv, SignalInv, DispatcherInv, EnvironmentInv DEF Next
  <2> QED
    BY <2>1, <2>2 DEF TopicInv
<1> QED
  BY <1>1, <1>2, PTL DEF Spec

(* While a dispatcher sleeps on a message, its Signal is still to come. *)
THEOREM WakeupNeverLost == Spec => []NoLostWakeup
<1>1. TopicInv => NoLostWakeup
  BY DEF TopicInv
<1> QED
  BY <1>1, TopicInvariant, PTL

(* ensureDispatcher: one dispatcher per queue at most. *)
THEOREM AtMostOneDispatcher == Spec => []OneDispatcher
<1>1. TopicInv => OneDispatcher
  BY DEF TopicInv
<1> QED
  BY <1>1, TopicInvariant, PTL

(* Nothing but a shutdown or a failed initQueue ends a queue's dispatcher. *)
THEOREM DispatcherKeepsServing == Spec => []ServedUnlessInitFailed
<1>1. TopicInv => ServedUnlessInitFailed
  BY DEF TopicInv
<1> QED
  BY <1>1, TopicInvariant, PTL
-----------------------------------------------------------------------------
(* How the server of Fifo is seen: the one running dispatcher, if any. *)
LEMMA ServedValues ==
  ASSUME OneDispatcher
  PROVE  /\ \A d \in Subscribers : disp[d] = "busy" => Served = "busy"
         /\ \A d \in Subscribers : disp[d] \in InDequeue => Served = "idle"
         /\ (\A d \in Subscribers : ~Running(d)) => Served = IF started THEN "stopped" ELSE "off"
BY DEF OneDispatcher, Served, Running, InDequeue

(* The same of the next state. *)
LEMMA ServedNext ==
  ASSUME OneDispatcher'
  PROVE  /\ \A d \in Subscribers : disp'[d] = "busy" => Served' = "busy"
         /\ \A d \in Subscribers : disp'[d] \in InDequeue => Served' = "idle"
         /\ (\A d \in Subscribers : ~Running(d)') => Served' = IF started' THEN "stopped" ELSE "off"
BY DEF OneDispatcher, Served, Running, InDequeue

(* Every step of Topic is a step of Fifo, or one that Fifo does not see. *)
LEMMA TopicStep ==
  ASSUME TopicInv, TopicInv', [Next]_vars
  PROVE  [Queue!Next]_(Queue!vars)
<1>0. OneDispatcher /\ OneDispatcher' /\ SetUp /\ TypeOK
  BY DEF TopicInv
<1>1. ASSUME NEW m \in Msgs, Enqueue(m) \/ EnqueueInitFails(m) PROVE UNCHANGED Queue!vars
  BY <1>1 DEF Enqueue, EnqueueInitFails, Queue!vars, Served
<1>2. ASSUME NEW m \in Msgs, Put(m) PROVE Queue!Put(m)
  BY <1>2 DEF Put, Queue!Put, Served
<1>3. ASSUME NEW m \in Msgs, Signal(m) PROVE UNCHANGED Queue!vars
  <2>1. UNCHANGED <<msgs, closed, started>>
    BY <1>3 DEF Signal
  <2>2. \A d \in Subscribers : disp'[d] = disp[d] \/ (disp[d] \in InDequeue /\ disp'[d] \in InDequeue)
    BY <1>0, <1>3 DEF Signal, Waiters, InDequeue, TypeOK
  <2>3. Served' = Served
    BY <2>1, <2>2 DEF Served, InDequeue
  <2> QED
    BY <2>1, <2>3 DEF Queue!vars
<1>4. ASSUME NEW S \in SUBSET DOMAIN msgs, RemoveIf(S) PROVE Queue!Expire
  <2>1. UNCHANGED <<closed, started, disp>> /\ msgs' = Select(msgs, DOMAIN msgs \ S)
    BY <1>4 DEF RemoveIf
  <2>2. Served' = Served
    BY <2>1 DEF Served
  <2>3. \E f \in [DOMAIN msgs' -> DOMAIN msgs] :
          /\ \A i, j \in DOMAIN msgs' : i < j => f[i] < f[j]
          /\ \A i \in DOMAIN msgs' : msgs'[i] = msgs[f[i]]
    <3> DEFINE kept == DOMAIN msgs \ S
    <3>1. msgs \in Seq(Msgs) /\ kept \in SUBSET DOMAIN msgs /\ msgs' = Select(msgs, kept)
      BY <1>0, <2>1 DEF TypeOK
    <3> HIDE DEF kept
    <3>2. \E f \in [DOMAIN Select(msgs, kept) -> DOMAIN msgs] :
            /\ \A i, j \in DOMAIN Select(msgs, kept) : i < j => f[i] < f[j]
            /\ \A i \in DOMAIN Select(msgs, kept) : Select(msgs, kept)[i] = msgs[f[i]]
      BY <3>1, SelectOrder
    <3> QED
      BY <3>1, <3>2, Zenon
  <2> QED
    BY <2>1, <2>2, <2>3 DEF Queue!Expire
<1>5. ASSUME NEW d \in Subscribers, EnsureDispatcher(d) PROVE Queue!Start
  <2>1. Served = "off"
    BY <1>0, <1>5, ServedValues DEF EnsureDispatcher, SetUp, Running, InDequeue
  <2>2. disp'[d] = "init" /\ UNCHANGED <<msgs, closed>>
    BY <1>0, <1>5 DEF EnsureDispatcher, TypeOK
  <2>3. Served' = "idle"
    BY <1>0, <2>2, ServedNext DEF InDequeue
  <2> QED
    BY <2>1, <2>2, <2>3 DEF Queue!Start
<1>6. ASSUME NEW d \in Subscribers, InitQueue(d) \/ Wait(d) PROVE UNCHANGED Queue!vars
  <2>1. disp[d] \in InDequeue /\ disp'[d] \in InDequeue /\ UNCHANGED <<msgs, closed>>
    BY <1>0, <1>6 DEF InitQueue, Wait, TypeOK, InDequeue
  <2> QED
    BY <1>0, <2>1, ServedValues, ServedNext DEF Queue!vars
<1>7. ASSUME NEW d \in Subscribers, Take(d) PROVE Queue!Get
  <2>1. disp[d] \in InDequeue /\ disp'[d] = "busy" /\ msgs # <<>> /\ msgs' = Tail(msgs)
          /\ closed' = closed
    BY <1>0, <1>7 DEF Take, TypeOK, InDequeue
  <2> QED
    BY <1>0, <2>1, ServedValues, ServedNext DEF Queue!Get
<1>8. ASSUME NEW d \in Subscribers, disp[d] \in InDequeue \cup {"busy"}, disp'[d] = "stopped",
             \A e \in Subscribers : e # d => disp'[e] = disp[e], started' = started
      PROVE  Served' = "stopped"
  <2>1. \A e \in Subscribers : ~Running(e)'
    BY <1>0, <1>8 DEF OneDispatcher, Running, InDequeue
  <2>2. started
    BY <1>0, <1>8 DEF SetUp, InDequeue
  <2> QED
    BY <1>0, <1>8, <2>1, <2>2, ServedNext
<1>9. ASSUME NEW d \in Subscribers, InitQueueFails(d) PROVE Queue!Fail
  <2>1. disp[d] \in InDequeue /\ disp'[d] = "stopped" /\ msgs = <<>> /\ UNCHANGED <<msgs, closed, started>>
          /\ \A e \in Subscribers : e # d => disp'[e] = disp[e]
    BY <1>0, <1>9 DEF InitQueueFails, TypeOK, SetUp, InDequeue
  <2> QED
    BY <1>0, <1>8, <2>1, ServedValues DEF Queue!Fail
<1>10. ASSUME NEW d \in Subscribers, GiveUp(d) PROVE Queue!Stop
  <2>1. disp[d] \in InDequeue /\ disp'[d] = "stopped" /\ msgs = <<>> /\ closed
          /\ UNCHANGED <<msgs, closed, started>>
          /\ \A e \in Subscribers : e # d => disp'[e] = disp[e]
    BY <1>0, <1>10 DEF GiveUp, TypeOK, InDequeue
  <2> QED
    BY <1>0, <1>8, <2>1, ServedValues DEF Queue!Stop
<1>11. ASSUME NEW d \in Subscribers, Dispatched(d) PROVE Queue!Done
  <2>1. disp[d] = "busy" /\ disp'[d] \in {"init", "stopped"} /\ UNCHANGED <<msgs, closed, started>>
          /\ \A e \in Subscribers : e # d => disp'[e] = disp[e]
    BY <1>0, <1>11 DEF Dispatched, TypeOK
  <2>2. Served = "busy"
    BY <1>0, <2>1, ServedValues
  <2>3. Served' \in {"idle", "stopped"}
    BY <1>0, <1>8, <2>1, ServedNext DEF InDequeue
  <2> QED
    BY <2>1, <2>2, <2>3 DEF Queue!Done
<1>12. ASSUME Close PROVE Queue!Close
  BY <1>0, <1>12 DEF Close, Queue!Close, Served, SetUp
<1>13. ASSUME Broadcast PROVE UNCHANGED Queue!vars
  <2>1. UNCHANGED <<msgs, closed, started>>
    BY <1>13 DEF Broadcast
  <2>2. \A d \in Subscribers : disp'[d] = disp[d] \/ (disp[d] \in InDequeue /\ disp'[d] \in InDequeue)
    BY <1>13 DEF Broadcast, InDequeue
  <2>3. Served' = Served
    BY <2>1, <2>2 DEF Served, InDequeue
  <2> QED
    BY <2>1, <2>3 DEF Queue!vars
<1>14. ASSUME Cancel \/ UNCHANGED vars PROVE UNCHANGED Queue!vars
  BY <1>14 DEF Cancel, vars, Queue!vars, Served
<1> QED
  BY <1>1, <1>2, <1>3, <1>4, <1>5, <1>6, <1>7, <1>9, <1>10, <1>11, <1>12, <1>13, <1>14
     DEF Next, Dequeue, Queue!Next

(***************************************************************************)
(* The topic with its lock, condition variable and dispatcher goroutine    *)
(* takes only steps of Fifo: messages leave in the order they came, each   *)
(* once, to one server.  (That the server does get them is liveness and is *)
(* left to TLC.)                                                           *)
(***************************************************************************)
THEOREM TopicTakesFifoSteps == Spec => Queue!Init /\ [][Queue!Next]_(Queue!vars)
<1>1. Init => Queue!Init
  <2> SUFFICES ASSUME Init PROVE Queue!Init
    OBVIOUS
  <2>1. msgs \in Seq(Msgs)
    BY TopicConstants DEF Init
  <2>2. Served = "off" /\ ~closed
    BY DEF Init, Served, InDequeue
  <2> QED
    BY <2>1, <2>2 DEF Queue!Init
<1>2. TopicInv /\ TopicInv' /\ [Next]_vars => [Queue!Next]_(Queue!vars)
  BY TopicStep
<1> QED
  BY <1>1, <1>2, TopicInvariant, PTL DEF Spec
=============================================================================
