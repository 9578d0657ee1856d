----------------------------- MODULE SlotProofs -----------------------------
(***************************************************************************)
(* The slots of a consumer: what its in-flight counter counts, in a        *)
(* process that runs and in one that is shutting down.  For a shutdown:    *)
(* Broker's invariants survive logs that are closed under running          *)
(* goroutines and dispatchers that stop (CloseInv), so that nothing        *)
(* accepted is missing from what the next process replays.                 *)
(***************************************************************************)
EXTENDS Shutdown, MessageProofs

\* Most leaves are first-order; those that need arithmetic or sequences cite SMT.
USE Zenon

(* The slots of a consumer, by what holds them; SlotsInUse adds them up. *)
Entries(c) == {id \in DOMAIN inFlight : inFlight[id].con = c}
Owed(c) == UNION {{<<t, k>> : k \in {j \in work[t] : j.step = "dec" /\ j.con = c}} : t \in Threads}
Counting(c) == {q \in Queues : disp[q].pc = "register" /\ disp[q].con = c}

\* What the counter of c says beyond the slots in use.
Spare(c) == count[c] - (Cardinality(Entries(c)) + Cardinality(Owed(c)) + Cardinality(Counting(c)))

SlotInv ==
  \A c \in Consumers :
    /\ IsFiniteSet(Entries(c)) /\ IsFiniteSet(Owed(c))
    /\ status[c] = "new" => count[c] = 0 /\ Entries(c) = {} /\ Owed(c) = {} /\ Counting(c) = {}

\* A step leaves a consumer that is yet to come alone; the counter of a registered
\* one moves with its slots, or away from them if a message has two copies.
SlotsKept(c) ==
  /\ IsFiniteSet(Entries(c)') /\ IsFiniteSet(Owed(c)')
  /\ status[c] = "new" => /\ count'[c] = count[c]
                          /\ Entries(c)' = {} /\ Owed(c)' = {} /\ Counting(c)' = {}
  /\ Registered(c) => Spare(c) <= Spare(c)'
  /\ Registered(c) /\ KeyInv /\ OnceInv => Spare(c)' = Spare(c)
-----------------------------------------------------------------------------
(* A slot that is owed is a task still to be counted down. *)
LEMMA OwedTasks ==
  ASSUME NEW c
  PROVE  /\ \A x \in Owed(c) : \E t \in Threads : \E k \in work[t] :
              x = <<t, k>> /\ k.step = "dec" /\ k.con = c
         /\ \A t \in Threads : \A k \in work[t] : k.step = "dec" /\ k.con = c => <<t, k>> \in Owed(c)
BY SMT DEF Owed

(* There are finitely many queues. *)
LEMMA FinitelyManyQueues == IsFiniteSet(Queues)
<1>1. MaxDepth \in Nat /\ 0 \in Int /\ MaxDepth \in Int
  BY BrokerConstants, SMT
<1> QED
  BY <1>1, FS_Interval DEF Queues

(* There are finitely many dispatchers, so the numbers of slots are numbers. *)
LEMMA SlotNumbers ==
  ASSUME TInv, NEW c \in Consumers, IsFiniteSet(Entries(c)), IsFiniteSet(Owed(c))
  PROVE  /\ IsFiniteSet(Counting(c)) /\ count[c] \in Int
         /\ Cardinality(Entries(c)) \in Nat /\ Cardinality(Owed(c)) \in Nat
         /\ Cardinality(Counting(c)) \in Nat
<1>1. Counting(c) \in SUBSET Queues
  BY DEF Counting
<1>2. IsFiniteSet(Counting(c))
  BY <1>1, FinitelyManyQueues, FS_Subset
<1> QED
  BY <1>2, FS_CardinalityType DEF TInv, TypeOK

(***************************************************************************)
(* Elements A of F leave it and their images under g join W: the two sets  *)
(* together do not grow, and they keep their size if no two images agree   *)
(* and none was in W.                                                      *)
(***************************************************************************)
LEMMA MovedSlots ==
  ASSUME NEW F, IsFiniteSet(F), NEW W, IsFiniteSet(W), NEW A, A \subseteq F, NEW N,
         NEW g, g \in Surjection(A, N), NEW G, G = F \ A, NEW V, V = W \cup N
  PROVE  /\ IsFiniteSet(G) /\ IsFiniteSet(V)
         /\ Cardinality(G) + Cardinality(V) <= Cardinality(F) + Cardinality(W)
         /\ g \in Injection(A, N) /\ W \cap N = {} =>
              Cardinality(G) + Cardinality(V) = Cardinality(F) + Cardinality(W)
<1>1. IsFiniteSet(A)
  BY FS_Subset
<1>2. /\ IsFiniteSet(N) /\ Cardinality(N) <= Cardinality(A)
      /\ Cardinality(N) = Cardinality(A) <=> g \in Injection(A, N)
  BY <1>1, FS_Surjection, Zenon
<1>3. F \cap A = A
  OBVIOUS
<1>4. IsFiniteSet(G) /\ Cardinality(G) = Cardinality(F) - Cardinality(A)
  BY <1>3, FS_Difference, SMT
<1>5. IsFiniteSet(V) /\ Cardinality(V) = Cardinality(W) + Cardinality(N) - Cardinality(W \cap N)
  BY <1>2, FS_Union
<1>6. IsFiniteSet(W \cap N)
  <2>1. W \cap N \in SUBSET W
    OBVIOUS
  <2> QED
    BY <2>1, FS_Subset
<1>7. W \cap N = {} => Cardinality(W \cap N) = 0
  BY FS_EmptySet
<1>8. /\ Cardinality(F) \in Nat /\ Cardinality(A) \in Nat /\ Cardinality(W) \in Nat
      /\ Cardinality(N) \in Nat /\ Cardinality(W \cap N) \in Nat
  BY <1>1, <1>2, <1>6, FS_CardinalityType
<1> QED
  BY <1>2, <1>4, <1>5, <1>7, <1>8, SMTT(30)

(* Taking an entry keeps its slot: the entry becomes a task that owes it. *)
LEMMA TakeSlots ==
  ASSUME TInv, SlotInv, NEW t \in Threads, NEW S \in SUBSET DOMAIN inFlight,
         NEW next \in {"tomb", "enq"}, Take(t, S, next), UNCHANGED <<disp, count>>,
         NEW c \in Consumers
  PROVE  SlotsKept(c)
<1> DEFINE new(id) == [step |-> "dec", next |-> next, msg |-> inFlight[id].msg,
                       con |-> inFlight[id].con]
           A == S \cap Entries(c)
           N == {<<t, new(id)>> : id \in A}
           g == [id \in A |-> <<t, new(id)>>]
<1>0. work \in [Threads -> SUBSET Task]
  BY DEF TInv, TypeOK
<1>1. /\ work'[t] = work[t] \cup {new(id) : id \in S}
      /\ \A u \in Threads : u # t => work'[u] = work[u]
  BY <1>0 DEF Take
<1>2. Entries(c)' = Entries(c) \ A /\ A \in SUBSET Entries(c)
  BY DEF Take, Entries
<1>3. \A id \in S : /\ new(id).step = "dec" /\ new(id).con = inFlight[id].con
                    /\ new(id).msg = inFlight[id].msg
  OBVIOUS
<1>4. \A id \in S : id \in A <=> inFlight[id].con = c
  BY DEF Entries
<1> HIDE DEF new
<1>5. Owed(c)' = Owed(c) \cup N
  <2>1. ASSUME NEW x \in Owed(c)' PROVE x \in Owed(c) \cup N
    <3>0. PICK u \in Threads : \E k \in work'[u] : x = <<u, k>> /\ k.step = "dec" /\ k.con = c
      BY <2>1 DEF Owed
    <3>1. PICK k \in work'[u] : x = <<u, k>> /\ k.step = "dec" /\ k.con = c
      BY <3>0
    <3>2. CASE k \in work[u]
      BY <3>1, <3>2, OwedTasks
    <3>3. CASE u = t /\ \E id \in S : k = new(id)
      BY <1>3, <1>4, <3>1, <3>3
    <3> QED
      BY <1>1, <3>1, <3>2, <3>3
  <2>2. \A x \in Owed(c) : x \in Owed(c)'
    <3> SUFFICES ASSUME NEW u \in Threads, NEW k \in work[u], k.step = "dec", k.con = c
                 PROVE  <<u, k>> \in Owed(c)'
      BY OwedTasks, SMT
    <3>1. k \in work'[u]
      BY <1>1
    <3> QED
      BY <3>1, SMT DEF Owed
  <2>3. \A x \in N : x \in Owed(c)'
    <3> SUFFICES ASSUME NEW id \in A PROVE <<t, new(id)>> \in Owed(c)'
      OBVIOUS
    <3>1. new(id) \in work'[t] /\ new(id).step = "dec" /\ new(id).con = c
      BY <1>1, <1>3, <1>4
    <3> QED
      BY <3>1, SMT DEF Owed
  <2> QED
    BY <2>1, <2>2, <2>3
<1>6. g \in Surjection(A, N)
  BY DEF Surjection
<1>7. KeyInv /\ OnceInv => g \in Injection(A, N) /\ Owed(c) \cap N = {}
  <2> SUFFICES ASSUME KeyInv, OnceInv
               PROVE  (\A a, b \in A : g[a] = g[b] => a = b) /\ Owed(c) \cap N = {}
    BY DEF Injection, IsInjective
  <2>1. \A a \in A : new(a).msg.id = a /\ a \in DOMAIN inFlight /\ a \in Ids
    BY <1>3 DEF KeyInv, TInv, TypeOK
  <2>2. \A a, b \in A : g[a] = g[b] => new(a) = new(b)
    OBVIOUS
  <2>3. ASSUME NEW a \in A, <<t, new(a)>> \in Owed(c) PROVE FALSE
    <3>1. new(a) \in work[t]
      BY <2>3, OwedTasks, SMT
    <3> QED
      BY <2>1, <3>1 DEF OnceInv, Apart, InWork
  <2> QED
    BY <2>1, <2>2, <2>3
<1>8. Counting(c)' = Counting(c) /\ count' = count
  BY DEF Counting
<1>9. IsFiniteSet(Entries(c)) /\ IsFiniteSet(Owed(c))
  BY DEF SlotInv
<1>10. Entries(c) = {} => N = {}
  OBVIOUS
<1> HIDE DEF A, N, g
<1>11. /\ IsFiniteSet(Entries(c)') /\ IsFiniteSet(Owed(c)')
       /\ Cardinality(Entries(c)') + Cardinality(Owed(c)') <= Cardinality(Entries(c)) + Cardinality(Owed(c))
       /\ KeyInv /\ OnceInv =>
            Cardinality(Entries(c)') + Cardinality(Owed(c)') = Cardinality(Entries(c)) + Cardinality(Owed(c))
  <2> DEFINE F == Entries(c)
             W == Owed(c)
             G == Entries(c)'
             V == Owed(c)'
  <2>1. IsFiniteSet(F) /\ IsFiniteSet(W) /\ A \subseteq F /\ G = F \ A /\ V = W \cup N
    BY <1>2, <1>5, <1>9
  <2> HIDE DEF F, W, G, V
  <2>2. /\ IsFiniteSet(G) /\ IsFiniteSet(V)
        /\ Cardinality(G) + Cardinality(V) <= Cardinality(F) + Cardinality(W)
        /\ g \in Injection(A, N) /\ W \cap N = {} =>
             Cardinality(G) + Cardinality(V) = Cardinality(F) + Cardinality(W)
    BY <1>6, <2>1, MovedSlots, SMT
  <2> QED
    BY <1>7, <2>2, Zenon DEF F, W, G, V
<1>12. /\ Cardinality(Entries(c)) \in Nat /\ Cardinality(Owed(c)) \in Nat
       /\ Cardinality(Counting(c)) \in Nat /\ count[c] \in Int
       /\ Cardinality(Entries(c)') \in Nat /\ Cardinality(Owed(c)') \in Nat
  BY <1>9, <1>11, SlotNumbers, FS_CardinalityType, ZenonT(40)
<1>13. /\ Spare(c) <= Spare(c)'
       /\ KeyInv /\ OnceInv => Spare(c)' = Spare(c)
  BY <1>8, <1>11, <1>12, SMTT(30) DEF Spare
<1> QED
  BY <1>2, <1>5, <1>8, <1>10, <1>11, <1>13 DEF SlotsKept, SlotInv

(* A step that touches neither counter nor slots. *)
LEMMA SlotsUntouched ==
  ASSUME TInv, SlotInv, NEW c \in Consumers, count'[c] = count[c],
         Entries(c)' = Entries(c), Owed(c)' = Owed(c), Counting(c)' = Counting(c)
  PROVE  SlotsKept(c)
<1>1. IsFiniteSet(Entries(c)) /\ IsFiniteSet(Owed(c))
  BY DEF SlotInv
<1>2. Spare(c) \in Int
  BY <1>1, SlotNumbers, SMT DEF Spare
<1>3. Spare(c)' = Spare(c)
  BY DEF Spare
<1> QED
  BY <1>1, <1>2, <1>3, SMTT(30) DEF SlotsKept, SlotInv

(* Only tasks still to be counted down owe a slot. *)
LEMMA OwedUntouched ==
  ASSUME NEW c, \A t \in Threads : \A k : k.step = "dec" => (k \in work'[t] <=> k \in work[t])
  PROVE  Owed(c)' = Owed(c)
<1> DEFINE Own(u, w) == {<<u, k>> : k \in {j \in w : j.step = "dec" /\ j.con = c}}
<1>1. \A t \in Threads : {j \in work'[t] : j.step = "dec" /\ j.con = c}
                           = {j \in work[t] : j.step = "dec" /\ j.con = c}
  OBVIOUS
<1>2. \A t \in Threads : Own(t, work'[t]) = Own(t, work[t])
  BY <1>1
<1>3. Owed(c) = UNION {Own(t, work[t]) : t \in Threads} /\ Owed(c)' = UNION {Own(t, work'[t]) : t \in Threads}
  BY DEF Owed
<1> HIDE DEF Own
<1> QED
  BY <1>2, <1>3

(* IncrementInFlight takes a slot, Register gives it to an entry. *)
LEMMA DispatchSlots ==
  ASSUME TInv, EligInv, SlotInv, NEW q \in Queues, Dispatch(q), NEW c \in Consumers
  PROVE  SlotsKept(c)
<1>0. /\ disp \in [Queues -> Dispatcher] /\ count \in [Consumers -> Int]
      /\ \A p \in Queues : disp[p].pc = "pick" => disp[p].elig \subseteq Consumers
      /\ IsFiniteSet(Entries(c)) /\ IsFiniteSet(Owed(c))
  BY DEF TInv, TypeOK, Dispatcher, SlotInv
<1>1. /\ IsFiniteSet(Counting(c)) /\ count[c] \in Int
      /\ Cardinality(Entries(c)) \in Nat /\ Cardinality(Owed(c)) \in Nat
      /\ Cardinality(Counting(c)) \in Nat
  BY <1>0, SlotNumbers
<1>2. work' = work
  BY DEF Dispatch, Dequeue, FindEligible, IncrementInFlight, Register, Send
<1>3. Owed(c)' = Owed(c)
  BY <1>2, SMT DEF Owed
<1>4. CASE Dequeue(q) \/ FindEligible(q) \/ Send(q)
  <2>1. /\ UNCHANGED <<inFlight, count>> /\ disp[q].pc # "register" /\ disp'[q].pc # "register"
        /\ \A p \in Queues : p # q => disp'[p] = disp[p]
    BY <1>0, <1>4, SMT DEF Dequeue, FindEligible, Send, consumerVars
  <2>2. Entries(c)' = Entries(c) /\ Counting(c)' = Counting(c)
    BY <2>1 DEF Entries, Counting
  <2> QED
    BY <1>3, <2>1, <2>2, SlotsUntouched, ZenonT(40)
<1>5. CASE IncrementInFlight(q)
  <2>1. PICK d \in disp[q].elig :
          /\ count' = IF Registered(d) THEN [count EXCEPT ![d] = @ + 1] ELSE count
          /\ disp' = [disp EXCEPT ![q] = [pc |-> "register", msg |-> disp[q].msg, con |-> d]]
    BY <1>5 DEF IncrementInFlight, LeastInFlight
  <2>2. d \in Consumers /\ status[d] # "new" /\ disp[q].pc = "pick" /\ inFlight' = inFlight
    BY <1>0, <1>5 DEF IncrementInFlight, EligInv
  <2>3. Entries(c)' = Entries(c)
    BY <2>2 DEF Entries
  <2>4. /\ disp'[q].pc = "register" /\ disp'[q].con = d
        /\ \A p \in Queues : p # q => disp'[p] = disp[p]
    BY <1>0, <2>1
  <2>5. CASE c # d
    <3>1. Counting(c)' = Counting(c)
      BY <2>2, <2>4, <2>5 DEF Counting
    <3>2. count'[c] = count[c]
      BY <1>0, <2>1, <2>2, <2>5
    <3> QED
      BY <1>3, <2>3, <3>1, <3>2, SlotsUntouched
  <2>6. CASE c = d
    <3>1. Counting(c)' = Counting(c) \cup {q} /\ q \notin Counting(c)
      BY <2>2, <2>4, <2>6 DEF Counting
    <3>2. Cardinality(Counting(c)') = Cardinality(Counting(c)) + 1
      BY <1>1, <3>1, FS_AddElement
    <3>3. Registered(c) => count'[c] = count[c] + 1
      BY <1>0, <2>1, <2>2, <2>6
    <3>4. Registered(c) => Spare(c)' = Spare(c) /\ Spare(c) \in Int
      BY <1>1, <1>3, <2>3, <3>2, <3>3, SMTT(30) DEF Spare
    <3> QED
      BY <1>0, <1>3, <2>2, <2>3, <2>6, <3>4, SMTT(30) DEF SlotsKept
  <2> QED
    BY <2>5, <2>6
<1>6. CASE Register(q)
  <2> DEFINE d == disp[q].con
             x == disp[q].msg.id
  <2>1. /\ disp[q].pc = "register" /\ disp'[q].pc = "send" /\ count' = count
        /\ \A p \in Queues : p # q => disp'[p] = disp[p]
    BY <1>0, <1>6 DEF Register, consumerVars
  <2>2. /\ DOMAIN inFlight' = DOMAIN inFlight \cup {x} /\ inFlight'[x].con = d
        /\ \A id \in DOMAIN inFlight : id # x => inFlight'[id] = inFlight[id]
    BY <1>6 DEF Register
  <2>3. OnceInv => x \notin DOMAIN inFlight
    <3>1. x \in Ids /\ AtDispatcher(x)
      BY <1>0, <2>1 DEF AtDispatcher, Dispatcher, Message
    <3> QED
      BY <3>1 DEF OnceInv, Apart
  <2>4. d \in Consumers /\ q \in Counting(d)
    BY <1>0, <2>1 DEF Counting, Dispatcher
  <2> HIDE DEF d, x
  <2>5. CASE c # d
    <3>1. Counting(c)' = Counting(c)
      BY <2>1, <2>5 DEF Counting, d
    <3>2. Entries(c)' = Entries(c) \ {x}
      BY <2>2, <2>5 DEF Entries
    <3>3. /\ IsFiniteSet(Entries(c)') /\ Cardinality(Entries(c)') <= Cardinality(Entries(c))
          /\ Cardinality(Entries(c)') \in Nat
          /\ x \notin DOMAIN inFlight => Cardinality(Entries(c)') = Cardinality(Entries(c))
      <4>1. x \notin DOMAIN inFlight => x \notin Entries(c)
        BY DEF Entries
      <4>2. IsFiniteSet(Entries(c)') /\ Cardinality(Entries(c)') =
              IF x \in Entries(c) THEN Cardinality(Entries(c)) - 1 ELSE Cardinality(Entries(c))
        BY <1>0, <3>2, FS_RemoveElement, SMTT(30)
      <4>3. Cardinality(Entries(c)') \in Nat
        BY <4>2, FS_CardinalityType
      <4> QED
        BY <1>1, <4>1, <4>2, <4>3, SMTT(30)
    <3>4. Spare(c) <= Spare(c)' /\ (x \notin DOMAIN inFlight => Spare(c)' = Spare(c))
      BY <1>1, <1>3, <2>1, <3>1, <3>3, SMTT(30) DEF Spare
    <3>5. status[c] = "new" => Entries(c) = {} /\ Owed(c) = {} /\ Counting(c) = {}
      BY DEF SlotInv
    <3> QED
      BY <1>0, <1>3, <2>1, <2>3, <3>1, <3>2, <3>3, <3>4, <3>5 DEF SlotsKept
  <2>6. CASE c = d
    <3>1. Counting(c)' = Counting(c) \ {q}
      BY <2>1, <2>6 DEF Counting
    <3>2. Entries(c)' = Entries(c) \cup {x}
      BY <2>2, <2>6 DEF Entries
    <3>3. Cardinality(Counting(c)') = Cardinality(Counting(c)) - 1
      BY <1>1, <2>4, <2>6, <3>1, FS_RemoveElement
    <3>4. /\ IsFiniteSet(Entries(c)') /\ Cardinality(Entries(c)') <= Cardinality(Entries(c)) + 1
          /\ Cardinality(Entries(c)') \in Nat
          /\ x \notin DOMAIN inFlight => Cardinality(Entries(c)') = Cardinality(Entries(c)) + 1
      <4>1. x \notin DOMAIN inFlight => x \notin Entries(c)
        BY DEF Entries
      <4>2. IsFiniteSet(Entries(c)') /\ Cardinality(Entries(c)') =
              IF x \in Entries(c) THEN Cardinality(Entries(c)) ELSE Cardinality(Entries(c)) + 1
        BY <1>0, <3>2, FS_AddElement
      <4>3. Cardinality(Entries(c)') \in Nat
        BY <4>2, FS_CardinalityType
      <4> QED
        BY <1>1, <4>1, <4>2, <4>3, SMTT(30)
    <3>5. Spare(c) <= Spare(c)' /\ (x \notin DOMAIN inFlight => Spare(c)' = Spare(c))
      BY <1>1, <1>3, <2>1, <3>3, <3>4, SMTT(30) DEF Spare
    <3>6. status[c] # "new"
      BY <2>4, <2>6 DEF SlotInv
    <3> QED
      BY <1>0, <1>3, <2>3, <3>4, <3>5, <3>6 DEF SlotsKept
  <2> QED
    BY <2>5, <2>6
<1> QED
  BY <1>4, <1>5, <1>6, ZenonT(40) DEF Dispatch

(* DecrementInFlight gives a slot back; the rest of a task has none. *)
LEMMA StepSlots ==
  ASSUME TInv, SlotInv, NEW t \in Threads, NEW k \in work[t], StepOrFail(t, k), NEW c \in Consumers
  PROVE  SlotsKept(c)
<1>0. /\ work \in [Threads -> SUBSET Task] /\ count \in [Consumers -> Int]
      /\ IsFiniteSet(Entries(c)) /\ IsFiniteSet(Owed(c)) /\ k \in Task
  BY DEF TInv, TypeOK, SlotInv
<1>1. UNCHANGED <<disp, inFlight>>
  BY DEF StepOrFail, Step, EnqueueCheck, EnqueueWal, EnqueueRejected, EnqueueFails, EnqueueTopic,
     DecrementInFlight, WriteTombstone, WriteTombstoneFails
<1>2. Entries(c)' = Entries(c) /\ Counting(c)' = Counting(c)
  BY <1>1 DEF Entries, Counting
<1>3. CASE DecrementInFlight(t, k)
  <2>1. k.step = "dec" /\ k.con \in Consumers /\ AfterDecrement(k).step # "dec"
    BY <1>0, <1>3 DEF DecrementInFlight, Task, AfterDecrement
  <2>2. /\ \A u \in Threads : u # t => work'[u] = work[u]
        /\ work'[t] = (work[t] \ {k}) \cup {AfterDecrement(k)}
    BY <1>0, <1>3 DEF DecrementInFlight
  <2>3. count' = IF Registered(k.con) THEN [count EXCEPT ![k.con] = @ - 1] ELSE count
    BY <1>3 DEF DecrementInFlight
  <2>4. ASSUME NEW d \in Consumers PROVE Owed(d)' = Owed(d) \ {<<t, k>>}
    <3>1. ASSUME NEW u \in Threads, NEW j, j.step = "dec"
          PROVE  j \in work'[u] <=> j \in work[u] /\ <<u, j>> # <<t, k>>
      BY <2>1, <2>2, <3>1
    <3>2. ASSUME NEW y \in Owed(d)' PROVE y \in Owed(d) \ {<<t, k>>}
      <4>1. PICK u \in Threads : \E j \in work'[u] : y = <<u, j>> /\ j.step = "dec" /\ j.con = d
        BY <3>2 DEF Owed
      <4>2. PICK j \in work'[u] : y = <<u, j>> /\ j.step = "dec" /\ j.con = d
        BY <4>1
      <4> QED
        BY <3>1, <4>2, OwedTasks
    <3>3. ASSUME NEW y \in Owed(d), y # <<t, k>> PROVE y \in Owed(d)'
      <4>1. PICK u \in Threads : \E j \in work[u] : y = <<u, j>> /\ j.step = "dec" /\ j.con = d
        BY <3>3, OwedTasks
      <4>2. PICK j \in work[u] : y = <<u, j>> /\ j.step = "dec" /\ j.con = d
        BY <4>1
      <4>3. j \in work'[u]
        BY <3>1, <3>3, <4>2
      <4> QED
        BY <4>2, <4>3, SMT DEF Owed
    <3> QED
      BY <3>2, <3>3
  <2>5. CASE c # k.con
    <3>1. Owed(c)' = Owed(c)
      BY <2>4, <2>5, OwedTasks, SMTT(30)
    <3>2. count'[c] = count[c]
      BY <1>0, <2>1, <2>3, <2>5
    <3> QED
      BY <1>2, <3>1, <3>2, SlotsUntouched
  <2>6. CASE c = k.con
    <3>1. <<t, k>> \in Owed(c)
      BY <2>1, <2>6, OwedTasks
    <3>2. IsFiniteSet(Owed(c)') /\ Cardinality(Owed(c)') = Cardinality(Owed(c)) - 1
      BY <1>0, <2>4, <3>1, FS_RemoveElement, SMTT(30)
    <3>3. Registered(c) => count'[c] = count[c] - 1
      BY <1>0, <2>3, <2>6
    <3>4. Registered(c) => Spare(c)' = Spare(c) /\ Spare(c) \in Int
      BY <1>0, <1>2, <3>2, <3>3, SlotNumbers, SMTT(30) DEF Spare
    <3>5. status[c] # "new"
      BY <3>1 DEF SlotInv
    <3> QED
      BY <1>0, <1>2, <3>2, <3>4, <3>5, SMTT(30) DEF SlotsKept
  <2> QED
    BY <2>5, <2>6
<1>4. CASE ~DecrementInFlight(t, k)
  <2>1. \/ work' = [work EXCEPT ![t] = @ \ {k}]
        \/ \E s \in {"wal", "topic"} :
             work' = [work EXCEPT ![t] = (@ \ {k}) \cup {[step |-> s, msg |-> k.msg]}]
    BY <1>4, Zenon DEF StepOrFail, Step, EnqueueCheck, EnqueueWal, EnqueueRejected, EnqueueFails,
       EnqueueTopic, WriteTombstone, WriteTombstoneFails
  <2>2. k.step # "dec" /\ count' = count
    BY <1>4, Zenon DEF StepOrFail, Step, EnqueueCheck, EnqueueWal, EnqueueRejected, EnqueueFails,
       EnqueueTopic, WriteTombstone, WriteTombstoneFails, consumerVars
  <2>3. \A u \in Threads : \A j : j.step = "dec" => (j \in work'[u] <=> j \in work[u])
    <3> SUFFICES ASSUME NEW u \in Threads, NEW j, j.step = "dec"
                 PROVE  j \in work'[u] <=> j \in work[u]
      OBVIOUS
    <3>1. j # k /\ \A s \in {"wal", "topic"} : j # [step |-> s, msg |-> k.msg]
      BY <2>2, SMT
    <3> QED
      BY <1>0, <2>1, <3>1
  <2>4. Owed(c)' = Owed(c)
    BY <2>3, OwedUntouched
  <2> QED
    BY <1>2, <2>2, <2>4, SlotsUntouched
<1> QED
  BY <1>3, <1>4

(* A consumer is registered once, and new until then. *)
LEMMA StatusMoves ==
  ASSUME TInv, [Next]_vars, NEW c \in Consumers
  PROVE  /\ status'[c] = "new" => status[c] = "new"
         /\ Registered(c)' => ~CrashRestart /\ (Registered(c) \/ status[c] = "new")
<1>0. status \in [Consumers -> {"new", "up", "halted", "closing", "draining", "ended", "gone"}]
  BY DEF TInv, TypeOK
<1>1. ASSUME NEW t \in Threads, NEW k \in work[t], StepOrFail(t, k) PROVE status' = status
  BY <1>1, Zenon DEF StepOrFail, Step, EnqueueCheck, EnqueueWal, EnqueueRejected, EnqueueFails, EnqueueTopic,
     DecrementInFlight, WriteTombstone, WriteTombstoneFails, consumerVars
<1>2. ASSUME NEW q \in Queues, Dispatch(q) PROVE status' = status
  BY <1>2 DEF Dispatch, Dequeue, FindEligible, IncrementInFlight, Register, Send, consumerVars
<1>3. ASSUME NEW d \in Consumers,
             \/ \E q \in 0..(MaxDepth - 1) : Subscribe(d, q)
             \/ Forward(d) \/ ForwardFails(d) \/ SenderStops(d) \/ Deregister(d) \/ Drain(d) \/ Drained(d)
             \/ \E id \in Ids : Ack(d, id) \/ Nack(d, id)
      PROVE  /\ status'[c] = "new" => status[c] = "new"
             /\ Registered(c)' => Registered(c) \/ status[c] = "new"
  BY <1>0, <1>3 DEF Subscribe, Forward, ForwardFails, SenderStops, SenderEnded, Deregister, Drain, Drained,
     Ack, Nack, Answered, Registered, Sending, Deregistered, consumerVars
<1>4. CASE CrashRestart
  BY <1>4 DEF CrashRestart, Registered
<1>5. ASSUME \/ \E id \in Ids, q \in Queues : Publish(id, q)
             \/ \E q \in Queues : Compact(q)
             \/ TimeoutScan \/ DlqScan \/ BeginShutdown \/ UNCHANGED vars
      PROVE  status' = status
  BY <1>5, ZenonT(40) DEF Publish, Compact, TimeoutScan, DlqScan, ScanAndTimeout, ExpireDLQPending,
     ExpireDLQInFlight, BeginShutdown, vars, consumerVars
<1>6. Registered(c)' => ~CrashRestart
  BY DEF CrashRestart, Registered
<1>7. ASSUME status' = status PROVE /\ status'[c] = "new" => status[c] = "new"
                                    /\ Registered(c)' => Registered(c)
  BY <1>7 DEF Registered
<1> QED
  BY <1>1, <1>2, <1>3, <1>4, <1>5, <1>6, <1>7 DEF Next, StepOrFail

(* Every step but a restart keeps the slots of every consumer. *)
LEMMA EverySlotKept ==
  ASSUME TInv, EligInv, PublishTasks, SlotInv, [Next]_vars, ~CrashRestart, NEW c \in Consumers
  PROVE  SlotsKept(c)
<1>0. /\ <<"scan", "timeout">> \in Threads /\ <<"scan", "dlqttl">> \in Threads
      /\ \A d \in Consumers : <<"recv", d>> \in Threads /\ <<"drain", d>> \in Threads
      /\ \A id \in Ids : <<"publish", id>> \in Threads
      /\ work \in [Threads -> SUBSET Task] /\ disp \in [Queues -> Dispatcher]
  BY DEF Threads, Publishers, TInv, TypeOK
<1>1. ASSUME UNCHANGED <<inFlight, count>>,
             \A t \in Threads : \A k : k.step = "dec" => (k \in work'[t] <=> k \in work[t]),
             \A q \in Queues : disp'[q] = disp[q] \/ (disp[q].pc = "off" /\ disp'[q].pc = "dequeue")
      PROVE  SlotsKept(c)
  <2>1. Entries(c)' = Entries(c) /\ Counting(c)' = Counting(c)
    BY <1>1 DEF Entries, Counting
  <2>2. Owed(c)' = Owed(c)
    BY <1>1, OwedUntouched
  <2> QED
    BY <1>1, <2>1, <2>2, SlotsUntouched
<1>2. ASSUME UNCHANGED <<inFlight, count, work, disp>> PROVE SlotsKept(c)
  BY <1>1, <1>2
<1>3. ASSUME TimeoutScan PROVE SlotsKept(c)
  <2>1. PICK S \in SUBSET DOMAIN inFlight : ScanAndTimeout(S)
    BY <1>3 DEF TimeoutScan
  <2>2. Take(<<"scan", "timeout">>, S, "enq") /\ UNCHANGED <<disp, count>>
    BY <2>1 DEF ScanAndTimeout, consumerVars
  <2> QED
    BY <1>0, <2>2, TakeSlots
<1>4. ASSUME NEW S \in SUBSET DOMAIN inFlight, ExpireDLQInFlight(S) PROVE SlotsKept(c)
  <2>1. Take(<<"scan", "dlqttl">>, S, "tomb") /\ UNCHANGED <<disp, count>>
    BY <1>4 DEF ExpireDLQInFlight, consumerVars
  <2> QED
    BY <1>0, <2>1, TakeSlots
<1>5. ASSUME NEW q \in Queues, NEW S \in SUBSET DOMAIN topic[q], ExpireDLQPending(q, S) PROVE SlotsKept(c)
  <2> DEFINE N == {[step |-> "tomb", msg |-> topic[q][i]] : i \in S}
  <2>1. /\ UNCHANGED <<inFlight, count, disp>> /\ work[<<"scan", "dlqttl">>] = {}
        /\ work' = [work EXCEPT ![<<"scan", "dlqttl">>] = N]
    BY <1>5 DEF ExpireDLQPending, consumerVars
  <2>2. \A k : k.step = "dec" => k \notin N
    BY SMT
  <2> HIDE DEF N
  <2> QED
    BY <1>0, <1>1, <2>1, <2>2
<1>6. ASSUME NEW id \in Ids, NEW q \in Queues, Publish(id, q) PROVE SlotsKept(c)
  <2> DEFINE N == {[step |-> "enq", msg |-> [id |-> id, queue |-> q, retry |-> 0]]}
  <2>1. /\ UNCHANGED <<inFlight, count, disp>>
        /\ work' = [work EXCEPT ![<<"publish", id>>] = N]
    BY <1>6 DEF Publish, consumerVars
  <2>2. \A k : k.step = "dec" => k \notin N /\ k \notin work[<<"publish", id>>]
    BY SMT DEF PublishTasks
  <2> HIDE DEF N
  <2> QED
    BY <1>0, <1>1, <2>1, <2>2
<1>7. ASSUME NEW d \in Consumers, NEW q \in 0..(MaxDepth - 1), Subscribe(d, q) PROVE SlotsKept(c)
  <2>1. UNCHANGED <<inFlight, count, work>>
    BY <1>7 DEF Subscribe
  <2>2. \A p \in Queues : disp'[p] = disp[p] \/ (disp[p].pc = "off" /\ disp'[p].pc = "dequeue")
    BY <1>0, <1>7 DEF Subscribe
  <2> QED
    BY <1>1, <2>1, <2>2
<1>8. ASSUME NEW d \in Consumers, Forward(d) \/ ForwardFails(d) \/ SenderStops(d) \/ Deregister(d) \/ Drained(d)
      PROVE  SlotsKept(c)
  BY <1>2, <1>8 DEF Forward, ForwardFails, SenderStops, Deregister, Drained
<1>9. ASSUME NEW d \in Consumers, Drain(d) PROVE SlotsKept(c)
  <2>1. PICK S \in SUBSET DOMAIN inFlight : Take(<<"drain", d>>, S, "enq")
    BY <1>9 DEF Drain, TakeOne
  <2>2. UNCHANGED <<disp, count>>
    BY <1>9 DEF Drain
  <2> QED
    BY <1>0, <2>1, <2>2, TakeSlots
<1>10. ASSUME NEW d \in Consumers, NEW id \in Ids, Ack(d, id) \/ Nack(d, id) PROVE SlotsKept(c)
  <2>1. UNCHANGED <<disp, count>>
    BY <1>10 DEF Ack, Nack, Answered, consumerVars
  <2>2. PICK next \in {"tomb", "enq"} : TakeOne(<<"recv", d>>, id, next)
    BY <1>10 DEF Ack, Nack
  <2>3. PICK S \in SUBSET DOMAIN inFlight : Take(<<"recv", d>>, S, next)
    BY <2>2 DEF TakeOne
  <2> QED
    BY <1>0, <2>1, <2>3, TakeSlots
<1>11. ASSUME BeginShutdown \/ UNCHANGED vars \/ \E q \in Queues : Compact(q) PROVE SlotsKept(c)
  BY <1>2, <1>11 DEF BeginShutdown, Compact, vars, consumerVars
<1> QED
  BY <1>3, <1>4, <1>5, <1>6, <1>7, <1>8, <1>9, <1>10, <1>11, StepSlots, DispatchSlots
     DEF Next, DlqScan, StepOrFail

(* What a step does to slots; a consumer that registers has none. *)
LEMMA SlotStep ==
  ASSUME TInv, EligInv, PublishTasks, SlotInv, [Next]_vars
  PROVE  /\ SlotInv'
         /\ \A c \in Consumers : Registered(c)' =>
              \/ status[c] = "new" /\ Spare(c)' = 0
              \/ Registered(c) /\ SlotsKept(c)
<1>1. CASE CrashRestart
  <2>1. /\ DOMAIN inFlight' = {} /\ \A t \in Threads : work'[t] = {}
        /\ \A c \in Consumers : count'[c] = 0
        /\ \A q \in Queues : disp'[q].pc = "off"
    BY <1>1 DEF CrashRestart
  <2>2. \A c \in Consumers : Entries(c)' = {} /\ Owed(c)' = {} /\ Counting(c)' = {}
    BY <2>1 DEF Entries, Owed, Counting
  <2>3. SlotInv'
    <3>1. IsFiniteSet({})
      BY FS_EmptySet
    <3> SUFFICES ASSUME NEW c \in Consumers
                 PROVE  /\ IsFiniteSet(Entries(c)') /\ IsFiniteSet(Owed(c)')
                        /\ status'[c] = "new" => /\ count'[c] = 0 /\ Entries(c)' = {}
                                                 /\ Owed(c)' = {} /\ Counting(c)' = {}
      BY DEF SlotInv
    <3> QED
      BY <2>1, <2>2, <3>1
  <2> QED
    BY <1>1, <2>3, StatusMoves
<1>2. CASE ~CrashRestart
  <2>1. \A c \in Consumers : SlotsKept(c)
    BY <1>2, EverySlotKept
  <2>2. \A c \in Consumers : status'[c] = "new" => status[c] = "new"
    BY StatusMoves
  <2>3. SlotInv'
    BY <2>1, <2>2 DEF SlotInv, SlotsKept
  <2>4. ASSUME NEW c \in Consumers, status[c] = "new" PROVE Spare(c)' = 0
    <3>1. count'[c] = 0 /\ Entries(c)' = {} /\ Owed(c)' = {} /\ Counting(c)' = {}
      BY <2>1, <2>4 DEF SlotInv, SlotsKept
    <3> QED
      BY <3>1, FS_EmptySet, SMT DEF Spare
  <2> QED
    BY <2>1, <2>3, <2>4, StatusMoves
<1> QED
  BY <1>1, <1>2

\* The same of a state: the counter covers the slots, exactly in a first run.
SpareInv ==
  \A c \in Consumers : Registered(c) => Spare(c) >= 0 /\ (crashes = 0 => Spare(c) = 0)

(* No slot is taken yet. *)
LEMMA SlotInit == Init => SlotInv /\ SpareInv
<1> SUFFICES ASSUME Init PROVE SlotInv /\ SpareInv
  OBVIOUS
<1>1. /\ DOMAIN inFlight = {} /\ \A t \in Threads : work[t] = {}
      /\ \A q \in Queues : disp[q].pc = "off"
      /\ \A c \in Consumers : count[c] = 0 /\ status[c] = "new"
  BY DEF Init
<1>2. \A c \in Consumers : Entries(c) = {} /\ Owed(c) = {} /\ Counting(c) = {}
  BY <1>1 DEF Entries, Owed, Counting
<1> QED
  BY <1>1, <1>2, FS_EmptySet DEF SlotInv, SpareInv, Registered

(* The inductive invariant behind both theorems. *)
LEMMA SlotInvariant == Spec => [](TInv /\ SlotInv /\ SpareInv)
<1>1. Init => SlotInv /\ SpareInv
  BY SlotInit
<1>2. /\ TInv /\ TInv' /\ PInv /\ LogInv /\ KeyInv /\ (crashes = 0 => OnceInv)
      /\ SlotInv /\ SpareInv /\ [Next]_vars
      => SlotInv' /\ SpareInv'
  <2> SUFFICES ASSUME TInv, TInv', PInv, LogInv, KeyInv, crashes = 0 => OnceInv,
                      SlotInv, SpareInv, [Next]_vars
               PROVE  SlotInv' /\ SpareInv'
    OBVIOUS
  <2>1. EligInv /\ PublishTasks /\ KeyInv
    BY DEF PInv, LogInv
  <2>2. SlotInv'
    BY <2>1, SlotStep
  <2>3. ASSUME NEW c \in Consumers, Registered(c)'
        PROVE  Spare(c)' >= 0 /\ (crashes' = 0 => Spare(c)' = 0)
    <3>1. CASE status[c] = "new" /\ Spare(c)' = 0
      BY <3>1, SMT
    <3>2. CASE Registered(c) /\ SlotsKept(c)
      <4>1. Spare(c) >= 0 /\ Spare(c) <= Spare(c)' /\ (crashes = 0 => Spare(c) = 0)
        BY <3>2 DEF SpareInv, SlotsKept
      <4>2. Spare(c) \in Int
        BY SlotNumbers, SMT DEF SlotInv, Spare
      <4>3. Spare(c)' \in Int
        <5>1. /\ count'[c] \in Int /\ IsFiniteSet(Entries(c)') /\ IsFiniteSet(Owed(c)')
          BY <2>2 DEF SlotInv, TInv, TypeOK
        <5>2. IsFiniteSet(Counting(c)')
          BY FinitelyManyQueues, FS_Subset DEF Counting
        <5> QED
          BY <5>1, <5>2, FS_CardinalityType, SMTT(30) DEF Spare
      <4>4. crashes' = 0 => Spare(c)' = Spare(c) /\ crashes = 0
        BY <2>1, <3>2, FirstRun DEF SlotsKept
      <4> QED
        BY <4>1, <4>2, <4>3, <4>4, SMTT(30)
    <3> QED
      BY <2>1, <2>3, <3>1, <3>2, SlotStep
  <2> QED
    BY <2>2, <2>3 DEF SpareInv
<1> QED
  BY <1>1, <1>2, TypeInvariant, PrefetchInvariant, LogInvariant, OnceInvariant, PTL DEF Spec

(* Slots in use are numbers, and what they leave of the counter is spare. *)
LEMMA SlotsAdded ==
  ASSUME TInv, SlotInv, NEW c \in Consumers
  PROVE  SlotsInUse(c) \in Nat /\ Spare(c) = count[c] - SlotsInUse(c) /\ count[c] \in Int
           /\ Cardinality(Entries(c)) \in Nat /\ Cardinality(Entries(c)) <= SlotsInUse(c)
<1>1. SlotsInUse(c) = Cardinality(Entries(c)) + Cardinality(Owed(c)) + Cardinality(Counting(c))
  BY DEF SlotsInUse, Entries, Owed, Counting
<1> QED
  BY <1>1, SlotNumbers, SMT DEF SlotInv, Spare

(***************************************************************************)
(* The counter of a registered consumer never falls below the slots that   *)
(* its entries, tasks and dispatchers use, whatever interleaves, and       *)
(* although a restart leaves two copies of a message behind.               *)
(***************************************************************************)
THEOREM CounterCoversSlots == Spec => []SlotsCovered
<1>1. TInv /\ SlotInv /\ SpareInv => SlotsCovered
  BY SlotsAdded, SMT DEF SpareInv, SlotsCovered
<1> QED
  BY <1>1, SlotInvariant, PTL

(***************************************************************************)
(* Until the process restarts the counter is the number of slots in use: a *)
(* slot is given back once for every message, by whoever takes its entry.  *)
(***************************************************************************)
THEOREM NoSlotLeakedUntilRestart == Spec => [](crashes = 0 => NoSlotLeaked)
<1>1. TInv /\ SlotInv /\ SpareInv => (crashes = 0 => NoSlotLeaked)
  BY SlotsAdded, SMT DEF SpareInv, NoSlotLeaked
<1> QED
  BY <1>1, SlotInvariant, PTL

\* README of the -prefetch option: "Max in-flight messages for this consumer".
EntriesWithinLimit ==
  \A c \in Consumers : Registered(c) => Cardinality(Entries(c)) <= PrefetchLimit(c)

(***************************************************************************)
(* A registered consumer never has more entries in the in-flight map than  *)
(* its prefetch limit, across restarts too.                                *)
(***************************************************************************)
THEOREM InFlightWithinLimit == Spec => []EntriesWithinLimit
<1>1. TInv /\ SlotInv /\ SpareInv /\ PInv => EntriesWithinLimit
  BY SlotsAdded, LimitPositive, SMT DEF SpareInv, PInv, PrefetchRespected, EntriesWithinLimit
<1> QED
  BY <1>1, SlotInvariant, PrefetchInvariant, PTL
-----------------------------------------------------------------------------
(* The slots of a consumer that dispatchers are giving back. *)
Undoing(c) == {q \in Queues : disp[q].pc = "undo" /\ disp[q].con = c}

UndoInv ==
  \A c \in Consumers :
    /\ status[c] = "new" => Undoing(c) = {}
    /\ Registered(c) => Spare(c) = Cardinality(Undoing(c))

\* What Broker's invariants say of a process that is shutting down.
CloseInv ==
  TInv /\ PInv /\ LogInv /\ KeyInv /\ MsgInv /\ OnceInv /\ SlotInv /\ UndoInv

\* The steps that the shutdown adds to those of Broker.
ClosingStep ==
  \/ \E t \in Threads : \E k \in work[t] : EnqueueClosed(t, k) \/ TombstoneClosed(t, k)
  \/ \E q \in Queues : DispatcherStops(q) \/ Unregister(q) \/ UndoInFlight(q)
-----------------------------------------------------------------------------
(* Every step of a process that shuts down is a step of the broker, one of *)
(* the added ones, a step of main or the signal goroutine, or the exit.    *)
LEMMA ShutdownCases ==
  ASSUME [ShutdownNext]_allVars
  PROVE  \/ [Next]_vars /\ crashes' = crashes
         \/ ClosingStep
         \/ Exit
<1>1. ASSUME BrokerStep PROVE Next \/ ClosingStep
  <2>1. ASSUME NEW t \in Threads, NEW k \in work[t], TaskStep(t, k) PROVE Next \/ ClosingStep
    BY <2>1 DEF TaskStep, Next, ClosingStep
  <2>2. ASSUME NEW q \in Queues, Dispatch(q) \/ DispatcherStops(q) \/ Unregister(q) \/ UndoInFlight(q)
        PROVE  Next \/ ClosingStep
    BY <2>2 DEF Next, ClosingStep
  <2>3. ASSUME NEW c \in Consumers,
               \/ \E q \in 0..(MaxDepth - 1) : Subscribe(c, q)
               \/ Forward(c) \/ ForwardFails(c) \/ SenderStops(c) \/ Deregister(c) \/ Drain(c) \/ Drained(c)
               \/ \E id \in Ids : Ack(c, id) \/ Nack(c, id)
        PROVE  Next
    BY <2>3 DEF Next
  <2>4. ASSUME TimeoutScan \/ \E id \in Ids, q \in Queues : Publish(id, q) PROVE Next
    BY <2>4 DEF Next
  <2> QED
    BY <1>1, <2>1, <2>2, <2>3, <2>4 DEF BrokerStep
<1>2. ASSUME BrokerStep, ~ClosingStep PROVE crashes' = crashes
  <2>1. ASSUME NEW t \in Threads, NEW k \in work[t], TaskStep(t, k) PROVE crashes' = crashes
    <3>1. Step(t, k)
      BY <1>2, <2>1 DEF TaskStep, ClosingStep
    <3> QED
      BY <3>1 DEF Step, EnqueueCheck, EnqueueWal, EnqueueRejected, EnqueueTopic, DecrementInFlight,
         WriteTombstone
  <2>2. ASSUME NEW q \in Queues, Dispatch(q) \/ DispatcherStops(q) \/ Unregister(q) \/ UndoInFlight(q)
        PROVE  crashes' = crashes
    <3>1. Dispatch(q)
      BY <1>2, <2>2 DEF ClosingStep
    <3> QED
      BY <3>1 DEF Dispatch, Dequeue, FindEligible, IncrementInFlight, Register, Send
  <2>3. ASSUME NEW c \in Consumers,
               \/ \E q \in 0..(MaxDepth - 1) : Subscribe(c, q)
               \/ Forward(c) \/ ForwardFails(c) \/ SenderStops(c) \/ Deregister(c) \/ Drain(c) \/ Drained(c)
               \/ \E id \in Ids : Ack(c, id) \/ Nack(c, id)
        PROVE  crashes' = crashes
    BY <2>3 DEF Subscribe, Forward, ForwardFails, SenderStops, Deregister, Drain, Drained, Ack, Nack, Answered
  <2>4. ASSUME TimeoutScan \/ \E id \in Ids, q \in Queues : Publish(id, q) PROVE crashes' = crashes
    BY <2>4 DEF TimeoutScan, ScanAndTimeout, Publish
  <2> QED
    BY <1>2, <2>1, <2>2, <2>3, <2>4 DEF BrokerStep
<1>3. ASSUME SignalReceived PROVE Next /\ crashes' = crashes
  BY <1>3 DEF SignalReceived, BeginShutdown, Next
<1>4. ASSUME \/ GracefulStop \/ ForceStop \/ WaitDrained \/ CloseTopics \/ CloseWriters \/ DeferredCancel
             \/ UNCHANGED allVars
      PROVE  UNCHANGED vars
  BY <1>4 DEF GracefulStop, ForceStop, WaitDrained, CloseTopics, CloseWriters, DeferredCancel, allVars
<1>5. UNCHANGED vars => crashes' = crashes
  BY DEF vars
<1> QED
  BY <1>1, <1>2, <1>3, <1>4, <1>5 DEF ShutdownNext

(* The added steps and the exit only take away. *)
LEMMA TakenAway ==
  ASSUME TInv, LogInv, KeyInv, MsgInv, OnceInv,
         wal' = wal, dead' = dead, settled \subseteq settled',
         \A q \in Queues : topic'[q] = topic[q] \/ topic'[q] = <<>>,
         \A q \in Queues : disp'[q] = disp[q] \/ disp'[q].pc \in {"off", "undo"},
         DOMAIN inFlight' \subseteq DOMAIN inFlight,
         \A id \in DOMAIN inFlight' : inFlight'[id] = inFlight[id],
         \A c \in Consumers : send'[c] = send[c] \/ send'[c] = <<>>,
         \A t \in Threads : work'[t] \subseteq work[t],
         \A id \in Ids : pub'[id] = pub[id] \/ (/\ pub[id] = "busy" /\ pub'[id] = "err"
                                                /\ work'[<<"publish", id>>] = {})
  PROVE  LogInv' /\ KeyInv' /\ MsgInv' /\ OnceInv'
<1>0. /\ \A id \in Ids : <<"publish", id>> \in Threads
      /\ DOMAIN <<>> = {}
      /\ \A q \in Queues : \A i \in DOMAIN topic'[q] : i \in DOMAIN topic[q] /\ topic'[q][i] = topic[q][i]
      /\ \A c \in Consumers : \A i \in DOMAIN send'[c] : i \in DOMAIN send[c] /\ send'[c][i] = send[c][i]
  BY SMT DEF Threads, Publishers
<1>1. LogInv'
  <2>1. PublishTasks'
    BY <1>0, SMT DEF LogInv, PublishTasks
  <2>2. TombstonesSettled'
    BY DEF LogInv, TombstonesSettled
  <2>3. PublishedInLog'
    BY <1>0, SMT DEF LogInv, PublishedInLog, OnRecord, InLog
  <2> QED
    BY <2>1, <2>2, <2>3 DEF LogInv
<1>2. KeyInv'
  BY SMT DEF KeyInv
<1>3. MsgInv'
  <2>1. \A m \in Message : Known(m) => Known(m)'
    BY DEF Known, Message
  <2>2. /\ \A q \in Queues : \A i \in DOMAIN topic[q] : topic[q][i] \in Message
        /\ \A q \in Queues : disp[q].pc \notin {"off", "dequeue", "undo"} => disp[q].msg \in Message
        /\ \A id \in DOMAIN inFlight : inFlight[id].msg \in Message
        /\ \A c \in Consumers : \A i \in DOMAIN send[c] : send[c][i] \in Message
        /\ \A t \in Threads : \A k \in work[t] : k.msg \in Message
        /\ \A q \in Queues : \A i \in DOMAIN wal[q] : wal[q][i].id \in Ids
    <3>1. \A q \in Queues : \A i \in DOMAIN topic[q] : topic[q][i] \in Message
      BY ElementOfSeq, LenProperties, SMTT(30) DEF TInv, TypeOK
    <3>2. \A c \in Consumers : \A i \in DOMAIN send[c] : send[c][i] \in Message
      BY ElementOfSeq, LenProperties, SMTT(30) DEF TInv, TypeOK
    <3>3. \A q \in Queues : \A i \in DOMAIN wal[q] : wal[q][i].id \in Ids
      <4>1. \A q \in Queues : \A i \in DOMAIN wal[q] : wal[q][i] \in WalRecord
        BY ElementOfSeq, LenProperties, SMTT(30) DEF TInv, TypeOK, WalRecord
      <4> QED
        BY <4>1 DEF WalRecord
    <3>4. \A q \in Queues : disp[q].pc \notin {"off", "dequeue", "undo"} => disp[q].msg \in Message
      BY SMT DEF TInv, TypeOK, Dispatcher
    <3>5. \A t \in Threads : \A k \in work[t] : k.msg \in Message
      BY SMT DEF TInv, TypeOK, Task
    <3>6. \A id \in DOMAIN inFlight : inFlight[id].msg \in Message
      BY DEF TInv, TypeOK
    <3> QED
      BY <3>1, <3>2, <3>3, <3>4, <3>5, <3>6
  <2>3. TopicKnown' /\ SendKnown'
    BY <1>0, <2>1, <2>2 DEF MsgInv, TopicKnown, SendKnown
  <2>4. DispKnown'
    BY <2>1, <2>2 DEF MsgInv, DispKnown
  <2>5. FlightKnown'
    BY <2>1, <2>2 DEF MsgInv, FlightKnown
  <2>6. WorkKnown'
    BY <2>1, <2>2, ZenonT(40) DEF MsgInv, WorkKnown
  <2>7. LogKnown'
    <3>1. \A id \in Ids : pub[id] # "new" => pub'[id] # "new"
      OBVIOUS
    <3> QED
      BY <2>2, <3>1, SMT DEF MsgInv, LogKnown
  <2>8. PublisherWaits'
    <3> SUFFICES ASSUME NEW id \in Ids, NEW k \in work'[<<"publish", id>>]
                 PROVE  /\ pub'[id] = "busy" /\ work'[<<"publish", id>>] = {k}
                        /\ k.msg.queue > 0 => id \in dead'
      BY DEF PublisherWaits
    <3>1. k \in work[<<"publish", id>>] /\ work'[<<"publish", id>>] \subseteq work[<<"publish", id>>]
      BY <1>0
    <3>2. pub[id] = "busy" /\ work[<<"publish", id>>] = {k} /\ (k.msg.queue > 0 => id \in dead')
      BY <3>1 DEF MsgInv, PublisherWaits
    <3>3. pub'[id] = pub[id]
      OBVIOUS
    <3> QED
      BY <3>1, <3>2, <3>3, SMTT(30)
  <2> QED
    BY <2>3, <2>4, <2>5, <2>6, <2>7, <2>8 DEF MsgInv
<1>4. OnceInv'
  <2>1. TopicOnce'
    BY <1>0, SMTT(30) DEF OnceInv, TopicOnce
  <2>2. WorkOnce'
    BY SMT DEF OnceInv, WorkOnce
  <2>3. \A q \in Queues : Holding(q)' => Holding(q) /\ disp'[q] = disp[q]
    BY DEF Holding
  <2>4. DispOnce'
    BY <2>3, SMTT(30) DEF OnceInv, DispOnce
  <2>5. \A id \in Ids : /\ InTopic(id)' => InTopic(id)
                        /\ AtDispatcher(id)' => AtDispatcher(id)
                        /\ InWork(id)' => InWork(id)
    BY <1>0, <2>3, SMT DEF InTopic, AtDispatcher, InWork, Holding
  <2>6. Apart'
    BY <2>5 DEF OnceInv, Apart
  <2> QED
    BY <2>1, <2>2, <2>4, <2>6, ZenonT(40) DEF OnceInv
<1> QED
  BY <1>1, <1>2, <1>3, <1>4, ZenonT(40)

(* The steps of the broker leave dispatchers that give a slot back alone. *)
LEMMA UndoUntouched ==
  ASSUME TInv, [Next]_vars, ~CrashRestart, NEW c \in Consumers
  PROVE  Undoing(c)' = Undoing(c)
<1>0. disp \in [Queues -> Dispatcher]
  BY DEF TInv, TypeOK
<1>1. ASSUME NEW t \in Threads, NEW k \in work[t], StepOrFail(t, k) PROVE disp' = disp
  BY <1>1, ZenonT(40) DEF StepOrFail, Step, EnqueueCheck, EnqueueWal, EnqueueRejected, EnqueueFails, EnqueueTopic,
     DecrementInFlight, WriteTombstone, WriteTombstoneFails
<1>2. ASSUME NEW q \in Queues, Dispatch(q)
      PROVE  /\ \A p \in Queues : p # q => disp'[p] = disp[p]
             /\ disp[q].pc # "undo" /\ disp'[q].pc # "undo"
  BY <1>0, <1>2, SMTT(30) DEF Dispatch, Dequeue, FindEligible, IncrementInFlight, Register, Send
<1>3. ASSUME NEW d \in Consumers, NEW p \in 0..(MaxDepth - 1), Subscribe(d, p)
      PROVE  \A q \in Queues : disp'[q] = disp[q] \/ (disp[q].pc = "off" /\ disp'[q].pc = "dequeue")
  BY <1>0, <1>3 DEF Subscribe
<1>4. ASSUME NEW d \in Consumers,
             \/ Forward(d) \/ ForwardFails(d) \/ SenderStops(d) \/ Deregister(d) \/ Drain(d) \/ Drained(d)
             \/ \E id \in Ids : Ack(d, id) \/ Nack(d, id)
      PROVE  disp' = disp
  BY <1>4 DEF Forward, ForwardFails, SenderStops, Deregister, Drain, Drained, Ack, Nack, Answered
<1>5. ASSUME \/ \E id \in Ids, q \in Queues : Publish(id, q)
             \/ \E q \in Queues : Compact(q)
             \/ TimeoutScan \/ DlqScan \/ BeginShutdown \/ UNCHANGED vars
      PROVE  disp' = disp
  BY <1>5, ZenonT(40) DEF Publish, Compact, TimeoutScan, DlqScan, ScanAndTimeout, ExpireDLQPending,
     ExpireDLQInFlight, BeginShutdown, vars
<1>6. \A q \in Queues : disp'[q] = disp[q] \/ (disp[q].pc # "undo" /\ disp'[q].pc # "undo")
  BY <1>1, <1>2, <1>3, <1>4, <1>5 DEF Next, StepOrFail
<1> QED
  BY <1>6 DEF Undoing

(* What dispatchers give back is a number. *)
LEMMA UndoNumbers == \A c : IsFiniteSet(Undoing(c)) /\ Cardinality(Undoing(c)) \in Nat
<1> SUFFICES ASSUME NEW c PROVE IsFiniteSet(Undoing(c)) /\ Cardinality(Undoing(c)) \in Nat
  OBVIOUS
<1>1. Undoing(c) \in SUBSET Queues
  BY DEF Undoing
<1> QED
  BY <1>1, FinitelyManyQueues, FS_Subset, FS_CardinalityType

(* A step of the broker in a process that is shutting down. *)
LEMMA BrokerKeeps ==
  ASSUME CloseInv, [Next]_vars, crashes' = crashes
  PROVE  CloseInv'
<1> USE DEF CloseInv
<1>1. ~CrashRestart
  <2>1. crashes \in Nat
    BY SMT DEF TInv, TypeOK
  <2> QED
    BY <2>1, SMT DEF CrashRestart
<1>2. PublishTasks /\ EligInv
  BY DEF LogInv, PInv
<1>3. TInv' /\ PInv' /\ LogInv' /\ KeyInv' /\ MsgInv' /\ OnceInv'
  BY <1>1, <1>2, TypeStep, PrefetchStep, LogStep, KeyStep, MsgStep, OnceStep
<1>4. SlotInv'
  BY <1>2, SlotStep
<1>5. UndoInv'
  <2> SUFFICES ASSUME NEW c \in Consumers
               PROVE  /\ status'[c] = "new" => Undoing(c)' = {}
                      /\ Registered(c)' => Spare(c)' = Cardinality(Undoing(c)')
    BY DEF UndoInv
  <2>1. Undoing(c)' = Undoing(c)
    BY <1>1, UndoUntouched
  <2>2. status'[c] = "new" => status[c] = "new"
    BY StatusMoves
  <2>3. ASSUME Registered(c)' PROVE Spare(c)' = Cardinality(Undoing(c))
    <3>1. CASE status[c] = "new" /\ Spare(c)' = 0
      BY <3>1, FS_EmptySet DEF UndoInv
    <3>2. CASE Registered(c) /\ SlotsKept(c)
      BY <3>2 DEF UndoInv, SlotsKept
    <3> QED
      BY <1>2, <2>3, <3>1, <3>2, SlotStep
  <2> QED
    BY <2>1, <2>2, <2>3 DEF UndoInv
<1> QED
  BY <1>3, <1>4, <1>5
-----------------------------------------------------------------------------
(* A goroutine gives up on a write to a closed log. *)
LEMMA ClosedLogKeeps ==
  ASSUME CloseInv, NEW t \in Threads, NEW k \in work[t], EnqueueClosed(t, k) \/ TombstoneClosed(t, k)
  PROVE  CloseInv'
<1> USE DEF CloseInv
<1>1. /\ wal' = wal /\ topic' = topic /\ disp' = disp /\ inFlight' = inFlight /\ send' = send /\ dead' = dead
      /\ status' = status /\ sub' = sub /\ count' = count /\ acked' = acked /\ closing' = closing
      /\ seen' = seen /\ crashes' = crashes /\ faults' = faults
      /\ work' = [work EXCEPT ![t] = @ \ {k}] /\ k.step \in {"wal", "tomb"}
  BY DEF EnqueueClosed, TombstoneClosed, consumerVars
<1>2. work \in [Threads -> SUBSET Task] /\ k.msg.id \in Ids /\ pub \in [Ids -> {"new", "busy", "ok", "err"}]
  BY SMT DEF TInv, TypeOK, Task, Message
<1>3. /\ settled \subseteq settled' /\ settled' \subseteq Ids /\ lost' \subseteq Ids
      /\ pub' = pub \/ (t \in Publishers /\ pub' = [pub EXCEPT ![k.msg.id] = "err"])
  BY <1>2 DEF EnqueueClosed, TombstoneClosed, Answer, TInv, TypeOK
<1>4. /\ \A u \in Threads : work'[u] \subseteq work[u] /\ (u # t => work'[u] = work[u])
      /\ work'[t] = work[t] \ {k}
  BY <1>1, <1>2
<1>5. TInv'
  <2>1. work' \in [Threads -> SUBSET Task] /\ pub' \in [Ids -> {"new", "busy", "ok", "err"}]
    BY <1>1, <1>2, <1>3
  <2>2. TypeOK'
    BY <1>1, <1>3, <2>1 DEF TInv, TypeOK
  <2> QED
    BY <1>1, <1>4, <2>2 DEF TInv, DepthInv
<1>6. ASSUME t \in Publishers PROVE t = <<"publish", k.msg.id>> /\ pub[k.msg.id] = "busy" /\ work[t] = {k}
  <2>1. PICK id \in Ids : t = <<"publish", id>>
    BY <1>6, SMTT(30) DEF Publishers
  <2>2. k.msg.id = id
    BY <2>1 DEF LogInv, PublishTasks
  <2> QED
    BY <2>1, <2>2 DEF MsgInv, PublisherWaits
<1>7. \A id \in Ids : pub'[id] = pub[id] \/ (/\ pub[id] = "busy" /\ pub'[id] = "err"
                                             /\ work'[<<"publish", id>>] = {})
  BY <1>2, <1>3, <1>4, <1>6, ZenonT(40)
<1>8. LogInv' /\ KeyInv' /\ MsgInv' /\ OnceInv'
  BY <1>1, <1>3, <1>4, <1>7, TakenAway
<1>9. PInv'
  BY <1>1 DEF PInv, EligInv, PrefetchRespected
<1>10. \A c \in Consumers : /\ Entries(c)' = Entries(c) /\ Counting(c)' = Counting(c)
                            /\ Owed(c)' = Owed(c) /\ Undoing(c)' = Undoing(c)
  <2> SUFFICES ASSUME NEW c \in Consumers PROVE Owed(c)' = Owed(c)
    BY <1>1 DEF Entries, Counting, Undoing
  <2>1. \A u \in Threads : \A j : j.step = "dec" => (j \in work'[u] <=> j \in work[u])
    BY <1>1, <1>4
  <2> QED
    BY <2>1, OwedUntouched
<1>11. SlotInv' /\ UndoInv'
  BY <1>1, <1>10 DEF SlotInv, UndoInv, Spare, Registered
<1> QED
  BY <1>5, <1>8, <1>9, <1>11

(* What the steps of a dispatcher that stops have in common. *)
LEMMA StopKeeps ==
  ASSUME CloseInv, NEW q \in Queues,
         DispatcherStops(q) \/ Unregister(q) \/ UndoInFlight(q)
  PROVE  /\ TInv' /\ PInv' /\ LogInv' /\ KeyInv' /\ MsgInv' /\ OnceInv'
         /\ status' = status /\ work' = work
         /\ disp[q].pc # "register"
         /\ disp'[q].pc \in {"off", "undo"} /\ \A p \in Queues : p # q => disp'[p] = disp[p]
<1> USE DEF CloseInv
<1>0. /\ disp \in [Queues -> Dispatcher] /\ count \in [Consumers -> Int]
      /\ inFlight \in [DOMAIN inFlight -> [msg : Message, con : Consumers]]
  BY DEF TInv, TypeOK
<1>1. /\ wal' = wal /\ topic' = topic /\ send' = send /\ dead' = dead /\ settled' = settled
      /\ status' = status /\ sub' = sub /\ acked' = acked /\ closing' = closing /\ work' = work /\ pub' = pub
      /\ seen' = seen /\ lost' = lost /\ crashes' = crashes /\ faults' = faults
  BY DEF DispatcherStops, Unregister, UndoInFlight, consumerVars
<1>2. /\ DOMAIN inFlight' \subseteq DOMAIN inFlight
      /\ \A id \in DOMAIN inFlight' : inFlight'[id] = inFlight[id]
      /\ inFlight' = [i \in DOMAIN inFlight' |-> inFlight'[i]]
  BY <1>0 DEF DispatcherStops, Unregister, UndoInFlight
<1>3. disp[q].pc = "undo" => disp[q].con \in Consumers
  BY <1>0 DEF Dispatcher
<1>4. count' \in [Consumers -> Int] /\ \A c \in Consumers : count'[c] <= count[c]
  <2>1. CASE count' = count
    BY <1>0, <2>1, SMTT(30)
  <2>2. CASE disp[q].pc = "undo" /\ count' = [count EXCEPT ![disp[q].con] = @ - 1]
    BY <1>0, <1>3, <2>2, SMTT(30)
  <2> QED
    BY <2>1, <2>2 DEF DispatcherStops, Unregister, UndoInFlight, consumerVars
<1>5. PICK d \in [pc : {"off"}] \cup [pc : {"undo"}, con : Consumers] : disp' = [disp EXCEPT ![q] = d]
  <2>1. [pc |-> "off"] \in [pc : {"off"}]
    OBVIOUS
  <2>2. CASE Unregister(q) /\ disp[q].msg.id \in DOMAIN inFlight
    <3>1. inFlight[disp[q].msg.id].con \in Consumers
      BY <1>0, <2>2
    <3> QED
      BY <2>2, <3>1 DEF Unregister
  <2>3. CASE disp' = Off(q)
    BY <2>1, <2>3 DEF Off
  <2> QED
    BY <2>2, <2>3 DEF DispatcherStops, Unregister, UndoInFlight
<1>6. /\ disp'[q] = d /\ \A p \in Queues : p # q => disp'[p] = disp[p]
      /\ disp'[q].pc \in {"off", "undo"} /\ d \in Dispatcher
  BY <1>0, <1>5 DEF Dispatcher
<1>7. disp' \in [Queues -> Dispatcher]
  BY <1>0, <1>5, <1>6
<1>8. disp[q].pc \notin {"off", "register"}
  BY DEF DispatcherStops, Unregister, UndoInFlight
<1>9. TInv'
  <2>1. TypeOK'
    <3>1. /\ DOMAIN inFlight' \subseteq Ids
          /\ inFlight' \in [DOMAIN inFlight' -> [msg : Message, con : Consumers]]
      BY <1>0, <1>2 DEF TInv, TypeOK
    <3> QED
      BY <1>1, <1>4, <1>7, <3>1 DEF TInv, TypeOK
  <2>2. disp'[MaxDepth].pc = "off"
    <3>1. q # MaxDepth /\ MaxDepth \in Queues
      BY <1>8, BrokerConstants, SMTT(30) DEF TInv, DepthInv, Queues
    <3> QED
      BY <1>6, <3>1, ZenonT(40) DEF TInv, DepthInv
  <2> QED
    BY <1>1, <1>2, <1>6, <2>1, <2>2 DEF TInv, DepthInv
<1>10. PInv'
  <2>1. EligInv'
    <3> SUFFICES ASSUME NEW p \in Queues, disp'[p].pc = "pick", NEW c \in disp'[p].elig
                 PROVE  sub'[c] = p /\ status'[c] # "new" /\ count'[c] < PrefetchLimit(c)
      BY DEF EligInv
    <3>1. disp'[p] = disp[p]
      BY <1>6
    <3>2. c \in Consumers
      BY <1>0, <3>1 DEF Dispatcher
    <3>3. sub[c] = p /\ status[c] # "new" /\ count[c] < PrefetchLimit(c)
      BY <3>1 DEF PInv, EligInv
    <3>4. count'[c] \in Int /\ count[c] \in Int /\ count'[c] <= count[c] /\ PrefetchLimit(c) \in Int
      BY <1>0, <1>4, <3>2, LimitPositive, SMTT(30)
    <3> QED
      BY <1>1, <3>3, <3>4, SMTT(30)
  <2>2. PrefetchRespected'
    <3> SUFFICES ASSUME NEW c \in Consumers PROVE count'[c] <= PrefetchLimit(c)
      BY DEF PrefetchRespected
    <3>1. count'[c] \in Int /\ count[c] \in Int /\ count'[c] <= count[c] /\ PrefetchLimit(c) \in Int
      BY <1>0, <1>4, LimitPositive, SMTT(30)
    <3> QED
      BY <3>1, SMT DEF PInv, PrefetchRespected
  <2> QED
    BY <2>1, <2>2 DEF PInv
<1>11. LogInv' /\ KeyInv' /\ MsgInv' /\ OnceInv'
  BY <1>1, <1>2, <1>6, TakenAway
<1> QED
  BY <1>1, <1>6, <1>8, <1>9, <1>10, <1>11

(* What leaves the slots of the other consumers alone, and moves one slot of d. *)
LEMMA StopSlots ==
  ASSUME CloseInv, NEW q \in Queues,
         DispatcherStops(q) \/ Unregister(q) \/ UndoInFlight(q)
  PROVE  SlotInv' /\ UndoInv'
<1> USE DEF CloseInv
<1>0. /\ disp \in [Queues -> Dispatcher] /\ count \in [Consumers -> Int]
      /\ inFlight \in [DOMAIN inFlight -> [msg : Message, con : Consumers]]
  BY DEF TInv, TypeOK
<1>1. /\ status' = status /\ work' = work
      /\ disp[q].pc # "register"
      /\ disp'[q].pc \in {"off", "undo"} /\ \A p \in Queues : p # q => disp'[p] = disp[p]
  BY StopKeeps
<1>2. \A c \in Consumers : Owed(c)' = Owed(c) /\ Counting(c)' = Counting(c)
  BY <1>1, SMTT(30) DEF Owed, Counting
<1>3. \A c \in Consumers : /\ IsFiniteSet(Entries(c)) /\ IsFiniteSet(Owed(c)) /\ IsFiniteSet(Undoing(c))
                           /\ count[c] \in Int /\ Cardinality(Entries(c)) \in Nat
                           /\ Cardinality(Owed(c)) \in Nat /\ Cardinality(Counting(c)) \in Nat
                           /\ Cardinality(Undoing(c)) \in Nat
  BY SlotNumbers, UndoNumbers DEF SlotInv
<1>4. SUFFICES ASSUME NEW c \in Consumers
               PROVE  /\ IsFiniteSet(Entries(c)')
                      /\ status[c] = "new" => count'[c] = 0 /\ Entries(c)' = {} /\ Undoing(c)' = {}
                      /\ Registered(c) => Spare(c)' = Cardinality(Undoing(c)')
  BY <1>1, <1>2, <1>3 DEF SlotInv, UndoInv, Registered
<1>5. ASSUME count'[c] = count[c], Entries(c)' = Entries(c), Undoing(c)' = Undoing(c)
      PROVE  /\ IsFiniteSet(Entries(c)')
             /\ status[c] = "new" => count'[c] = 0 /\ Entries(c)' = {} /\ Undoing(c)' = {}
             /\ Registered(c) => Spare(c)' = Cardinality(Undoing(c)')
  BY <1>2, <1>3, <1>5 DEF SlotInv, UndoInv, Spare
<1>6. CASE \/ DispatcherStops(q)
           \/ Unregister(q) /\ disp[q].msg.id \notin DOMAIN inFlight
  <2>1. /\ count' = count /\ disp'[q].pc = "off" /\ disp[q].pc # "undo"
        /\ DOMAIN inFlight' = DOMAIN inFlight /\ \A id \in DOMAIN inFlight : inFlight'[id] = inFlight[id]
    BY <1>0, <1>6, SMTT(30) DEF DispatcherStops, Unregister, Off, consumerVars
  <2>2. Entries(c)' = Entries(c) /\ Undoing(c)' = Undoing(c)
    BY <1>1, <2>1 DEF Entries, Undoing
  <2> QED
    BY <1>5, <2>1, <2>2
<1>7. CASE Unregister(q) /\ disp[q].msg.id \in DOMAIN inFlight
  <2> DEFINE id == disp[q].msg.id
             d == inFlight[id].con
  <2>1. /\ count' = count /\ disp[q].pc = "send"
        /\ disp'[q].pc = "undo" /\ disp'[q].con = d
        /\ DOMAIN inFlight' = DOMAIN inFlight \ {id} /\ \A i \in DOMAIN inFlight' : inFlight'[i] = inFlight[i]
    BY <1>0, <1>7 DEF Unregister, consumerVars
  <2>2. CASE c # d
    <3>1. Entries(c)' = Entries(c)
      BY <2>1, <2>2 DEF Entries
    <3>2. Undoing(c)' = Undoing(c)
      BY <1>1, <2>1, <2>2 DEF Undoing
    <3> QED
      BY <1>5, <2>1, <3>1, <3>2, ZenonT(40)
  <2>3. CASE c = d
    <3>1. Entries(c)' = Entries(c) \ {id} /\ id \in Entries(c)
      BY <1>7, <2>1, <2>3 DEF Entries
    <3>2. Undoing(c)' = Undoing(c) \cup {q} /\ q \notin Undoing(c)
      BY <1>1, <2>1, <2>3 DEF Undoing
    <3> HIDE DEF id, d
    <3>3. IsFiniteSet(Entries(c)') /\ Cardinality(Entries(c)') = Cardinality(Entries(c)) - 1
      BY <1>3, <3>1, FS_RemoveElement, SMTT(30)
    <3>4. Cardinality(Undoing(c)') = Cardinality(Undoing(c)) + 1
      BY <1>3, <3>2, FS_AddElement, ZenonT(40)
    <3>5. status[c] # "new"
      BY <3>1, ZenonT(40) DEF SlotInv
    <3>6. Registered(c) => Spare(c)' = Spare(c) + 1
      BY <1>2, <1>3, <2>1, <3>3, SMTT(30) DEF Spare
    <3> QED
      BY <3>3, <3>4, <3>5, <3>6 DEF UndoInv
  <2> QED
    BY <2>2, <2>3
<1>8. CASE UndoInFlight(q)
  <2> DEFINE d == disp[q].con
  <2>1. /\ inFlight' = inFlight /\ disp[q].pc = "undo" /\ disp'[q].pc = "off" /\ d \in Consumers
        /\ \A e \in Consumers : e # d \/ ~Registered(e) => count'[e] = count[e]
        /\ Registered(d) => count'[d] = count[d] - 1
    BY <1>0, <1>8 DEF UndoInFlight, Off, Dispatcher
  <2>2. Entries(c)' = Entries(c)
    BY <2>1 DEF Entries
  <2>3. CASE c # d
    <3>1. Undoing(c)' = Undoing(c)
      BY <1>1, <2>1, <2>3 DEF Undoing
    <3> QED
      BY <1>5, <2>1, <2>2, <2>3, <3>1
  <2>4. CASE c = d
    <3>1. Undoing(c)' = Undoing(c) \ {q} /\ q \in Undoing(c)
      BY <1>1, <2>1, <2>4 DEF Undoing
    <3>2. Cardinality(Undoing(c)') = Cardinality(Undoing(c)) - 1
      BY <1>3, <3>1, FS_RemoveElement
    <3>3. status[c] # "new"
      BY <3>1, ZenonT(40) DEF UndoInv
    <3>4. Registered(c) => Spare(c)' = Spare(c) - 1
      BY <1>2, <1>3, <2>1, <2>2, <2>4, SMTT(30) DEF Spare
    <3> QED
      BY <1>3, <2>2, <3>2, <3>3, <3>4, ZenonT(40) DEF UndoInv
  <2> QED
    BY <2>3, <2>4
<1> QED
  BY <1>6, <1>7, <1>8, ZenonT(40)

(* The end of the process leaves the files and nothing else. *)
LEMMA ExitKeeps ==
  ASSUME CloseInv, Exit
  PROVE  CloseInv'
<1> USE DEF CloseInv
<1>1. /\ \A q \in Queues : topic'[q] = <<>> /\ disp'[q].pc = "off"
      /\ DOMAIN inFlight' = {} /\ \A c \in Consumers : send'[c] = <<>> /\ status'[c] = "gone"
      /\ \A t \in Threads : work'[t] = {}
      /\ wal' = wal /\ dead' = dead /\ settled' = settled /\ count' = count /\ sub' = sub
  BY DEF Exit
<1>2. \A id \in Ids : <<"publish", id>> \in Threads
  BY DEF Threads, Publishers
<1>3. \A id \in Ids : pub'[id] = pub[id] \/ (/\ pub[id] = "busy" /\ pub'[id] = "err"
                                             /\ work'[<<"publish", id>>] = {})
  BY <1>1, <1>2, ZenonT(40) DEF Exit
<1>4. LogInv' /\ KeyInv' /\ MsgInv' /\ OnceInv'
  BY <1>1, <1>3, TakenAway
<1>5. TInv'
  <2>1. /\ <<>> \in Seq(Message) /\ [pc |-> "off"] \in Dispatcher /\ DOMAIN <<>> = {}
        /\ MaxDepth \in Queues
    BY EmptySeq, BrokerConstants, SMTT(30) DEF Dispatcher, Queues
  <2>2. /\ topic' \in [Queues -> Seq(Message)] /\ disp' \in [Queues -> Dispatcher]
        /\ send' \in [Consumers -> Seq(Message)]
    BY <2>1 DEF Exit
  <2>3. /\ inFlight' \in [DOMAIN inFlight' -> [msg : Message, con : Consumers]] /\ DOMAIN inFlight' \subseteq Ids
        /\ status' \in [Consumers -> {"new", "up", "halted", "closing", "draining", "ended", "gone"}]
        /\ work' \in [Threads -> SUBSET Task]
    BY DEF Exit
  <2>4. pub' \in [Ids -> {"new", "busy", "ok", "err"}]
    BY DEF Exit, TInv, TypeOK
  <2>5. TypeOK'
    BY <2>2, <2>3, <2>4 DEF Exit, TInv, TypeOK
  <2> QED
    BY <1>1, <2>1, <2>5, ZenonT(40) DEF TInv, DepthInv
<1>6. PInv'
  BY <1>1 DEF PInv, EligInv, PrefetchRespected
<1>7. \A c \in Consumers : Entries(c)' = {} /\ Owed(c)' = {}
  BY <1>1, SMT DEF Entries, Owed
<1>8. SlotInv' /\ UndoInv'
  BY <1>1, <1>7, FS_EmptySet DEF SlotInv, UndoInv, Registered
<1> QED
  BY <1>4, <1>5, <1>6, <1>8, ZenonT(40)

(* The inductive invariant of a process that shuts down. *)
LEMMA CloseInvariant == ShutdownSpec => []CloseInv
<1>1. ShutdownInit => CloseInv
  <2> SUFFICES ASSUME Init PROVE CloseInv
    BY DEF ShutdownInit
  <2>1. TInv /\ PInv /\ LogInv /\ KeyInv /\ MsgInv /\ OnceInv /\ SlotInv /\ SpareInv
    BY TypeInit, PrefetchInit, LogInit, KnownInit, OnceInit, SlotInit
  <2>2. \A c \in Consumers : Undoing(c) = {} /\ status[c] = "new"
    BY DEF Init, Undoing
  <2> QED
    BY <2>1, <2>2 DEF CloseInv, UndoInv, Registered
<1>2. CloseInv /\ [ShutdownNext]_allVars => CloseInv'
  <2> SUFFICES ASSUME CloseInv, [ShutdownNext]_allVars PROVE CloseInv'
    OBVIOUS
  <2>1. CASE [Next]_vars /\ crashes' = crashes
    BY <2>1, BrokerKeeps
  <2>2. CASE ClosingStep
    <3>1. ASSUME NEW q \in Queues, DispatcherStops(q) \/ Unregister(q) \/ UndoInFlight(q) PROVE CloseInv'
      BY <3>1, StopKeeps, StopSlots DEF CloseInv
    <3> QED
      BY <2>2, <3>1, ClosedLogKeeps DEF ClosingStep
  <2> QED
    BY <2>1, <2>2, ExitKeeps, ShutdownCases
<1> QED
  BY <1>1, <1>2, PTL DEF ShutdownSpec

(***************************************************************************)
(* At every moment of a shutdown, whichever goroutines still run when the  *)
(* logs are closed, what was accepted and is not settled is in what the    *)
(* next process replays.                                                   *)
(***************************************************************************)
THEOREM RestartRedelivers == ShutdownSpec => []RedeliveredOnRestart
<1>1. CloseInv => RedeliveredOnRestart
  <2> SUFFICES ASSUME CloseInv, NEW id \in Ids, pub[id] = "ok", id \notin settled
               PROVE  \E q \in Queues : \E k \in DOMAIN Replay(wal[q]) : Replay(wal[q])[k].id = id
    BY DEF RedeliveredOnRestart
  <2>1. TInv /\ TombstonesSettled /\ PublishedInLog
    BY DEF CloseInv, LogInv
  <2>2. PICK q \in Queues : InLog(wal[q], id)
    BY <2>1 DEF PublishedInLog, OnRecord
  <2>3. InLog(Replay(wal[q]), id)
    BY <2>1, <2>2, ReplayKeeps
  <2> QED
    BY <2>3 DEF InLog
<1> QED
  BY <1>1, CloseInvariant, PTL

(***************************************************************************)
(* Through a shutdown the counter of a registered consumer is the number   *)
(* of its slots in use and of those that dispatchers are giving back.      *)
(***************************************************************************)
THEOREM SlotsUntilExit == ShutdownSpec => []SlotsThroughShutdown
<1>1. CloseInv => SlotsThroughShutdown
  BY SlotsAdded, UndoNumbers, SMT DEF CloseInv, UndoInv, SlotsThroughShutdown, UndoneBy, Undoing
<1> QED
  BY <1>1, CloseInvariant, PTL
=============================================================================
