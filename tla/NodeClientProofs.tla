-------------------------- MODULE NodeClientProofs --------------------------
(***************************************************************************)
(* What /status lists is what runs, for any ids that requests give and any *)
(* bounds.                                                                 *)
(***************************************************************************)
EXTENDS NodeClient, SequenceTheorems, TLAPS

Stream == [id : Nat, state : {"open", "cancelled", "ended"}, received : Nat, acked : Nat]

StreamsType ==
  /\ consumerSeq \in Nat
  /\ streams \in Seq(Stream)
  /\ DOMAIN consumers \subseteq Nat
  /\ consumers \in [DOMAIN consumers -> DOMAIN streams]

ClientInv == StreamsType /\ ListedIsRunning /\ UnlistedOnlyByReuse
-----------------------------------------------------------------------------
(* The new stream of StartConsumer comes last; the others stay as they are. *)
LEMMA StreamAppended ==
  ASSUME NEW w \in Seq(Stream), NEW x \in Stream
  PROVE  /\ Append(w, x) \in Seq(Stream) /\ Len(w) \in Nat
         /\ DOMAIN w = 1..Len(w) /\ DOMAIN Append(w, x) = 1..(Len(w) + 1)
         /\ Append(w, x)[Len(w) + 1] = x
         /\ \A i \in DOMAIN w : Append(w, x)[i] = w[i]
BY AppendProperties, LenProperties

(* A consumer is started: under a name not in use, the empty one or a generated one. *)
LEMMA StartInv ==
  ASSUME ClientInv, NEW id \in Nat, StartConsumer(id), consumerSeq' \in Nat
  PROVE  ClientInv'
<1> DEFINE new == [id |-> id, state |-> "open", received |-> 0, acked |-> 0]
           n == Len(streams) + 1
<1>1. new \in Stream /\ new.id = id /\ new.state = "open"
  BY DEF Stream
<1> HIDE DEF new
<1>2. streams \in Seq(Stream) /\ streams' = Append(streams, new)
  BY DEF ClientInv, StreamsType, StartConsumer, new
<1>3. /\ streams' \in Seq(Stream) /\ Len(streams) \in Nat
      /\ DOMAIN streams = 1..Len(streams) /\ DOMAIN streams' = 1..n
      /\ streams'[n] = new
      /\ \A s \in DOMAIN streams : streams'[s] = streams[s]
  BY <1>1, <1>2, StreamAppended
<1>4. /\ DOMAIN consumers' = DOMAIN consumers \cup {id}
      /\ consumers'[id] = n
      /\ \A i \in DOMAIN consumers \ {id} : consumers'[i] = consumers[i]
      /\ consumers' \in [DOMAIN consumers' -> DOMAIN streams']
  <2>1. consumers' = [i \in DOMAIN consumers \cup {id} |-> IF i = id THEN n ELSE consumers[i]]
    BY DEF StartConsumer
  <2>2. \A i \in DOMAIN consumers : consumers[i] \in DOMAIN streams
    BY DEF ClientInv, StreamsType
  <2> QED
    BY <1>3, <2>1, <2>2
<1>5. \A i \in DOMAIN consumers : /\ consumers[i] \in DOMAIN streams
                                  /\ streams[consumers[i]].id = i /\ streams[consumers[i]].state = "open"
  BY DEF ClientInv, StreamsType, ListedIsRunning
<1> HIDE DEF n
<1>6. StreamsType'
  BY <1>3, <1>4 DEF ClientInv, StreamsType
<1>7. ListedIsRunning'
  BY <1>1, <1>3, <1>4, <1>5 DEF ListedIsRunning
<1>8. n \in DOMAIN streams' /\ n \notin DOMAIN streams /\ DOMAIN streams' = DOMAIN streams \cup {n}
  BY <1>3 DEF n
<1>9. UnlistedOnlyByReuse'
  <2> SUFFICES ASSUME NEW s \in DOMAIN streams', streams'[s].state = "open"
               PROVE  (\E i \in DOMAIN consumers' : consumers'[i] = s)
                        \/ \E r \in DOMAIN streams' \ {s} : streams'[r].id = streams'[s].id
    BY DEF UnlistedOnlyByReuse, Listed
  <2>1. CASE s = n
    BY <1>4, <2>1
  <2>2. CASE s # n /\ \E r \in DOMAIN streams \ {s} : streams[r].id = streams[s].id
    BY <1>3, <1>8, <2>2
  <2>3. CASE s # n /\ \E i \in DOMAIN consumers : consumers[i] = s
    <3>1. PICK i \in DOMAIN consumers : consumers[i] = s
      BY <2>3
    <3>2. CASE i = id
      <4>1. streams'[n].id = streams'[s].id
        BY <1>1, <1>3, <1>5, <1>8, <2>3, <3>1, <3>2
      <4> QED
        BY <1>8, <2>3, <4>1
    <3>3. CASE i # id
      BY <1>4, <3>1, <3>3
    <3> QED
      BY <3>2, <3>3
  <2>4. s # n => s \in DOMAIN streams /\ streams[s].state = "open"
    BY <1>3, <1>8
  <2> QED
    BY <2>1, <2>2, <2>3, <2>4 DEF ClientInv, UnlistedOnlyByReuse, Listed
<1> QED
  BY <1>6, <1>7, <1>9 DEF ClientInv

(* The counters of a stream are not its state. *)
LEMMA CountInv ==
  ASSUME ClientInv, NEW s \in DOMAIN streams, Data(s) \/ AckTimer(s)
  PROVE  ClientInv'
<1>1. /\ streams \in Seq(Stream) /\ DOMAIN streams = 1..Len(streams) /\ Len(streams) \in Nat
      /\ \A r \in DOMAIN streams : streams[r] \in Stream
  BY LenProperties, ElementOfSeq DEF ClientInv, StreamsType
<1>2. PICK x \in Stream : /\ streams' = [streams EXCEPT ![s] = x]
                          /\ x.id = streams[s].id /\ x.state = streams[s].state
  <2>1. CASE Data(s)
    <3> DEFINE n == streams[s].received + 1
               x == [streams[s] EXCEPT !.received = n]
    <3>0. n \in Nat
      BY <1>1 DEF Stream
    <3> HIDE DEF n
    <3>1. x \in Stream /\ x.id = streams[s].id /\ x.state = streams[s].state
      BY <1>1, <3>0 DEF Stream
    <3>2. streams' = [streams EXCEPT ![s] = x]
      BY <2>1 DEF Data, n
    <3> QED
      BY <3>1, <3>2
  <2>2. CASE AckTimer(s)
    <3> DEFINE n == streams[s].acked + 1
               x == [streams[s] EXCEPT !.acked = n]
    <3>0. n \in Nat
      BY <1>1 DEF Stream
    <3> HIDE DEF n
    <3>1. x \in Stream /\ x.id = streams[s].id /\ x.state = streams[s].state
      BY <1>1, <3>0 DEF Stream
    <3>2. streams' = [streams EXCEPT ![s] = x]
      BY <2>2 DEF AckTimer, n
    <3> QED
      BY <3>1, <3>2
  <2> QED
    BY <2>1, <2>2
<1>3. streams' \in Seq(Stream) /\ DOMAIN streams' = DOMAIN streams
  BY <1>1, <1>2, ExceptSeq
<1>4. \A r \in DOMAIN streams : streams'[r].id = streams[r].id /\ streams'[r].state = streams[r].state
  BY <1>1, <1>2
<1>5. UNCHANGED <<consumers, consumerSeq>>
  BY DEF Data, AckTimer
<1>6. \A i \in DOMAIN consumers : consumers[i] \in DOMAIN streams
  BY DEF ClientInv, StreamsType
<1>7. StreamsType' /\ ListedIsRunning'
  BY <1>3, <1>4, <1>5, <1>6 DEF ClientInv, StreamsType, ListedIsRunning
<1>8. UnlistedOnlyByReuse'
  BY <1>3, <1>4, <1>5 DEF ClientInv, UnlistedOnlyByReuse, Listed
<1> QED
  BY <1>7, <1>8 DEF ClientInv

(* The end of a stream takes the entry of its id from the map: that of a later *)
(* stream, if the id was used again.                                           *)
LEMMA EndInv ==
  ASSUME ClientInv, NEW s \in DOMAIN streams, End(s)
  PROVE  ClientInv'
<1>1. /\ streams \in Seq(Stream) /\ DOMAIN streams = 1..Len(streams) /\ Len(streams) \in Nat
      /\ \A r \in DOMAIN streams : streams[r] \in Stream
  BY LenProperties, ElementOfSeq DEF ClientInv, StreamsType
<1> DEFINE x == [streams[s] EXCEPT !.state = "ended"]
<1>2. /\ x \in Stream /\ x.id = streams[s].id /\ x.state = "ended"
      /\ streams' = [streams EXCEPT ![s] = x]
  BY <1>1 DEF Stream, End
<1> HIDE DEF x
<1>3. streams' \in Seq(Stream) /\ DOMAIN streams' = DOMAIN streams
  BY <1>1, <1>2, ExceptSeq
<1>4. /\ \A r \in DOMAIN streams : streams'[r].id = streams[r].id
      /\ \A r \in DOMAIN streams \ {s} : streams'[r].state = streams[r].state
      /\ streams'[s].state = "ended"
  BY <1>1, <1>2
<1>5. /\ DOMAIN consumers' = DOMAIN consumers \ {streams[s].id}
      /\ \A i \in DOMAIN consumers' : consumers'[i] = consumers[i]
      /\ consumers' \in [DOMAIN consumers' -> DOMAIN streams]
  BY DEF End, Restrict, ClientInv, StreamsType
<1>6. \A i \in DOMAIN consumers : /\ consumers[i] \in DOMAIN streams
                                  /\ streams[consumers[i]].id = i /\ streams[consumers[i]].state = "open"
  BY DEF ClientInv, StreamsType, ListedIsRunning
<1>7. StreamsType'
  BY <1>3, <1>5 DEF ClientInv, StreamsType, End
<1>8. ListedIsRunning'
  BY <1>4, <1>5, <1>6 DEF ListedIsRunning
<1>9. UnlistedOnlyByReuse'
  <2> SUFFICES ASSUME NEW r \in DOMAIN streams, streams'[r].state = "open"
               PROVE  (\E i \in DOMAIN consumers' : consumers'[i] = r)
                        \/ \E u \in DOMAIN streams \ {r} : streams'[u].id = streams'[r].id
    BY <1>3 DEF UnlistedOnlyByReuse, Listed
  <2>1. r # s /\ streams[r].state = "open"
    BY <1>4
  <2>2. CASE \E u \in DOMAIN streams \ {r} : streams[u].id = streams[r].id
    BY <1>4, <2>2
  <2>3. CASE \E i \in DOMAIN consumers : consumers[i] = r
    BY <1>4, <1>5, <1>6, <2>1, <2>3
  <2> QED
    BY <2>1, <2>2, <2>3 DEF ClientInv, UnlistedOnlyByReuse, Listed
<1> QED
  BY <1>7, <1>8, <1>9 DEF ClientInv

(* Stopping cancels the streams of the entries that go, and no other. *)
LEMMA StopInv ==
  ASSUME ClientInv, NEW S \in SUBSET DOMAIN consumers, StopConsumers(S), UNCHANGED consumerSeq
  PROVE  ClientInv'
<1> DEFINE Stopped(s) == \E id \in S : consumers[id] = s
<1>1. /\ streams \in Seq(Stream) /\ DOMAIN streams = 1..Len(streams) /\ Len(streams) \in Nat
      /\ \A r \in DOMAIN streams : streams[r] \in Stream
  BY LenProperties, ElementOfSeq DEF ClientInv, StreamsType
<1>2. /\ DOMAIN streams' = DOMAIN streams
      /\ \A r \in DOMAIN streams : /\ streams'[r] \in Stream /\ streams'[r].id = streams[r].id
                                   /\ streams'[r].state = IF Stopped(r) THEN "cancelled"
                                                                       ELSE streams[r].state
  <2>1. streams' = [r \in DOMAIN streams |->
                      IF Stopped(r) THEN [streams[r] EXCEPT !.state = "cancelled"] ELSE streams[r]]
    BY DEF StopConsumers
  <2> HIDE DEF Stopped
  <2> QED
    BY <1>1, <2>1 DEF Stream
<1>3. streams' \in Seq(Stream)
  <2>1. streams' = [r \in 1..Len(streams) |-> streams'[r]]
    BY <1>1 DEF StopConsumers
  <2> QED
    BY <1>1, <1>2, <2>1, IsASeq
<1>4. /\ DOMAIN consumers' = DOMAIN consumers \ S
      /\ \A i \in DOMAIN consumers' : consumers'[i] = consumers[i]
      /\ consumers' \in [DOMAIN consumers' -> DOMAIN streams]
  BY DEF StopConsumers, Restrict, ClientInv, StreamsType
<1>5. \A i \in DOMAIN consumers : /\ consumers[i] \in DOMAIN streams
                                  /\ streams[consumers[i]].id = i /\ streams[consumers[i]].state = "open"
  BY DEF ClientInv, StreamsType, ListedIsRunning
<1>6. StreamsType'
  BY <1>2, <1>3, <1>4 DEF ClientInv, StreamsType
<1>7. ListedIsRunning'
  <2> SUFFICES ASSUME NEW i \in DOMAIN consumers' PROVE ~Stopped(consumers[i])
    BY <1>2, <1>4, <1>5 DEF ListedIsRunning
  <2> QED
    BY <1>4, <1>5
<1>8. UnlistedOnlyByReuse'
  <2> SUFFICES ASSUME NEW r \in DOMAIN streams, streams'[r].state = "open"
               PROVE  (\E i \in DOMAIN consumers' : consumers'[i] = r)
                        \/ \E u \in DOMAIN streams \ {r} : streams'[u].id = streams'[r].id
    BY <1>2 DEF UnlistedOnlyByReuse, Listed
  <2>1. ~Stopped(r) /\ streams[r].state = "open"
    BY <1>2
  <2>2. CASE \E u \in DOMAIN streams \ {r} : streams[u].id = streams[r].id
    BY <1>2, <2>2
  <2>3. CASE \E i \in DOMAIN consumers : consumers[i] = r
    BY <1>4, <2>1, <2>3
  <2> QED
    BY <2>1, <2>2, <2>3 DEF ClientInv, UnlistedOnlyByReuse, Listed
<1> QED
  BY <1>6, <1>7, <1>8 DEF ClientInv

(* Publishing and the exit touch no consumer. *)
LEMMA OtherInv ==
  ASSUME ClientInv, UNCHANGED <<consumers, consumerSeq, streams>>
  PROVE  ClientInv'
BY DEF ClientInv, StreamsType, ListedIsRunning, UnlistedOnlyByReuse, Listed

(* The inductive invariant. *)
LEMMA ClientInvariant == FairSpec => []ClientInv
<1>1. Init => ClientInv
  <2> SUFFICES ASSUME Init PROVE ClientInv
    OBVIOUS
  <2>1. /\ DOMAIN consumers = {} /\ consumers \in [{} -> DOMAIN streams]
        /\ streams = <<>> /\ DOMAIN streams = {} /\ consumerSeq = 0
    BY DEF Init
  <2>2. streams \in Seq(Stream)
    BY <2>1
  <2> QED
    BY <2>1, <2>2 DEF ClientInv, StreamsType, ListedIsRunning, UnlistedOnlyByReuse, Listed
<1>2. ClientInv /\ [Next]_vars => ClientInv'
  <2> SUFFICES ASSUME ClientInv, [Next]_vars PROVE ClientInv'
    OBVIOUS
  <2>1. ASSUME NEW id \in Names, StartNamed(id) PROVE ClientInv'
    BY <2>1, StartInv, ClientConstants DEF StartNamed, ClientInv, StreamsType
  <2>2. ASSUME NEW id \in DOMAIN consumers, StopOne(id) PROVE ClientInv'
    BY <2>2, StopInv DEF StopOne
  <2>3. CASE StartGenerated
    <3>1. consumerSeq + 1 \in Nat /\ consumerSeq' \in Nat /\ StartConsumer(consumerSeq + 1)
      BY <2>3 DEF StartGenerated, ClientInv, StreamsType
    <3> QED
      BY <3>1, StartInv
  <2>4. CASE StopAll
    BY <2>4, StopInv DEF StopAll
  <2>5. ASSUME NEW s \in DOMAIN streams, Data(s) \/ AckTimer(s) \/ End(s) PROVE ClientInv'
    BY <2>5, CountInv, EndInv
  <2>6. ASSUME NEW r \in Requests, NEW count \in 1..MaxCount, PublishRequest(r, count) PROVE ClientInv'
    BY <2>6, OtherInv DEF PublishRequest
  <2>7. ASSUME NEW r \in Requests, Published(r) \/ PublishFails(r) PROVE ClientInv'
    BY <2>7, OtherInv DEF Published, PublishFails
  <2>8. CASE Shutdown
    BY <2>8, StopInv DEF Shutdown
  <2>9. CASE Exit
    BY <2>9, OtherInv DEF Exit
  <2>10. CASE UNCHANGED vars
    BY <2>10, OtherInv DEF vars
  <2> QED
    BY <2>1, <2>2, <2>3, <2>4, <2>5, <2>6, <2>7, <2>8, <2>9, <2>10 DEF Next
<1> QED
  BY <1>1, <1>2, PTL DEF FairSpec

(***************************************************************************)
(* Every entry of /status is for a stream that runs and carries its id, in *)
(* whatever order starts, stops and late end events of streams come, for   *)
(* any names that requests give.                                           *)
(***************************************************************************)
THEOREM ListedAlwaysRuns == FairSpec => []ListedIsRunning
BY ClientInvariant, PTL DEF ClientInv

(***************************************************************************)
(* A running stream is out of reach of /consumer/stop only after a second  *)
(* use of its id.                                                          *)
(***************************************************************************)
THEOREM LosesTrackOnlyByReuse == FairSpec => []UnlistedOnlyByReuse
BY ClientInvariant, PTL DEF ClientInv
=============================================================================
