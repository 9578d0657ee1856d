-------------------------- MODULE WalRecordsProofs --------------------------
(* What Select and Replay return, for every sequence of records. *)
EXTENDS WalRecords, FiniteSetTheorems, SequenceTheorems, TLAPS

(* The numbers 1 to n are n numbers. *)
LEMMA IntervalSize ==
  ASSUME NEW n \in Nat
  PROVE  IsFiniteSet(1..n) /\ Cardinality(1..n) = n
BY FS_Interval

(***************************************************************************)
(* Ranks in a finite set of numbers are between 1 and its size, and no two *)
(* elements share one.                                                     *)
(***************************************************************************)
LEMMA RankInjective ==
  ASSUME NEW S \in SUBSET Nat, IsFiniteSet(S)
  PROVE  /\ \A i \in S : Rank(S, i) \in 1..Cardinality(S)
         /\ \A i, j \in S : Rank(S, i) = Rank(S, j) => i = j
<1> DEFINE Below(i) == {j \in S : j <= i}
<1>1. \A i \in S : IsFiniteSet(Below(i)) /\ Cardinality(Below(i)) \in Nat
                     /\ Cardinality(Below(i)) <= Cardinality(S)
  BY FS_Subset, FS_CardinalityType
<1>2. Cardinality(S) \in Nat
  BY FS_CardinalityType
<1>3. ASSUME NEW i \in S PROVE Cardinality(Below(i)) # 0
  <2>1. i \in Below(i)
    OBVIOUS
  <2> QED
    BY <2>1, <1>1, FS_EmptySet
<1>4. ASSUME NEW i \in S, NEW j \in S, Cardinality(Below(i)) = Cardinality(Below(j)), i < j
      PROVE  FALSE
  <2>1. \A x \in S : x <= i => x <= j
    BY <1>4
  <2>2. Below(i) \subseteq Below(j)
    BY <2>1
  <2>3. Below(j) = Below(i)
    BY <2>2, <1>1, <1>4, FS_Subset
  <2>4. j \in Below(j) /\ j \notin Below(i)
    BY <1>4
  <2> QED
    BY <2>3, <2>4
<1>5. \A i \in S : Rank(S, i) \in 1..Cardinality(S)
  BY <1>1, <1>2, <1>3 DEF Rank
<1>6. ASSUME NEW i \in S, NEW j \in S, Rank(S, i) = Rank(S, j) PROVE i = j
  <2>1. Cardinality(Below(i)) = Cardinality(Below(j))
    BY <1>6 DEF Rank
  <2>2. ~(i < j) /\ ~(j < i)
    BY <2>1, <1>4
  <2> QED
    BY <2>2
<1> QED
  BY <1>5, <1>6

(***************************************************************************)
(* Every rank is taken: Nth(S, k) is an element of S for each k, and the   *)
(* element of rank k is Nth(S, k).                                         *)
(***************************************************************************)
LEMMA NthProperties ==
  ASSUME NEW S \in SUBSET Nat, IsFiniteSet(S)
  PROVE  /\ \A k \in 1..Cardinality(S) : Nth(S, k) \in S /\ Rank(S, Nth(S, k)) = k
         /\ \A i \in S : Nth(S, Rank(S, i)) = i
<1> DEFINE n == Cardinality(S)
           f == [i \in S |-> Rank(S, i)]
<1>1. n \in Nat /\ IsFiniteSet(1..n) /\ Cardinality(1..n) = n
  BY FS_CardinalityType, FS_Interval
<1>2. f \in Injection(S, 1..n)
  BY RankInjective DEF Injection, IsInjective
<1>3. f \in Surjection(S, 1..n)
  BY <1>1, <1>2, FS_Injection
<1>4. ASSUME NEW k \in 1..n PROVE Nth(S, k) \in S /\ Rank(S, Nth(S, k)) = k
  <2>1. \E i \in S : f[i] = k
    BY <1>3, <1>4 DEF Surjection
  <2>2. \E i \in S : Rank(S, i) = k
    BY <2>1
  <2> QED
    BY <2>2 DEF Nth
<1>5. ASSUME NEW i \in S PROVE Nth(S, Rank(S, i)) = i
  BY RankInjective DEF Nth
<1> QED
  BY <1>4, <1>5

(***************************************************************************)
(* Select returns a sequence over the same elements, with an element for   *)
(* each selected position.                                                 *)
(***************************************************************************)
LEMMA SelectProperties ==
  ASSUME NEW T, NEW s \in Seq(T), NEW S \in SUBSET DOMAIN s
  PROVE  /\ Select(s, S) \in Seq(T)
         /\ DOMAIN Select(s, S) = 1..Cardinality(S)
         /\ \A k \in DOMAIN Select(s, S) : \E i \in S : Select(s, S)[k] = s[i]
         /\ \A i \in S : \E k \in DOMAIN Select(s, S) : Select(s, S)[k] = s[i]
<1>1. Len(s) \in Nat /\ DOMAIN s = 1..Len(s) /\ \A i \in DOMAIN s : s[i] \in T
  BY LenProperties
<1>2. IsFiniteSet(S) /\ S \in SUBSET Nat
  <2>1. IsFiniteSet(1..Len(s)) /\ 1..Len(s) \subseteq Nat
    BY <1>1, FS_Interval
  <2> QED
    BY <1>1, <2>1, FS_Subset
<1>3. Cardinality(S) \in Nat
  BY <1>2, FS_CardinalityType
<1>4. DOMAIN Select(s, S) = 1..Cardinality(S)
  BY DEF Select
<1>5. \A k \in 1..Cardinality(S) : Nth(S, k) \in S /\ Select(s, S)[k] = s[Nth(S, k)]
  BY <1>2, NthProperties DEF Select
<1>6. Select(s, S) \in Seq(T)
  <2>1. Select(s, S) \in [1..Cardinality(S) -> T]
    BY <1>1, <1>2, NthProperties DEF Select
  <2> QED
    BY <1>3, <2>1, SeqDef
<1>7. ASSUME NEW i \in S PROVE \E k \in DOMAIN Select(s, S) : Select(s, S)[k] = s[i]
  <2>1. Rank(S, i) \in 1..Cardinality(S) /\ Nth(S, Rank(S, i)) = i
    BY <1>2, RankInjective, NthProperties
  <2> QED
    BY <2>1, <1>4, <1>5
<1> QED
  BY <1>4, <1>5, <1>6, <1>7

(* Select keeps the order: a later element stems from a later position. *)
LEMMA SelectOrder ==
  ASSUME NEW T, NEW s \in Seq(T), NEW S \in SUBSET DOMAIN s
  PROVE  \E f \in [DOMAIN Select(s, S) -> DOMAIN s] :
           /\ \A k, l \in DOMAIN Select(s, S) : k < l => f[k] < f[l]
           /\ \A k \in DOMAIN Select(s, S) : Select(s, S)[k] = s[f[k]]
<1> DEFINE n == Cardinality(S)
           f == [k \in 1..n |-> Nth(S, k)]
<1>1. IsFiniteSet(S) /\ S \in SUBSET Nat
  <2>1. DOMAIN s = 1..Len(s) /\ Len(s) \in Nat
    BY LenProperties
  <2>2. IsFiniteSet(1..Len(s)) /\ 1..Len(s) \subseteq Nat
    BY <2>1, FS_Interval
  <2> QED
    BY <2>1, <2>2, FS_Subset
<1>2. n \in Nat /\ DOMAIN Select(s, S) = 1..n
  BY <1>1, FS_CardinalityType DEF Select
<1>3. \A k \in 1..n : Nth(S, k) \in S /\ Nth(S, k) \in Nat /\ Rank(S, Nth(S, k)) = k
  BY <1>1, NthProperties
<1>4. ASSUME NEW i \in S, NEW j \in S, i <= j PROVE Rank(S, i) <= Rank(S, j)
  <2>1. {x \in S : x <= i} \subseteq {x \in S : x <= j} /\ {x \in S : x <= j} \subseteq S
    BY <1>1, <1>4
  <2>2. IsFiniteSet({x \in S : x <= j})
    BY <1>1, <2>1, FS_Subset
  <2> QED
    BY <2>1, <2>2, FS_Subset DEF Rank
<1>5. ASSUME NEW k \in 1..n, NEW l \in 1..n, k < l PROVE Nth(S, k) < Nth(S, l)
  <2>1. ~(Nth(S, l) <= Nth(S, k))
    BY <1>2, <1>3, <1>4, <1>5
  <2> QED
    BY <1>3, <2>1
<1>6. f \in [1..n -> DOMAIN s] /\ \A k \in 1..n : Select(s, S)[k] = s[f[k]]
  BY <1>3 DEF Select
<1>7. \A k, l \in 1..n : k < l => f[k] < f[l]
  BY <1>5
<1> QED
  BY <1>2, <1>6, <1>7

(***************************************************************************)
(* A replay returns message records only, exactly those at live positions. *)
(***************************************************************************)
LEMMA ReplayProperties ==
  ASSUME NEW T, NEW w \in Seq(T)
  PROVE  /\ Replay(w) \in Seq(T)
         /\ Len(Replay(w)) \in Nat /\ DOMAIN Replay(w) = 1..Len(Replay(w))
         /\ \A k \in DOMAIN Replay(w) : \E i \in Live(w) : Replay(w)[k] = w[i]
         /\ \A i \in Live(w) : \E k \in DOMAIN Replay(w) : Replay(w)[k] = w[i]
         /\ \A k \in DOMAIN Replay(w) : Replay(w)[k] \in T /\ Replay(w)[k].type = "msg"
<1>1. Live(w) \in SUBSET DOMAIN w
  BY DEF Live, Readable
<1>2. /\ Replay(w) \in Seq(T)
      /\ \A k \in DOMAIN Replay(w) : \E i \in Live(w) : Replay(w)[k] = w[i]
      /\ \A i \in Live(w) : \E k \in DOMAIN Replay(w) : Replay(w)[k] = w[i]
  BY <1>1, SelectProperties DEF Replay
<1>3. \A i \in Live(w) : w[i] \in T /\ w[i].type = "msg"
  BY <1>1, LenProperties DEF Live
<1>4. Len(Replay(w)) \in Nat /\ DOMAIN Replay(w) = 1..Len(Replay(w))
  BY <1>2, LenProperties
<1> QED
  BY <1>2, <1>3, <1>4

(***************************************************************************)
(* A file that holds nothing but messages replays to itself.               *)
(***************************************************************************)
LEMMA ReplayOfMessages ==
  ASSUME NEW T, NEW w \in Seq(T), \A i \in DOMAIN w : w[i].type = "msg"
  PROVE  Replay(w) = w
<1> DEFINE n == Len(w)
<1>1. n \in Nat /\ DOMAIN w = 1..n /\ w \in [1..n -> T]
  BY LenProperties
<1>2. Readable(w) = 1..n
  BY <1>1 DEF Readable
<1>3. Tombstones(w) = {}
  BY <1>1, <1>2 DEF Tombstones
<1>4. Live(w) = 1..n
  BY <1>1, <1>2, <1>3 DEF Live
<1>5. IsFiniteSet(1..n) /\ Cardinality(1..n) = n /\ 1..n \in SUBSET Nat
  <2>1. IsFiniteSet(1..n) /\ Cardinality(1..n) = n
    BY <1>1, IntervalSize
  <2>2. \A i \in 1..n : i \in Nat
    BY <1>1
  <2> QED
    BY <2>1, <2>2
<1>6. ASSUME NEW k \in 1..n PROVE Nth(1..n, k) = k
  <2>1. {j \in 1..n : j <= k} = 1..k
    BY <1>1
  <2>2. Cardinality(1..k) = k
    BY <1>1, FS_Interval
  <2>3. Rank(1..n, k) = k
    BY <2>1, <2>2 DEF Rank
  <2> QED
    BY <2>3, <1>5, NthProperties
<1>7. Replay(w) = [k \in 1..n |-> w[Nth(1..n, k)]]
  BY <1>4, <1>5 DEF Replay, Select
<1>8. [k \in 1..n |-> w[Nth(1..n, k)]] = [k \in 1..n |-> w[k]]
  BY <1>6
<1> QED
  BY <1>1, <1>7, <1>8

(***************************************************************************)
(* Replaying a compacted file gives what replaying the original gave.      *)
(***************************************************************************)
THEOREM ReplayIdempotent ==
  ASSUME NEW T, NEW w \in Seq(T)
  PROVE  Replay(Replay(w)) = Replay(w)
BY ReplayProperties, ReplayOfMessages
=============================================================================
