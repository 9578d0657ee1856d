----------------------------- MODULE WalProofs ------------------------------
(***************************************************************************)
(* Type correctness and the safety properties of Wal, for any set of ids   *)
(* and any bounds.                                                         *)
(***************************************************************************)
EXTENDS Wal, WalRecordsProofs

\* While compaction copies, tmp is a prefix of the replay; then it is the replay.
CopyInv ==
  /\ pc = "copying" => /\ Len(tmp) <= Len(Replay(file))
                       /\ \A k \in 1..Len(tmp) : tmp[k] = Replay(file)[k]
  /\ pc \in {"copied", "verified"} => tmp = Replay(file)

\* Unless records were buried, nothing readable stands behind torn bytes.
TornInv ==
  ~buried => \A i, j \in DOMAIN file : i < j /\ file[i] = Torn => file[j] = Torn

TombInv == \A i \in DOMAIN file : file[i].type = "tomb" => file[i].id \in killed

WrittenInv == pc = "written" => Len(file) > 0 /\ file[Len(file)] = cur

\* What append confirmed is in the synced part of the file.
DurableInv ==
  ~buried => \A rec \in confirmed : rec.type = "msg" /\ rec.id \notin killed
                                      => \E i \in 1..synced : file[i] = rec

\* A confirmed tombstone is in the synced part, or there is nothing for it to hide.
DeadInv ==
  ~buried => \A id \in dead : \/ \E i \in 1..synced : file[i] = RecordTombstone(id)
                              \/ \A i \in DOMAIN file : file[i].type = "msg" => file[i].id # id

IInv == TypeOK /\ CopyInv /\ TornInv /\ TombInv /\ WrittenInv /\ DurableInv /\ DeadInv
-----------------------------------------------------------------------------
(* The three kinds of records are told apart by their type. *)
LEMMA RecordKinds ==
  /\ \A r \in MessageRecords : r.type = "msg" /\ r.id \in Ids
  /\ \A r \in TombstoneRecords : r.type = "tomb" /\ r.id \in Ids /\ r = RecordTombstone(r.id)
  /\ Torn.type = "torn"
  /\ \A r \in Records \cup {Torn} :
       /\ r.type = "msg" => r \in MessageRecords
       /\ r.type = "tomb" => r \in TombstoneRecords
       /\ r.type = "torn" => r = Torn
BY DEF Records, MessageRecords, TombstoneRecords, RecordMessage, RecordTombstone, Torn

(* Elements and length of the file, and of its replay. *)
LEMMA FileFacts ==
  ASSUME TypeOK
  PROVE  /\ Len(file) \in Nat /\ DOMAIN file = 1..Len(file)
         /\ \A i \in DOMAIN file : file[i] \in Records \cup {Torn}
         /\ synced \in Nat /\ synced <= Len(file)
         /\ Len(tmp) \in Nat /\ DOMAIN tmp = 1..Len(tmp)
         /\ Replay(file) \in Seq(MessageRecords)
<1>1. file \in Seq(Records \cup {Torn}) /\ tmp \in Seq(MessageRecords) /\ synced \in 0..Len(file)
  BY DEF TypeOK
<1>2. /\ Len(file) \in Nat /\ DOMAIN file = 1..Len(file)
      /\ \A i \in DOMAIN file : file[i] \in Records \cup {Torn}
      /\ Len(tmp) \in Nat /\ DOMAIN tmp = 1..Len(tmp)
  BY <1>1, LenProperties
<1>3. \A k \in DOMAIN Replay(file) : Replay(file)[k] \in MessageRecords
  BY <1>1, ReplayProperties, RecordKinds
<1>4. Len(Replay(file)) \in Nat /\ Replay(file) \in [1..Len(Replay(file)) -> MessageRecords]
  BY <1>1, <1>3, ReplayProperties, LenProperties
<1>5. Replay(file) \in Seq(MessageRecords)
  BY <1>4, SeqDef
<1> QED
  BY <1>1, <1>2, <1>5

(* A record of an id without tombstone is live, unless records were buried. *)
LEMMA UnkilledIsLive ==
  ASSUME IInv, ~buried, NEW i \in DOMAIN file,
         file[i].type = "msg", file[i].id \notin killed
  PROVE  i \in Live(file)
<1>1. \A j \in DOMAIN file : j < i => file[j].type # "torn"
  BY FileFacts, RecordKinds DEF IInv, TornInv
<1>2. i \in Readable(file)
  BY <1>1, FileFacts DEF Readable, IInv
<1>3. file[i].id \notin Tombstones(file)
  BY DEF Tombstones, Readable, IInv, TombInv
<1> QED
  BY <1>2, <1>3 DEF Live

(* The inductive invariant implies that confirmed messages are replayed. *)
LEMMA IInvNoLoss ==
  ASSUME IInv
  PROVE  NoLossUnlessBuried
<1> SUFFICES ASSUME ~buried, NEW rec \in confirmed, rec.type = "msg", rec.id \notin killed
             PROVE  Replayed(rec)
  BY DEF NoLossUnlessBuried
<1>1. PICK i \in 1..synced : file[i] = rec
  BY DEF IInv, DurableInv
<1>2. i \in DOMAIN file
  BY <1>1, FileFacts DEF IInv
<1>3. i \in Live(file)
  BY <1>1, <1>2, UnkilledIsLive
<1>4. file \in Seq(Records \cup {Torn})
  BY DEF IInv, TypeOK
<1> QED
  BY <1>1, <1>3, <1>4, ReplayProperties DEF Replayed

(* ... and that acknowledged ones are not. *)
LEMMA IInvAcked ==
  ASSUME IInv
  PROVE  AckedStaysGone
<1> SUFFICES ASSUME ~buried, NEW k \in DOMAIN Replay(file), Replay(file)[k].id \in dead
             PROVE  FALSE
  BY DEF AckedStaysGone
<1>1. file \in Seq(Records \cup {Torn})
  BY DEF IInv, TypeOK
<1>2. PICK j \in Live(file) : Replay(file)[k] = file[j]
  BY <1>1, ReplayProperties
<1>3. j \in DOMAIN file /\ file[j].type = "msg" /\ file[j].id \notin Tombstones(file)
        /\ file[j].id \in dead
  BY <1>2 DEF Live, Readable
<1>4. PICK i \in 1..synced : file[i] = RecordTombstone(file[j].id)
  BY <1>3 DEF IInv, DeadInv
<1>5. i \in DOMAIN file /\ file[i].type = "tomb" /\ file[i].id = file[j].id
  BY <1>4, FileFacts DEF IInv, RecordTombstone
<1>6. \A l \in DOMAIN file : l <= i => file[l].type # "torn"
  BY <1>5, FileFacts, RecordKinds DEF IInv, TornInv
<1>7. i \in Readable(file)
  BY <1>5, <1>6, FileFacts DEF Readable, IInv
<1> QED
  BY <1>3, <1>5, <1>7 DEF Tombstones
-----------------------------------------------------------------------------
(* What an appended record does to the file. *)
LEMMA FileAppend ==
  ASSUME TypeOK, NEW r \in Records \cup {Torn}
  PROVE  /\ Append(file, r) \in Seq(Records \cup {Torn})
         /\ Len(Append(file, r)) = Len(file) + 1
         /\ DOMAIN Append(file, r) = 1..(Len(file) + 1)
         /\ \A i \in 1..Len(file) : Append(file, r)[i] = file[i]
         /\ Append(file, r)[Len(file) + 1] = r
BY AppendProperties, LenProperties DEF TypeOK

(* Write keeps the inductive invariant: a tombstone is counted as tried, a *)
(* record behind torn bytes as buried.                                     *)
LEMMA WriteInv ==
  ASSUME IInv, NEW rec \in Records, Write(rec)
  PROVE  IInv'
<1> USE FileAppend, FileFacts, RecordKinds DEF Write
<1>0. TypeOK /\ rec \in Records \cup {Torn}
  BY DEF IInv
<1>f. /\ file' \in Seq(Records \cup {Torn}) /\ Len(file') = Len(file) + 1
      /\ DOMAIN file' = 1..(Len(file) + 1) /\ Len(file) \in Nat
      /\ \A i \in 1..Len(file) : file'[i] = file[i]
      /\ file'[Len(file) + 1] = rec /\ DOMAIN file = 1..Len(file)
  BY <1>0
<1>k. rec.id \in Ids /\ rec # Torn
  BY DEF Records
<1>1. TypeOK'
  BY <1>0, <1>f, <1>k, WalConstants DEF TypeOK
<1>2. CopyInv'
  BY DEF CopyInv
<1>3. TornInv'
  <2> SUFFICES ASSUME ~buried', NEW i \in DOMAIN file', NEW j \in DOMAIN file',
                      i < j, file'[i] = Torn
               PROVE  FALSE
    BY DEF TornInv
  <2>1. i \in DOMAIN file /\ file[i] = Torn
    BY <1>f
  <2> QED
    BY <2>1 DEF HasTorn
<1>4. TombInv'
  BY <1>f DEF IInv, TombInv
<1>5. WrittenInv'
  BY <1>f DEF WrittenInv
<1>6. DurableInv'
  <2> SUFFICES ASSUME ~buried', NEW r \in confirmed, r.type = "msg", r.id \notin killed'
               PROVE  \E i \in 1..synced : file'[i] = r
    BY DEF DurableInv
  <2>1. PICK i \in 1..synced : file[i] = r
    BY DEF IInv, DurableInv
  <2>2. i \in 1..Len(file)
    BY <1>0
  <2> QED
    BY <2>1, <2>2, <1>f
<1>7. DeadInv'
  <2> SUFFICES ASSUME ~buried', NEW id \in dead'
               PROVE  \/ \E i \in 1..synced : file'[i] = RecordTombstone(id)
                      \/ \A i \in DOMAIN file' : file'[i].type = "msg" => file'[i].id # id
    BY DEF DeadInv
  <2>1. id \in dead /\ ~buried /\ (rec.type = "msg" => rec.id # id)
    OBVIOUS
  <2>2. CASE \E i \in 1..synced : file[i] = RecordTombstone(id)
    BY <2>2, <1>0, <1>f
  <2>3. CASE \A i \in DOMAIN file : file[i].type = "msg" => file[i].id # id
    BY <2>1, <2>3, <1>f
  <2> QED
    BY <2>1, <2>2, <2>3 DEF IInv, DeadInv
<1> QED
  BY <1>1, <1>2, <1>3, <1>4, <1>5, <1>6, <1>7 DEF IInv

(* So does a short write: torn bytes at the end hide nothing. *)
LEMMA WriteShortInv ==
  ASSUME IInv, WriteShort
  PROVE  IInv'
<1> USE DEF WriteShort, history
<1>0. TypeOK /\ Torn \in Records \cup {Torn}
  BY DEF IInv
<1>f. /\ file' \in Seq(Records \cup {Torn}) /\ Len(file') = Len(file) + 1
      /\ DOMAIN file' = 1..(Len(file) + 1) /\ Len(file) \in Nat
      /\ \A i \in 1..Len(file) : file'[i] = file[i]
      /\ file'[Len(file) + 1] = Torn /\ DOMAIN file = 1..Len(file)
  BY <1>0, FileAppend, FileFacts
<1>1. TypeOK'
  BY <1>0, <1>f, WalConstants DEF TypeOK
<1>2. CopyInv' /\ WrittenInv'
  BY DEF CopyInv, WrittenInv
<1>3. TornInv'
  BY <1>f DEF IInv, TornInv
<1>4. TombInv'
  BY <1>f, RecordKinds DEF IInv, TombInv
<1>6. DurableInv'
  BY <1>0, <1>f, FileFacts DEF IInv, DurableInv
<1>7. DeadInv'
  BY <1>0, <1>f, FileFacts, RecordKinds DEF IInv, DeadInv
<1> QED
  BY <1>1, <1>2, <1>3, <1>4, <1>6, <1>7 DEF IInv

(* Sync makes the record just written durable before it is confirmed. *)
LEMMA SyncInv ==
  ASSUME IInv, Sync
  PROVE  IInv'
<1> USE DEF Sync
<1>0. TypeOK /\ cur \in Records /\ Len(file) \in Nat /\ DOMAIN file = 1..Len(file)
        /\ Len(file) > 0 /\ file[Len(file)] = cur /\ synced \in Nat /\ synced <= Len(file)
  BY FileFacts DEF IInv, TypeOK, WrittenInv
<1>1. TypeOK'
  BY <1>0, RecordKinds DEF TypeOK, Records
<1>2. CopyInv' /\ WrittenInv'
  BY DEF CopyInv, WrittenInv
<1>3. TornInv' /\ TombInv'
  BY DEF IInv, TornInv, TombInv
<1>6. DurableInv'
  BY <1>0 DEF IInv, DurableInv
<1>7. DeadInv'
  <2> SUFFICES ASSUME ~buried, NEW id \in dead'
               PROVE  \/ \E i \in 1..Len(file) : file[i] = RecordTombstone(id)
                      \/ \A i \in DOMAIN file : file[i].type = "msg" => file[i].id # id
    BY DEF DeadInv
  <2>1. CASE id \in dead
    BY <2>1, <1>0 DEF IInv, DeadInv
  <2>2. CASE id \notin dead
    <3>1. cur.type = "tomb" /\ cur.id = id
      BY <2>2
    <3>2. cur = RecordTombstone(id)
      BY <3>1, <1>0, RecordKinds
    <3> QED
      BY <3>2, <1>0
  <2> QED
    BY <2>1, <2>2
<1> QED
  BY <1>1, <1>2, <1>3, <1>6, <1>7 DEF IInv
-----------------------------------------------------------------------------
(* Copying one more replayed message keeps tmp a prefix of the replay. *)
LEMMA CopyOneInv ==
  ASSUME IInv, CompactCopyOne
  PROVE  IInv'
<1> USE DEF CompactCopyOne, history
<1> DEFINE r == Replay(file)
<1>0. /\ TypeOK /\ tmp \in Seq(MessageRecords) /\ r \in Seq(MessageRecords)
      /\ Len(tmp) \in Nat /\ Len(r) \in Nat /\ Len(tmp) < Len(r)
      /\ \A k \in 1..Len(r) : r[k] \in MessageRecords
  BY FileFacts, LenProperties DEF IInv, TypeOK
<1>1. r[Len(tmp) + 1] \in MessageRecords
  BY <1>0
<1>2. /\ tmp' \in Seq(MessageRecords) /\ Len(tmp') = Len(tmp) + 1
      /\ \A k \in 1..Len(tmp) : tmp'[k] = tmp[k]
      /\ tmp'[Len(tmp) + 1] = r[Len(tmp) + 1]
  BY <1>0, <1>1, AppendProperties
<1>3. \A k \in 1..Len(tmp) : tmp[k] = r[k]
  BY DEF IInv, CopyInv
<1>4. CopyInv'
  BY <1>0, <1>2, <1>3 DEF CopyInv
<1>5. TypeOK'
  BY <1>0, <1>2 DEF TypeOK
<1>6. TornInv' /\ TombInv' /\ WrittenInv' /\ DurableInv' /\ DeadInv'
  BY DEF IInv, TornInv, TombInv, WrittenInv, DurableInv, DeadInv
<1> QED
  BY <1>4, <1>5, <1>6 DEF IInv

(* When everything is copied, tmp is the replay. *)
LEMMA CompactSyncInv ==
  ASSUME IInv, CompactSync
  PROVE  IInv'
<1> USE DEF CompactSync, history
<1>1. tmp \in Seq(MessageRecords) /\ Replay(file) \in Seq(MessageRecords)
  BY FileFacts DEF IInv, TypeOK
<1>2. tmp = Replay(file)
  <2>1. \A k \in 1..Len(tmp) : tmp[k] = Replay(file)[k]
    BY DEF IInv, CopyInv
  <2> QED
    BY <1>1, <2>1, SeqEqual
<1>3. CopyInv'
  BY <1>2 DEF CopyInv
<1>4. TypeOK' /\ TornInv' /\ TombInv' /\ WrittenInv' /\ DurableInv' /\ DeadInv'
  BY DEF IInv, TypeOK, Compacting, TornInv, TombInv, WrittenInv, DurableInv, DeadInv
<1> QED
  BY <1>3, <1>4 DEF IInv

(* The rename puts the replay in the place of the file: what was confirmed *)
(* is in it, what was acknowledged is not.                                 *)
LEMMA RenameInv ==
  ASSUME IInv, CompactRename
  PROVE  IInv'
<1> USE DEF CompactRename, history
<1>0. /\ file' = Replay(file) /\ file' \in Seq(MessageRecords)
      /\ Len(file') \in Nat /\ DOMAIN file' = 1..Len(file') /\ synced' = Len(file')
      /\ \A i \in DOMAIN file' : file'[i] \in MessageRecords
  BY FileFacts, LenProperties DEF IInv, TypeOK, CopyInv
<1>1. \A i \in DOMAIN file' : file'[i].type = "msg" /\ file'[i] # Torn
  BY <1>0, RecordKinds
<1>2. TypeOK'
  <2>1. file' \in Seq(Records \cup {Torn})
    BY <1>0, SeqMonotonic DEF Records
  <2>2. <<>> \in Seq(MessageRecords)
    BY EmptySeq
  <2> QED
    BY <1>0, <2>1, <2>2 DEF IInv, TypeOK, Compacting
<1>3. CopyInv' /\ WrittenInv'
  BY DEF CopyInv, WrittenInv
<1>4. TornInv' /\ TombInv'
  BY <1>1 DEF TornInv, TombInv
<1>5. DurableInv'
  BY <1>0, IInvNoLoss DEF DurableInv, NoLossUnlessBuried, Replayed
<1>6. DeadInv'
  BY <1>0, IInvAcked DEF DeadInv, AckedStaysGone
<1> QED
  BY <1>2, <1>3, <1>4, <1>5, <1>6 DEF IInv
-----------------------------------------------------------------------------
(* What a crash leaves of the file: its synced part, then a prefix of the  *)
(* rest, then perhaps torn bytes.                                          *)
LEMMA CrashFile ==
  ASSUME TypeOK, Crash
  PROVE  /\ file' \in Seq(Records \cup {Torn})
         /\ Len(file') \in Nat /\ DOMAIN file' = 1..Len(file') /\ synced <= Len(file')
         /\ Len(file') <= Len(file)
         /\ \A i \in 1..synced : file'[i] = file[i]
         /\ \A i \in 1..Len(file') : file'[i] = file[i] \/ (i = Len(file') /\ file'[i] = Torn)
<1>1. PICK n \in synced..Len(file) :
        \/ file' = SubSeq(file, 1, n)
        \/ n < Len(file) /\ file' = Append(SubSeq(file, 1, n), Torn)
  BY DEF Crash
<1> DEFINE s == SubSeq(file, 1, n)
<1>2. synced \in Nat /\ Len(file) \in Nat /\ n \in Nat /\ synced <= n /\ n <= Len(file)
        /\ \A i \in 1..n : file[i] \in Records \cup {Torn}
  BY FileFacts
<1>3. s \in Seq(Records \cup {Torn}) /\ Len(s) = n /\ \A i \in 1..n : s[i] = file[i]
  BY <1>2, SubSeqProperties
<1>4. CASE file' = s
  BY <1>2, <1>3, <1>4, LenProperties
<1>5. CASE n < Len(file) /\ file' = Append(s, Torn)
  <2>1. /\ file' \in Seq(Records \cup {Torn}) /\ Len(file') = n + 1
        /\ \A i \in 1..n : file'[i] = s[i]
        /\ file'[n + 1] = Torn
    BY <1>2, <1>3, <1>5, AppendProperties
  <2>2. DOMAIN file' = 1..Len(file')
    BY <2>1, LenProperties
  <2> QED
    BY <1>2, <1>3, <1>5, <2>1, <2>2
<1> QED
  BY <1>1, <1>4, <1>5

(* A crash keeps the inductive invariant: only unsynced records are lost. *)
LEMMA CrashInv ==
  ASSUME IInv, Crash
  PROVE  IInv'
<1> USE DEF history
<1>0. /\ TypeOK
      /\ pc' = "down" /\ handle' = "nil" /\ cur' = Torn /\ synced' = Len(file')
      /\ crashes' = crashes + 1 /\ crashes < MaxCrashes
      /\ UNCHANGED <<tmp, writes, confirmed, killed, dead, buried>>
  BY DEF IInv, Crash
<1>f. /\ file' \in Seq(Records \cup {Torn})
      /\ Len(file') \in Nat /\ DOMAIN file' = 1..Len(file') /\ synced <= Len(file')
      /\ Len(file') <= Len(file)
      /\ \A i \in 1..synced : file'[i] = file[i]
      /\ \A i \in 1..Len(file') : file'[i] = file[i] \/ (i = Len(file') /\ file'[i] = Torn)
      /\ Len(file) \in Nat /\ DOMAIN file = 1..Len(file) /\ synced \in Nat
  BY <1>0, CrashFile, FileFacts
<1>s. \A i \in 1..synced : i \in 1..Len(file') /\ file'[i] = file[i]
  <2>1. synced \in Nat /\ Len(file') \in Nat /\ synced <= Len(file')
    BY <1>f
  <2>2. \A i \in 1..synced : i \in 1..Len(file')
    BY <2>1
  <2> QED
    BY <2>2, <1>f
<1>d. \A i \in DOMAIN file' : i \in DOMAIN file /\ (file'[i] = file[i] \/ file'[i] = Torn)
  <2>1. Len(file) \in Nat /\ Len(file') \in Nat /\ Len(file') <= Len(file)
    BY <1>f
  <2>2. \A i \in 1..Len(file') : i \in 1..Len(file)
    BY <2>1
  <2> QED
    BY <2>2, <1>f, Zenon
<1>t. Torn.type = "torn"
  BY RecordKinds
<1>1. TypeOK'
  BY <1>0, <1>f, WalConstants DEF TypeOK
<1>2. CopyInv' /\ WrittenInv'
  BY <1>0 DEF CopyInv, WrittenInv
<1>3. TornInv'
  BY <1>0, <1>f DEF IInv, TornInv
<1>4. TombInv'
  BY <1>0, <1>f, RecordKinds DEF IInv, TombInv
<1>5. DurableInv'
  <2> SUFFICES ASSUME ~buried, NEW r \in confirmed, r.type = "msg", r.id \notin killed
               PROVE  \E i \in 1..Len(file') : file'[i] = r
    BY <1>0 DEF DurableInv
  <2>1. PICK i \in 1..synced : file[i] = r
    BY DEF IInv, DurableInv
  <2>2. i \in 1..Len(file') /\ file'[i] = file[i]
    BY <1>s
  <2> QED
    BY <2>1, <2>2
<1>6. DeadInv'
  <2> SUFFICES ASSUME ~buried, NEW id \in dead
               PROVE  \/ \E i \in 1..Len(file') : file'[i] = RecordTombstone(id)
                      \/ \A i \in DOMAIN file' : file'[i].type = "msg" => file'[i].id # id
    BY <1>0 DEF DeadInv
  <2>1. CASE \E i \in 1..synced : file[i] = RecordTombstone(id)
    <3>1. PICK i \in 1..synced : file[i] = RecordTombstone(id)
      BY <2>1
    <3>2. i \in 1..Len(file') /\ file'[i] = file[i]
      BY <1>s
    <3> QED
      BY <3>1, <3>2
  <2>2. CASE \A i \in DOMAIN file : file[i].type = "msg" => file[i].id # id
    BY <2>2, <1>d, <1>t
  <2> QED
    BY <2>1, <2>2 DEF IInv, DeadInv
<1> QED
  BY <1>1, <1>2, <1>3, <1>4, <1>5, <1>6 DEF IInv
-----------------------------------------------------------------------------
(* The steps that touch neither the file nor the history. *)
LEMMA QuietInv ==
  ASSUME IInv,
         \/ SyncFails \/ CompactClose \/ CompactTruncate \/ CompactVerify
         \/ CompactReopen \/ CompactFails \/ Close \/ Restart
  PROVE  IInv'
<1> USE DEF SyncFails, CompactClose, CompactTruncate, CompactVerify, CompactReopen,
            CompactFails, Close, Restart, history
<1>1. UNCHANGED <<file, synced, confirmed, killed, dead, buried, writes, crashes>>
  OBVIOUS
<1>2. tmp' \in Seq(MessageRecords) /\ handle' \in {"open", "nil", "closed"}
        /\ pc' \in {"idle", "written", "down"} \cup Compacting
        /\ pc' # "written" /\ cur' \in Records \cup {Torn}
  BY EmptySeq DEF IInv, TypeOK, Compacting
<1>3. TypeOK'
  BY <1>1, <1>2 DEF IInv, TypeOK
<1>4. CopyInv'
  <2>1. Len(Replay(file)) \in Nat /\ Len(<<>>) = 0
    BY FileFacts, LenProperties DEF IInv
  <2>2. CASE CompactTruncate
    BY <1>1, <2>1, <2>2 DEF CopyInv
  <2>3. CASE CompactVerify
    BY <1>1, <2>3 DEF IInv, CopyInv
  <2>4. CASE ~CompactTruncate /\ ~CompactVerify
    <3>1. pc' \notin {"copying", "copied", "verified"}
      BY <2>4
    <3> QED
      BY <3>1 DEF CopyInv
  <2> QED
    BY <2>2, <2>3, <2>4
<1>5. TornInv' /\ TombInv' /\ WrittenInv' /\ DurableInv' /\ DeadInv'
  BY <1>1, <1>2 DEF IInv, TornInv, TombInv, WrittenInv, DurableInv, DeadInv
<1> QED
  BY <1>3, <1>4, <1>5 DEF IInv

(* The invariant holds initially and every step keeps it. *)
LEMMA InductiveInvariant == Spec => []IInv
<1>1. Init => IInv
  <2> SUFFICES ASSUME Init PROVE IInv
    OBVIOUS
  <2>1. <<>> \in Seq(Records \cup {Torn}) /\ <<>> \in Seq(MessageRecords) /\ Len(<<>>) = 0
    BY EmptySeq
  <2>2. 0 \in 0..Len(<<>>) /\ 0 \in 0..MaxWrites /\ 0 \in 0..MaxCrashes
    BY <2>1, WalConstants
  <2>3. /\ file \in Seq(Records \cup {Torn}) /\ synced \in 0..Len(file)
        /\ tmp \in Seq(MessageRecords)
    BY <2>1, <2>2, Zenon DEF Init
  <2>4. TypeOK
    BY <2>2, <2>3 DEF Init, TypeOK
  <2> QED
    BY <2>4 DEF Init, IInv, CopyInv, TornInv, TombInv, WrittenInv, DurableInv, DeadInv
<1>2. IInv /\ [Next]_vars => IInv'
  <2> SUFFICES ASSUME IInv, [Next]_vars PROVE IInv'
    OBVIOUS
  <2>1. ASSUME NEW rec \in Records, Write(rec) PROVE IInv'
    BY <2>1, WriteInv
  <2>2. CASE WriteShort
    BY <2>2, WriteShortInv
  <2>3. CASE Sync
    BY <2>3, SyncInv
  <2>4. CASE CompactCopyOne
    BY <2>4, CopyOneInv
  <2>5. CASE CompactSync
    BY <2>5, CompactSyncInv
  <2>6. CASE CompactRename
    BY <2>6, RenameInv
  <2>7. CASE Crash
    BY <2>7, CrashInv
  <2>8. CASE \/ SyncFails \/ CompactClose \/ CompactTruncate \/ CompactVerify
             \/ CompactReopen \/ CompactFails \/ Close \/ Restart
    BY <2>8, QuietInv
  <2>9. CASE UNCHANGED vars
    BY <2>9 DEF vars, IInv, TypeOK, CopyInv, TornInv, TombInv, WrittenInv, DurableInv, DeadInv
  <2> QED
    BY <2>1, <2>2, <2>3, <2>4, <2>5, <2>6, <2>7, <2>8, <2>9 DEF Next
<1> QED
  BY <1>1, <1>2, PTL DEF Spec

(* Every variable of the log keeps its type. *)
THEOREM TypeCorrect == Spec => []TypeOK
BY InductiveInvariant, PTL DEF IInv

(***************************************************************************)
(* A message whose append returned nil is replayed after any crash, failed *)
(* write or compaction, unless an append went behind torn bytes.           *)
(***************************************************************************)
THEOREM ConfirmedNeverLost == Spec => []NoLossUnlessBuried
<1>1. IInv => NoLossUnlessBuried
  BY IInvNoLoss
<1> QED
  BY <1>1, InductiveInvariant, PTL

(***************************************************************************)
(* A message whose tombstone write returned nil is not replayed.           *)
(***************************************************************************)
THEOREM AckedNeverReplayed == Spec => []AckedStaysGone
<1>1. IInv => AckedStaysGone
  BY IInvAcked
<1> QED
  BY <1>1, InductiveInvariant, PTL

(***************************************************************************)
(* No step of Compact changes what a replay returns; a crash during it     *)
(* leaves the synced records.                                              *)
(***************************************************************************)
THEOREM CompactionIsNeutral == Spec => CompactionNeutral
<1>1. ASSUME IInv, [Next]_vars
      PROVE  [(pc \in Compacting) => (KeepsReplay \/ CrashKeepsSynced)]_vars
  <2> SUFFICES ASSUME Next, pc \in Compacting PROVE KeepsReplay \/ CrashKeepsSynced
    BY <1>1
  <2>1. CASE CompactRename
    <3>1. file' = Replay(file)
      BY <1>1, <2>1 DEF IInv, CopyInv, CompactRename
    <3>2. file \in Seq(Records \cup {Torn})
      BY <1>1 DEF IInv, TypeOK
    <3> QED
      BY <3>1, <3>2, ReplayIdempotent DEF KeepsReplay
  <2>2. CASE Crash
    <3>1. /\ file' \in Seq(Records \cup {Torn}) /\ file \in Seq(Records \cup {Torn})
          /\ synced \in Nat /\ synced <= Len(file') /\ synced <= Len(file)
          /\ \A i \in 1..synced : file'[i] = file[i]
          /\ \A i \in 1..synced : file[i] \in Records \cup {Torn}
      BY <1>1, <2>2, CrashFile, FileFacts DEF IInv, TypeOK
    <3>2. /\ SubSeq(file, 1, synced) \in Seq(Records \cup {Torn})
          /\ Len(SubSeq(file, 1, synced)) = synced
          /\ \A i \in 1..synced : SubSeq(file, 1, synced)[i] = file[i]
      BY <3>1, SubSeqProperties
    <3>3. /\ SubSeq(file', 1, synced) \in Seq(Records \cup {Torn})
          /\ Len(SubSeq(file', 1, synced)) = synced
          /\ \A i \in 1..synced : SubSeq(file', 1, synced)[i] = file'[i]
      BY <3>1, SubSeqProperties
    <3>4. SubSeq(file', 1, synced) = SubSeq(file, 1, synced)
      BY <3>1, <3>2, <3>3, SeqEqual
    <3> QED
      BY <2>2, <3>4 DEF CrashKeepsSynced, Crash
  <2>3. CASE ~CompactRename /\ ~Crash
    <3>1. file' = file
      BY <2>3 DEF Next, Compacting, Write, WriteShort, Sync, SyncFails, CompactClose,
         CompactTruncate, CompactCopyOne, CompactSync, CompactVerify, CompactReopen,
         CompactFails, Close, Restart
    <3> QED
      BY <3>1 DEF KeepsReplay
  <2> QED
    BY <2>1, <2>2, <2>3
<1> QED
  BY <1>1, InductiveInvariant, PTL DEF Spec, CompactionNeutral
=============================================================================
