-------------------------------- MODULE Wal ---------------------------------
(***************************************************************************)
(* The write-ahead log of one queue: Writer (append, Compact, Close),      *)
(* Reader (replay at start-up) and the crashes they are written for.       *)
(*                                                                         *)
(* Writer.mu serialises append, Compact and Close, so their steps do not   *)
(* interleave with each other; a crash may fall between any two of them.   *)
(* A crash loses or tears whatever was written after the last Sync.        *)
(***************************************************************************)
EXTENDS WalRecords

CONSTANTS
  Ids,         \* message ids
  MaxRetry,    \* retry counts of the records written: 0..MaxRetry
  MaxWrites,   \* bound on the number of append calls
  MaxCrashes   \* bound on the number of crashes

ASSUME WalConstants == MaxRetry \in Nat /\ MaxWrites \in Nat /\ MaxCrashes \in Nat

VARIABLES
  file,        \* <queue>.wal
  synced,      \* how many of its records are on stable storage
  tmp,         \* <queue>.wal.tmp; <<>> stands for "no file" as well
  handle,      \* Writer.file: "open", "nil" after Compact closed it, or "closed"
  pc,          \* where the holder of Writer.mu is, or "down" between crash and restart
  cur,         \* the record append is writing
  confirmed,   \* history: records whose append returned nil
  killed,      \* history: ids for which a tombstone write was tried
  dead,        \* history: ids with a confirmed tombstone, not written again since
  buried,      \* history: a record was appended behind torn bytes
  writes, crashes

vars == <<file, synced, tmp, handle, pc, cur, confirmed, killed, dead, buried,
          writes, crashes>>
history == <<confirmed, killed, dead, buried>>

MessageRecords == {RecordMessage(id, r) : id \in Ids, r \in 0..MaxRetry}
TombstoneRecords == {RecordTombstone(id) : id \in Ids}
Records == MessageRecords \cup TombstoneRecords

Compacting == {"closed", "copying", "copied", "verified", "renamed"}

Init ==
  /\ file = <<>> /\ synced = 0 /\ tmp = <<>>
  /\ handle = "open" /\ pc = "idle" /\ cur = Torn
  /\ confirmed = {} /\ killed = {} /\ dead = {} /\ buried = FALSE
  /\ writes = 0 /\ crashes = 0

HasTorn(w) == \E i \in DOMAIN w : w[i].type = "torn"
-----------------------------------------------------------------------------
(* append: Write, then Sync; each may fail.  On a nil or closed file Write *)
(* returns an error and nothing changes.                                   *)

Write(rec) ==
  /\ pc = "idle" /\ handle = "open" /\ writes < MaxWrites
  /\ file' = Append(file, rec)
  /\ cur' = rec
  /\ pc' = "written"
  /\ writes' = writes + 1
  /\ killed' = IF rec.type = "tomb" THEN killed \cup {rec.id} ELSE killed
  /\ dead' = IF rec.type = "msg" THEN dead \ {rec.id} ELSE dead
  /\ buried' = (buried \/ HasTorn(file))
  /\ UNCHANGED <<synced, tmp, handle, confirmed, crashes>>

\* Write returned an error, or io.ErrShortWrite, after some of the bytes.
WriteShort ==
  /\ pc = "idle" /\ handle = "open" /\ writes < MaxWrites
  /\ file' = Append(file, Torn)
  /\ writes' = writes + 1
  /\ UNCHANGED <<synced, tmp, handle, pc, cur, crashes, history>>

\* Variant: append returns without Sync.
SyncSkipped ==
  /\ pc = "written"
  /\ pc' = "idle"
  /\ cur' = Torn
  /\ confirmed' = confirmed \cup {cur}
  /\ dead' = IF cur.type = "tomb" THEN dead \cup {cur.id} ELSE dead
  /\ UNCHANGED <<file, synced, tmp, handle, killed, buried, writes, crashes>>

Sync ==
  /\ pc = "written"
  /\ synced' = Len(file)
  /\ pc' = "idle"
  /\ cur' = Torn
  /\ confirmed' = confirmed \cup {cur}
  /\ dead' = IF cur.type = "tomb" THEN dead \cup {cur.id} ELSE dead
  /\ UNCHANGED <<file, tmp, handle, killed, buried, writes, crashes>>

\* The caller gets an error although the record is in the file.
SyncFails ==
  /\ pc = "written"
  /\ pc' = "idle"
  /\ cur' = Torn
  /\ UNCHANGED <<file, synced, tmp, handle, writes, crashes, history>>
-----------------------------------------------------------------------------
(* Compact: close, replay, copy the survivors to tmp, sync, verify, rename,*)
(* reopen.                                                                 *)

CompactClose ==
  /\ pc = "idle" /\ handle = "open"
  /\ handle' = "nil"
  /\ pc' = "closed"
  /\ UNCHANGED <<file, synced, tmp, cur, writes, crashes, history>>

\* Variant: tmp is opened without O_TRUNC.
CompactKeepTmp ==
  /\ pc = "closed"
  /\ pc' = "copying"
  /\ UNCHANGED <<file, synced, tmp, handle, cur, writes, crashes, history>>

\* writeCleanWAL opens tmp with O_TRUNC: what an earlier crash left is gone.
CompactTruncate ==
  /\ pc = "closed"
  /\ tmp' = <<>>
  /\ pc' = "copying"
  /\ UNCHANGED <<file, synced, handle, cur, writes, crashes, history>>

\* Variant: the raw records are copied instead of the replayed messages.
CompactCopyRaw ==
  /\ pc = "copying"
  /\ Len(tmp) < Len(Replay(file))
  /\ tmp' = Append(tmp, file[Len(tmp) + 1])
  /\ UNCHANGED <<file, synced, handle, pc, cur, writes, crashes, history>>

CompactCopyOne ==
  /\ pc = "copying"
  /\ Len(tmp) < Len(Replay(file))
  /\ tmp' = Append(tmp, Replay(file)[Len(tmp) + 1])
  /\ UNCHANGED <<file, synced, handle, pc, cur, writes, crashes, history>>

CompactSync ==
  /\ pc = "copying"
  /\ Len(tmp) = Len(Replay(file))
  /\ pc' = "copied"
  /\ UNCHANGED <<file, synced, tmp, handle, cur, writes, crashes, history>>

\* replayFilePath reads tmp the way Reader.Replay reads the file.
Verified == Replay(tmp)

CompactVerify ==
  /\ pc = "copied"
  /\ Len(Verified) = Len(Replay(file))
  /\ pc' = "verified"
  /\ UNCHANGED <<file, synced, tmp, handle, cur, writes, crashes, history>>

CompactRename ==
  /\ pc = "verified"
  /\ file' = tmp
  /\ synced' = Len(tmp)
  /\ tmp' = <<>>
  /\ pc' = "renamed"
  /\ UNCHANGED <<handle, cur, writes, crashes, history>>

\* OpenFile after the rename; its failure leaves Writer.file nil.
CompactReopen ==
  /\ pc = "renamed"
  /\ handle' \in {"open", "nil"}
  /\ pc' = "idle"
  /\ UNCHANGED <<file, synced, tmp, cur, writes, crashes, history>>

\* Replay (an old tmp stays), the copy, the verification or the rename failed: remove
\* tmp, reopenOriginal.
CompactFails ==
  /\ pc \in {"closed", "copying", "copied", "verified"}
  /\ tmp' \in IF pc = "closed" THEN {tmp, <<>>} ELSE {<<>>}
  /\ handle' \in {"open", "nil"}
  /\ pc' = "idle"
  /\ UNCHANGED <<file, synced, cur, writes, crashes, history>>

\* Also Compact's Close when it fails: the file is unusable, the field not nil.
Close ==
  /\ pc = "idle" /\ handle = "open"
  /\ handle' = "closed"
  /\ UNCHANGED <<file, synced, tmp, pc, cur, writes, crashes, history>>
-----------------------------------------------------------------------------
\* The synced records stay; of the others a prefix does, the next one perhaps torn.
Crash ==
  /\ pc # "down" /\ crashes < MaxCrashes
  /\ \E n \in synced..Len(file) :
       \/ file' = SubSeq(file, 1, n)
       \/ n < Len(file) /\ file' = Append(SubSeq(file, 1, n), Torn)
  /\ synced' = Len(file')
  /\ handle' = "nil"
  /\ pc' = "down"
  /\ cur' = Torn
  /\ crashes' = crashes + 1
  /\ UNCHANGED <<tmp, writes, history>>

\* initQueue: replay (the file is only read), then NewWriter with O_APPEND.
Restart ==
  /\ pc = "down"
  /\ handle' = "open"
  /\ pc' = "idle"
  /\ UNCHANGED <<file, synced, tmp, cur, writes, crashes, history>>

Next ==
  \/ \E rec \in Records : Write(rec)
  \/ WriteShort \/ Sync \/ SyncFails
  \/ CompactClose \/ CompactTruncate \/ CompactCopyOne \/ CompactSync
  \/ CompactVerify \/ CompactRename \/ CompactReopen \/ CompactFails
  \/ Close \/ Crash \/ Restart

Spec == Init /\ [][Next]_vars
-----------------------------------------------------------------------------
TypeOK ==
  /\ file \in Seq(Records \cup {Torn})
  /\ synced \in 0..Len(file)
  /\ tmp \in Seq(MessageRecords)
  /\ handle \in {"open", "nil", "closed"}
  /\ pc \in {"idle", "written", "down"} \cup Compacting
  /\ cur \in Records \cup {Torn}
  /\ pc = "written" => cur \in Records
  /\ confirmed \subseteq Records
  /\ killed \subseteq Ids /\ dead \subseteq Ids
  /\ buried \in BOOLEAN
  /\ writes \in 0..MaxWrites /\ crashes \in 0..MaxCrashes

Replayed(rec) == \E k \in DOMAIN Replay(file) : Replay(file)[k] = rec

(***************************************************************************)
(* A message whose append returned nil, and for which no tombstone was     *)
(* tried, comes back from a replay at any later moment, through crashes,   *)
(* failed writes and compactions, as long as no record was ever appended   *)
(* behind torn bytes.                                                      *)
(***************************************************************************)
NoLossUnlessBuried ==
  ~buried => \A rec \in confirmed :
               rec.type = "msg" /\ rec.id \notin killed => Replayed(rec)

(***************************************************************************)
(* docs/queue-and-topic.md: "You can never lose a message that was         *)
(* successfully written to the WAL."  No proviso about torn bytes.         *)
(***************************************************************************)
NeverLoseWritten ==
  \A rec \in confirmed : rec.type = "msg" /\ rec.id \notin killed => Replayed(rec)

(***************************************************************************)
(* An acknowledged message stays gone: once WriteTombstone returned nil no *)
(* replay gives the id back, unless the id is written again or records     *)
(* went behind torn bytes.                                                 *)
(***************************************************************************)
AckedStaysGone ==
  ~buried => \A k \in DOMAIN Replay(file) : Replay(file)[k].id \notin dead

KeepsReplay == Replay(file') = Replay(file)
CrashKeepsSynced == pc' = "down" /\ SubSeq(file', 1, synced) = SubSeq(file, 1, synced)

(***************************************************************************)
(* Compaction never changes what a replay returns, at whichever step it    *)
(* stands, succeeds or fails ("a crash during compaction cannot corrupt    *)
(* the WAL": a crash during it loses no more than a crash before it).      *)
(***************************************************************************)
CompactionNeutral == [][(pc \in Compacting) => (KeepsReplay \/ CrashKeepsSynced)]_vars
=============================================================================
