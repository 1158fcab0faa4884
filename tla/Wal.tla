-------------------------------- MODULE Wal ---------------------------------
(***************************************************************************)
(* The write-ahead log file (wal/wal.rs): a write buffer in front of a     *)
(* file that is never truncated, the scan that finds its end on opening,   *)
(* and the replay iterators, with failed writes, kills and power losses.   *)
(*                                                                         *)
(* The file is a sequence of cells <<n, i>>: the i-th cell of record n.    *)
(* The first HeaderSize cells of a record are its header, the last         *)
(* TrailerSize its trailer.  Checksums and magic numbers become the test   *)
(* that the cells of one record stand in order.  `cursor` is the offset    *)
(* the operating system keeps: write_all writes there, whatever file_pos   *)
(* says, and a handle and its clone (replay_ref) share it.                 *)
(***************************************************************************)
EXTENDS Integers, SequencesExt

CONSTANTS
  Payloads,          \* payload lengths of the records clients append
  BufCap,            \* DEFAULT_BUFFER_SIZE
  MaxRecs,           \* bound on the records ever appended
  MaxTroubles,       \* bound on kills, power losses, failed writes and fsyncs
  Cuts,              \* numbers of cells after which a write may be cut short
  AppendAfterReplay  \* clients append after replay_ref moved the cursor

HeaderSize  == 2
TrailerSize == 1

ASSUME WalAssumption ==
  /\ Payloads \subseteq Nat \ {0} /\ Cuts \subseteq Nat /\ 0 \in Cuts
  /\ {BufCap, MaxRecs, MaxTroubles} \subseteq Nat
  /\ AppendAfterReplay \in BOOLEAN

VARIABLES
  file, disk,   \* the file as the OS shows it, and what is on stable storage
  cursor,       \* the offset shared by the handle and its clones
  buffer,       \* buffer[..buffer_pos]
  lsn,          \* current_lsn
  filePos,      \* file_pos
  st,           \* "Open", "Closed", or "None": no handle
  readable,     \* opened read-write (open), not write-only (create)
  iter, got,    \* the replay iterator, and the records it has yielded
  \* history: where the last write ended, the payload length of each record,
  \* what the client of this handle believes logged, what a successful sync
  \* covered, whether a write failed half way, and counts
  tail, sizes, log, acked, damaged, troubles

fileVars   == <<file, disk, cursor>>
handleVars == <<buffer, lsn, filePos, st, readable>>
iterVars   == <<iter, got>>
histVars   == <<tail, sizes, log, acked, damaged, troubles>>
vars == <<fileVars, handleVars, iterVars, histVars>>

Hole   == <<0, 0>>          \* a cell that never reached the disk
NoIter == [live |-> FALSE]

Total(n)    == HeaderSize + sizes[n] + TrailerSize
Cells(n, p) == [i \in 1 .. HeaderSize + p + TrailerSize |-> <<n, i>>]

(* write_all at the offset c: what stood there is overwritten.             *)
Write(f, c, data) ==
  [i \in 1 .. IF c + Len(data) > Len(f) THEN c + Len(data) ELSE Len(f) |->
     IF c < i /\ i <= c + Len(data) THEN data[i - c] ELSE f[i]]

-----------------------------------------------------------------------------
(* Reading: what stands at offset p of the first `size` cells of f.        *)
HeaderOk(f, p) == \E n \in DOMAIN sizes :
                    \A i \in 1 .. HeaderSize : f[p + i] = <<n, i>>
At(f, p)       == f[p + 1][1]
PayloadOk(f, p) == \A i \in HeaderSize + 1 .. HeaderSize + sizes[At(f, p)] :
                     f[p + i] = <<At(f, p), i>>

Found(f, p, size) ==
  IF p + HeaderSize > size THEN "short"
  ELSE IF ~HeaderOk(f, p) THEN "badHeader"
  ELSE IF p + Total(At(f, p)) > size THEN "short"
  ELSE IF ~PayloadOk(f, p) THEN "badPayload"
  ELSE IF f[p + Total(At(f, p))] # <<At(f, p), Total(At(f, p))>> THEN "badTrailer"
  ELSE "record"

(* scan_highest_lsn: the records up to the first short one, and where it   *)
(* begins; an error (ok = FALSE) at anything that is not a record.         *)
Scan(f) ==
  LET from[p \in 0 .. Len(f)] ==
        CASE Found(f, p, Len(f)) = "record" ->
               LET rest == from[p + Total(At(f, p))]
               IN  [rest EXCEPT !.recs = <<At(f, p)>> \o @]
          [] OTHER -> [recs |-> <<>>, pos |-> p,
                       ok |-> Found(f, p, Len(f)) = "short"]
  IN  from[0]

(* The offset at which read_next_commit leaves the file.                   *)
ReadTo(f, p, size) ==
  LET found == Found(f, p, size)
  IN  IF found \in {"record", "badTrailer"} THEN p + Total(At(f, p))
      ELSE IF found = "badPayload" THEN p + HeaderSize + sizes[At(f, p)]
      ELSE IF p + HeaderSize <= size THEN p + HeaderSize
      ELSE cursor

-----------------------------------------------------------------------------
(* Wal::create made the file; the handle is write-only.                    *)
Init ==
  /\ file = <<>> /\ disk = <<>> /\ cursor = 0
  /\ buffer = <<>> /\ lsn = 0 /\ filePos = 0 /\ st = "Open" /\ readable = FALSE
  /\ iter = NoIter /\ got = <<>> /\ tail = 0
  /\ sizes = <<>> /\ log = <<>> /\ acked = <<>> /\ damaged = FALSE
  /\ troubles = 0

(* flush_buffer, followed by `more` when a record bypasses the buffer.     *)
FlushAnd(more) ==
  /\ file'    = Write(file, cursor, buffer \o more)
  /\ cursor'  = cursor + Len(buffer \o more)
  /\ tail'    = IF buffer \o more = <<>> THEN tail ELSE cursor'
  /\ filePos' = filePos + Len(buffer \o more)

(* No clone of the handle moves the offset, now or before the next write.  *)
Undisturbed == cursor = tail /\ ~iter.live

NewRecord(p) ==
  /\ st = "Open" /\ Len(sizes) < MaxRecs
  /\ AppendAfterReplay \/ Undisturbed
  /\ sizes' = Append(sizes, p)

AppendBuffered_NoLimit(p) ==
  LET cells == Cells(Len(sizes) + 1, p)
  IN  /\ NewRecord(p)
      /\ Len(cells) <= BufCap
      /\ buffer' = buffer \o cells
      /\ lsn' = lsn + 1
      /\ log' = Append(log, Len(sizes) + 1)
      /\ UNCHANGED <<fileVars, filePos, st, readable, iterVars, tail, acked, damaged,
                     troubles>>

(* append_commit_record of a record that fits the buffer, which is flushed *)
(* first when it is too full.                                              *)
AppendBuffered(p) ==
  LET cells == Cells(Len(sizes) + 1, p)
  IN  /\ NewRecord(p)
      /\ Len(cells) <= BufCap
      /\ IF Len(buffer \o cells) > BufCap
           THEN FlushAnd(<<>>) /\ buffer' = cells
           ELSE UNCHANGED <<file, cursor, tail, filePos>> /\ buffer' = buffer \o cells
      /\ lsn' = lsn + 1
      /\ log' = Append(log, Len(sizes) + 1)
      /\ UNCHANGED <<disk, st, readable, iterVars, acked, damaged, troubles>>

(* append_commit_record through write_large_record: the buffer, then the   *)
(* record, go to the file; current_lsn stays.                              *)
AppendLarge(p) ==
  LET cells == Cells(Len(sizes) + 1, p)
  IN  /\ NewRecord(p)
      /\ Len(cells) > BufCap
      /\ FlushAnd(cells) /\ buffer' = <<>>
      /\ log' = Append(log, Len(sizes) + 1)
      /\ UNCHANGED <<disk, lsn, st, readable, iterVars, acked, damaged, troubles>>

Sync_NoFlush ==
  /\ st # "None"
  /\ disk' = file
  /\ acked' = IF damaged THEN acked ELSE log
  /\ UNCHANGED <<file, cursor, handleVars, iterVars, tail, sizes, log, damaged,
                 troubles>>

(* Wal::sync.  After a failed write the handle promises nothing new.       *)
Sync ==
  /\ st # "None"
  /\ FlushAnd(<<>>) /\ buffer' = <<>>
  /\ disk' = file'
  /\ acked' = IF damaged THEN acked ELSE log
  /\ UNCHANGED <<lsn, st, readable, iterVars, sizes, log, damaged, troubles>>

(* Wal::sync whose fsync fails after the flush.                            *)
SyncFails ==
  /\ st # "None" /\ troubles < MaxTroubles
  /\ FlushAnd(<<>>) /\ buffer' = <<>>
  /\ troubles' = troubles + 1
  /\ UNCHANGED <<disk, lsn, st, readable, iterVars, sizes, log, acked, damaged>>

(* write_all fails after n cells, in the flush of append, sync or close    *)
(* (p = 0): buffer_pos stays, a retry writes the whole buffer again behind *)
(* the n cells.  Or in write_large_record, after the flush (p > 0).        *)
WriteFails(p, n) ==
  LET data == IF p = 0 THEN buffer ELSE buffer \o Cells(Len(sizes) + 1, p)
      kept == IF p = 0 THEN 0 ELSE Len(buffer)
  IN  /\ st = "Open" /\ troubles < MaxTroubles
      /\ IF p = 0 THEN UNCHANGED sizes ELSE NewRecord(p)
      /\ kept <= n /\ n < Len(data)
      /\ file' = Write(file, cursor, SubSeq(data, 1, n))
      /\ cursor' = cursor + n /\ tail' = cursor'
      /\ filePos' = filePos + kept
      /\ buffer' = IF p = 0 THEN buffer ELSE <<>>
      /\ damaged' = (damaged \/ n > kept)
      /\ troubles' = troubles + 1
      /\ UNCHANGED <<disk, lsn, st, readable, iterVars, log, acked>>

Close_NoFlush ==
  /\ st = "Open"
  /\ disk' = file /\ buffer' = <<>>
  /\ st' = "Closed"
  /\ UNCHANGED <<file, cursor, lsn, filePos, readable, iterVars, histVars>>

(* Wal::close: flush, an fsync whose result is ignored, Closed.            *)
Close ==
  /\ st = "Open"
  /\ FlushAnd(<<>>) /\ buffer' = <<>>
  /\ disk' \in {file'} \cup (IF troubles < MaxTroubles THEN {disk} ELSE {})
  /\ st' = "Closed"
  /\ UNCHANGED <<lsn, readable, iterVars, sizes, log, acked, damaged, troubles>>

(* There is no handle any more. *)
Forget == /\ buffer' = <<>> /\ st' = "None" /\ readable' = FALSE
          /\ cursor' = 0 /\ tail' = 0 /\ lsn' = 0 /\ filePos' = 0 /\ log' = <<>>

(* The handle is dropped after close; Drop of an open one closes it first. *)
Drop ==
  /\ st = "Closed"
  /\ Forget
  /\ iter.live => iter.owner
  /\ UNCHANGED <<file, disk, iterVars, sizes, acked, damaged, troubles>>

(* Wal::open: the end of the last whole record becomes the append          *)
(* position; the file keeps what stands behind it.  What follows a write   *)
(* that failed half way may hold whole records, which a later append can   *)
(* bring back, and so may the disk while it holds other cells: that file   *)
(* stays damaged.                                                          *)
Open ==
  /\ st = "None" /\ Scan(file).ok /\ ~iter.live
  /\ lsn' = Len(Scan(file).recs) /\ log' = Scan(file).recs
  /\ filePos' = Scan(file).pos /\ cursor' = Scan(file).pos /\ tail' = cursor'
  /\ buffer' = <<>> /\ st' = "Open" /\ readable' = TRUE
  /\ damaged' = (damaged /\ (Scan(file).pos < Len(file) \/ disk # file))
  /\ UNCHANGED <<file, disk, iterVars, sizes, acked, troubles>>

-----------------------------------------------------------------------------
(* WalReplayIterator::new; `promised` is what was synced by then.          *)
NewIter(owner) ==
  /\ ~iter.live
  /\ iter' = [live |-> TRUE, owner |-> owner, readable |-> readable, pos |-> 0,
              size |-> Len(file'), done |-> FALSE, promised |-> acked]
  /\ got' = <<>>

(* replay_ref clones the handle, with its offset, and seeks to 0.          *)
ReplayRef ==
  /\ st # "None" /\ buffer = <<>>
  /\ UNCHANGED file
  /\ NewIter(FALSE)
  /\ cursor' = 0
  /\ UNCHANGED <<disk, handleVars, histVars>>

(* replay flushes and consumes the handle.                                 *)
Replay ==
  /\ st # "None"
  /\ file' = Write(file, cursor, buffer)
  /\ NewIter(TRUE)
  /\ Forget
  /\ UNCHANGED <<disk, sizes, acked, damaged, troubles>>

(* Iterator::next around read_next_commit, which found `found` and leaves  *)
(* the iterator as `stopped` when that is no record.  On a write-only      *)
(* handle the read fails and next returns that error, every time: no step. *)
NextBy(found, stopped) ==
  /\ iter.live /\ ~iter.done
  /\ iter.pos < iter.size
  /\ iter.readable \/ iter.pos + HeaderSize > iter.size
  /\ IF iter.owner THEN UNCHANGED cursor
     ELSE cursor' = ReadTo(file, iter.pos, iter.size)
  /\ IF found = "record"
       THEN /\ iter' = [iter EXCEPT !.pos = @ + Total(At(file, iter.pos))]
            /\ got' = Append(got, At(file, iter.pos))
       ELSE iter' = stopped /\ UNCHANGED got
  /\ UNCHANGED <<file, disk, handleVars, histVars>>

Stopped == [iter EXCEPT !.done = TRUE]

IterNext_NeverDone == NextBy(Found(file, iter.pos, iter.size), iter)
IterNext_ExactFit ==
  NextBy(IF iter.pos + Total(At(file, iter.pos)) >= iter.size THEN "short"
         ELSE Found(file, iter.pos, iter.size), Stopped)

(* At anything but a record the iteration is over.                         *)
IterNext == NextBy(Found(file, iter.pos, iter.size), Stopped)

(* Iterator::next at the end of the file.                                  *)
IterEnd ==
  /\ iter.live /\ ~iter.done /\ iter.pos >= iter.size
  /\ iter' = Stopped
  /\ UNCHANGED <<got, fileVars, handleVars, histVars>>

DropIter ==
  /\ iter.live
  /\ iter' = NoIter /\ got' = <<>>
  /\ UNCHANGED <<fileVars, handleVars, histVars>>

-----------------------------------------------------------------------------
LoseProcess ==
  /\ troubles < MaxTroubles /\ troubles' = troubles + 1
  /\ Forget /\ iter' = NoIter /\ got' = <<>>
  /\ UNCHANGED <<acked, damaged>>

(* The process is killed, perhaps after n cells of a write.                *)
Kill(p, n) ==
  LET data == IF p = 0 THEN buffer ELSE buffer \o Cells(Len(sizes) + 1, p)
  IN  /\ st # "None" \/ iter.live
      /\ IF p = 0 THEN UNCHANGED sizes ELSE NewRecord(p)
      /\ n = 0 \/ n < Len(data)
      /\ p # 0 => n > Len(buffer)
      /\ file' = Write(file, cursor, SubSeq(data, 1, n))
      /\ LoseProcess
      /\ UNCHANGED disk

(* Power loss.  Of the cells that differ from the disk, a prefix survives, *)
(* or all but one.                                                         *)
PowerLoss ==
  LET dirty == {i \in DOMAIN file : i > Len(disk) \/ disk[i] # file[i]}
      losses == {{i \in dirty : i > n} : n \in {0} \cup dirty}
                  \cup {{i} : i \in dirty}
      old(i) == IF i <= Len(disk) THEN disk[i] ELSE Hole
      end(lost) == CHOOSE n \in Len(disk) .. Len(file) :
                     /\ \A i \in n + 1 .. Len(file) : i \in lost
                     /\ n = Len(disk) \/ n \notin lost
  IN  /\ LoseProcess
      /\ \E lost \in losses :
           file' = [i \in 1 .. end(lost) |-> IF i \in lost THEN old(i) ELSE file[i]]
      /\ disk' = file'
      /\ UNCHANGED sizes

-----------------------------------------------------------------------------
Large == {p \in Payloads : HeaderSize + p + TrailerSize > BufCap}

Next ==
  \/ \E p \in Payloads : AppendBuffered(p)
  \/ \E p \in Payloads : AppendLarge(p)
  \/ Sync \/ SyncFails
  \/ \E p \in {0} \cup Large, n \in Cuts : WriteFails(p, n)
  \/ Close \/ Drop \/ Open
  \/ ReplayRef \/ Replay \/ IterNext \/ IterEnd \/ DropIter
  \/ \E p \in {0} \cup Large, n \in Cuts : Kill(p, n)
  \/ PowerLoss

Spec == Init /\ [][Next]_vars

(* A loop over the iterator keeps calling next.                            *)
FairSpec == Spec /\ WF_vars(IterNext \/ IterEnd)

-----------------------------------------------------------------------------
(***************************************************************************)
(* Properties                                                              *)
(***************************************************************************)
Record == 1 .. MaxRecs
Cell   == Record \X (Nat \ {0}) \cup {Hole}
Iterator == [live : {TRUE}, owner : BOOLEAN, readable : BOOLEAN, pos : Nat, size : Nat,
             done : BOOLEAN, promised : Seq(Record)]

(* Every variable holds a value of its kind; the buffer never overflows,   *)
(* the offset never stands behind the end of the file, and no power loss   *)
(* can leave more than the file holds.                                     *)
TypeOK ==
  /\ file \in Seq(Cell) /\ disk \in Seq(Cell) /\ Len(disk) <= Len(file)
  /\ buffer \in Seq(Cell) /\ Len(buffer) <= BufCap
  /\ cursor \in 0 .. Len(file) /\ tail \in 0 .. Len(file)
  /\ lsn \in Nat /\ filePos \in Nat
  /\ st \in {"Open", "Closed", "None"} /\ readable \in BOOLEAN
  /\ iter \in {NoIter} \cup Iterator /\ (iter.live => iter.size <= Len(file))
  /\ sizes \in Seq(Payloads) /\ Len(sizes) <= MaxRecs
  /\ got \in Seq(Record) /\ log \in Seq(Record) /\ acked \in Seq(Record)
  /\ damaged \in BOOLEAN /\ troubles \in 0 .. MaxTroubles

(* The file as it will be once the buffer is flushed.                      *)
Image == IF buffer = <<>> THEN file ELSE Write(file, cursor, buffer)

(* The log file implements a durable log, whose entries are the records a  *)
(* scan finds: records are neither lost, reordered, doubled nor brought    *)
(* back from a torn tail, and what a sync covered survives every kill,     *)
(* power loss and failed write, although the file is never truncated.      *)
Durable == INSTANCE DurableLog WITH
             EntryIds <- Record,
             entries  <- Scan(Image).recs,
             stable   <- Len(acked)
ImplementsDurableLog == Durable!Spec

(* "Provides atomicity and durability guarantees through write-ahead       *)
(* logging" (wal.rs): the records a successful sync covered are the first  *)
(* ones a scan of the file finds, in order, and so on stable storage.      *)
AckedReadable == /\ IsPrefix(acked, Scan(file).recs)
                 /\ IsPrefix(acked, Scan(disk).recs)

(* An iteration that ended on its own has yielded every record synced      *)
(* before it began, in order.                                              *)
ReplayYieldsAcked ==
  iter.live /\ iter.readable => (iter.done => IsPrefix(iter.promised, got))

(* A loop over a readable iterator ends: at the end of the file, at a torn *)
(* tail or at the first damaged record.                                    *)
ReplayEnds == iter.live /\ iter.readable ~> (~iter.live \/ iter.done)
=============================================================================
