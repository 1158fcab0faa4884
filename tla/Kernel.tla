------------------------------- MODULE Kernel -------------------------------
(***************************************************************************)
(* The transaction kernel of the Rust port (northstar-core): the Db handle *)
(* (db/mod.rs), WriteTxn / ReadTxn (txn/), the snapshot registry (snap/)   *)
(* and the commit path through the write-ahead log and the pager's two     *)
(* meta pages, with power loss, process kill and I/O errors.               *)
(*                                                                         *)
(* The B+tree is one leaf page (page 2, PageId::FIRST_DATA), which the     *)
(* code updates in place: an entry holds the last value and the id of the  *)
(* transaction that wrote it.  Within one leaf the root page never moves,  *)
(* so a snapshot is its transaction id.                                    *)
(*                                                                         *)
(* Every helper of Db takes the RwLock on its own, so a commit is several  *)
(* atomic steps: prepare, apply_mutations, register_snapshot.  `lock` is   *)
(* held across states only while the meta pages are being synced, where a  *)
(* crash can fall.                                                         *)
(***************************************************************************)
EXTENDS Integers

CONSTANTS
  Key, Value,     \* keys and values clients use
  Absent,         \* "no value": a deleted or never written key
  Untouched,      \* a key the transaction has no mutation for
  Writer, Reader, \* slots holding a WriteTxn, a ReadTxn or a Snapshot
  NoOne,          \* the lock is free / the slot holds no snapshot
  MaxTxn,         \* bound on transaction ids
  MaxOps,         \* MAX_OPERATIONS_PER_COMMIT
  MaxRefs,        \* bound on a snapshot's reference count
  MaxCrashes,     \* bound on power losses and kills
  Exclusive,      \* clients begin a write only when none is in progress
  IoFaults,       \* page writes and fsyncs may fail
  CloseCalls      \* some clone of the handle may call Db::close

ASSUME BoundsAssumption ==
  /\ MaxTxn \in Nat /\ MaxOps \in Nat /\ MaxRefs \in Nat /\ MaxCrashes \in Nat
  /\ Exclusive \in BOOLEAN /\ IoFaults \in BOOLEAN /\ CloseCalls \in BOOLEAN

ASSUME NamesAssumption ==
  /\ Absent \notin Value /\ Untouched \notin Value /\ Absent # Untouched
  /\ NoOne \notin Writer /\ NoOne \notin 0 .. MaxTxn

VARIABLES
  \* DbInner and the registry it owns: volatile
  up,         \* a process has the database open
  counter,    \* DbInner.current_txn_id: the last id handed out
  current,    \* RegistryData.current_txn_id: the last id registered
  snapshots,  \* the keys of RegistryData.snapshots
  refs,       \* RegistryData.ref_counts
  closed,     \* DbInner.is_closed
  walClosed,  \* Wal.state is Closed
  lock,       \* the holder of the RwLock, when held across states
  \* one WriteTxn per writer
  id, state, pc, buf, ops,
  \* the snapshot of each ReadTxn or Snapshot handle
  snap,
  \* the database file as the OS sees it, and what a power loss may leave
  leaf, metaA, metaB, survLeaf, survA, survB,
  \* synced records of the write-ahead log
  wal,
  \* history: the committed contents after each registered id, the highest
  \* id whose commit returned Ok, the crashes so far
  hist, acked, crashes

dbVars   == <<counter, current, snapshots, refs, closed, walClosed>>
txnVars  == <<id, state, pc, buf, ops>>
fileVars == <<leaf, metaA, metaB, survLeaf, survA, survB>>
vars     == <<up, dbVars, lock, txnVars, snap, fileVars, wal, hist, acked, crashes>>

Txn     == 0 .. MaxTxn
Torn    == -1                       \* a meta page that fails its checksum
Meta    == Txn \cup {Torn}
NoEntry == [val |-> Absent, lsn |-> 0]
Entry   == [val : Value \cup {Absent}, lsn : Txn]
Leaf    == [Key -> Entry]
Change  == Value \cup {Absent, Untouched}   \* Put v, Delete, nothing
Record  == [txn : Txn, buf : [Key -> Change]]

(* Variants of this section's and the following definitions, each with one *)
(* plausible slip, precede the definition they vary; nothing uses them in  *)
(* the specification: they show that the properties can tell.              *)
View_Strict(s) == [k \in Key |-> IF leaf[k].lsn < s THEN leaf[k].val ELSE Absent]
View_NoLsn(s)  == [k \in Key |-> leaf[k].val]

-----------------------------------------------------------------------------
(* Reading: BTree::get returns the entry only when its LSN is not above    *)
(* the snapshot's transaction id.                                          *)
View(s) == [k \in Key |-> IF leaf[k].lsn <= s THEN leaf[k].val ELSE Absent]

(* The leaf after the mutations of the keys in S were applied in place.    *)
Overlay(page, b, t, S) ==
  [k \in Key |-> IF k \notin S \/ b[k] = Untouched THEN page[k]
                 ELSE IF b[k] = Absent THEN NoEntry
                 ELSE [val |-> b[k], lsn |-> t]]

(* The contents the database ought to have after the mutations b.          *)
Effect(contents, b) ==
  [k \in Key |-> IF b[k] = Untouched THEN contents[k] ELSE b[k]]

(* choose_best_meta: the higher of the two intact ids, or the intact one.  *)
BestMeta(a, b) == IF a = Torn THEN b
                  ELSE IF b = Torn THEN a
                  ELSE IF a > b THEN a ELSE b

Empty   == [k \in Key |-> Untouched]
Live(w) == pc[w] \notin {"none", "ok", "err"}   \* the handle exists
Free    == up /\ lock = NoOne                   \* the RwLock can be taken
Synced  == /\ survLeaf' = {leaf'} /\ survA' = {metaA'} /\ survB' = {metaB'}

-----------------------------------------------------------------------------
Init ==
  /\ up = TRUE /\ counter = 0 /\ current = 0 /\ snapshots = {0}
  /\ refs = [t \in Txn |-> 0] /\ closed = FALSE /\ walClosed = FALSE
  /\ lock = NoOne
  /\ id = [w \in Writer |-> 0] /\ state = [w \in Writer |-> "Active"]
  /\ pc = [w \in Writer |-> "none"] /\ buf = [w \in Writer |-> Empty]
  /\ ops = [w \in Writer |-> 0]
  /\ snap = [r \in Reader |-> NoOne]
  /\ leaf = [k \in Key |-> NoEntry] /\ metaA = 0 /\ metaB = 0
  /\ survLeaf = {leaf} /\ survA = {0} /\ survB = {0}
  /\ wal = {}
  /\ hist = [t \in Txn |-> [k \in Key |-> Absent]]
  /\ acked = 0 /\ crashes = 0

-----------------------------------------------------------------------------
(* Db::begin_write: the next id, and no check for another writer.          *)
BeginWrite(w) ==
  /\ Free /\ ~closed /\ counter < MaxTxn
  /\ ~Live(w) /\ (Exclusive => \A x \in Writer : ~Live(x))
  /\ counter' = counter + 1
  /\ id' = [id EXCEPT ![w] = counter + 1]
  /\ state' = [state EXCEPT ![w] = "Active"]
  /\ pc' = [pc EXCEPT ![w] = "client"]
  /\ buf' = [buf EXCEPT ![w] = Empty]
  /\ ops' = [ops EXCEPT ![w] = 0]
  /\ UNCHANGED <<up, current, snapshots, refs, closed, walClosed, lock, snap,
                 fileVars, wal, hist, acked, crashes>>

Mutate_Unlimited(w, k, c) ==
  /\ up /\ pc[w] = "client" /\ state[w] = "Active"
  /\ buf' = [buf EXCEPT ![w][k] = c]
  /\ ops' = [ops EXCEPT ![w] = @ + 1]
  /\ UNCHANGED <<up, dbVars, lock, id, state, pc, snap, fileVars, wal, hist,
                 acked, crashes>>

(* TransactionContext::put and ::delete.  Both the lookup (find_mutation)  *)
(* and the application let the last mutation of a key win, so the ordered  *)
(* list is kept as the last one per key and a count.                       *)
Mutate(w, k, c) ==
  /\ up /\ pc[w] = "client" /\ state[w] = "Active" /\ ops[w] < MaxOps
  /\ buf' = [buf EXCEPT ![w][k] = c]
  /\ ops' = [ops EXCEPT ![w] = @ + 1]
  /\ UNCHANGED <<up, dbVars, lock, id, state, pc, snap, fileVars, wal, hist,
                 acked, crashes>>

Put(w, k, v) == Mutate(w, k, v)
Delete(w, k) == Mutate(w, k, Absent)

(* WriteTxn::prepare: Preparing first, then the commit record is appended  *)
(* and synced under the lock.  Called by the client (next = "client") or   *)
(* by commit (next = "apply").                                             *)
Prepare(w, next) ==
  /\ Free /\ pc[w] = "client" /\ state[w] = "Active" /\ ops[w] > 0
  /\ ~walClosed
  /\ state' = [state EXCEPT ![w] = "Preparing"]
  /\ pc' = [pc EXCEPT ![w] = next]
  /\ wal' = wal \cup {[txn |-> id[w], buf |-> buf[w]]}
  /\ UNCHANGED <<up, dbVars, lock, id, buf, ops, snap, fileVars, hist, acked,
                 crashes>>

(* The WAL refuses (it is closed, or an I/O error, which may come after    *)
(* the record reached the disk): the error is returned after the           *)
(* transition to Preparing.  An explicit prepare leaves the handle with    *)
(* the client, commit consumes it.                                         *)
PrepareFails(w, next) ==
  /\ Free /\ pc[w] = "client" /\ state[w] = "Active" /\ ops[w] > 0
  /\ \/ walClosed /\ UNCHANGED wal
     \/ /\ ~walClosed /\ IoFaults
        /\ wal' \in {wal, wal \cup {[txn |-> id[w], buf |-> buf[w]]}}
  /\ state' = [state EXCEPT ![w] = "Preparing"]
  /\ pc' = [pc EXCEPT ![w] = IF next = "client" THEN "client" ELSE "err"]
  /\ UNCHANGED <<up, dbVars, lock, id, buf, ops, snap, fileVars, hist, acked,
                 crashes>>

(* WriteTxn::commit without mutations: prepare returns without leaving     *)
(* Active, from which transition_to_committed is refused.                  *)
CommitEmpty(w) ==
  /\ up /\ pc[w] = "client" /\ state[w] = "Active" /\ ops[w] = 0
  /\ pc' = [pc EXCEPT ![w] = "err"]
  /\ UNCHANGED <<up, dbVars, lock, id, state, buf, ops, snap, fileVars, wal,
                 hist, acked, crashes>>

ToApply_Unprepared(w) == pc[w] = "apply" \/ (pc[w] = "client" /\ ops[w] > 0)

(* The transaction is ready for commit's apply step: prepared by commit    *)
(* itself, or earlier by the client.                                       *)
ToApply(w) == pc[w] = "apply" \/ (pc[w] = "client" /\ state[w] = "Preparing")

(* Db::apply_mutations: each mutation rewrites the leaf, so a power loss   *)
(* before the next sync may leave the page with any part of them.          *)
Apply(w) ==
  /\ Free /\ ToApply(w)
  /\ leaf' = Overlay(leaf, buf[w], id[w], Key)
  /\ survLeaf' = survLeaf \cup {Overlay(leaf, buf[w], id[w], S) : S \in SUBSET Key}
  /\ pc' = [pc EXCEPT ![w] = "register"]
  /\ UNCHANGED <<up, dbVars, lock, id, state, buf, ops, snap, metaA, metaB,
                 survA, survB, wal, hist, acked, crashes>>

(* A page write fails after some of the mutations: commit returns the      *)
(* error, and nothing undoes the mutations already applied.                *)
ApplyFails(w) ==
  /\ IoFaults /\ Free /\ ToApply(w)
  /\ \E S \in SUBSET Key :
       /\ S # Key
       /\ leaf' = Overlay(leaf, buf[w], id[w], S)
       /\ survLeaf' = survLeaf \cup {Overlay(leaf, buf[w], id[w], R) : R \in SUBSET S}
  /\ pc' = [pc EXCEPT ![w] = "err"]
  /\ UNCHANGED <<up, dbVars, lock, id, state, buf, ops, snap, metaA, metaB,
                 survA, survB, wal, hist, acked, crashes>>

Advance_AnyOrder(w) ==
  /\ id[w] \notin snapshots
  /\ snapshots' = snapshots \cup {id[w]}
  /\ refs' = [refs EXCEPT ![id[w]] = 0]
  /\ current' = id[w]
  /\ hist' = [hist EXCEPT ![id[w]] = Effect(hist[current], buf[w])]

(* SnapshotRegistry::register_snapshot: a new id above the current one.    *)
Advance(w) ==
  /\ id[w] \notin snapshots /\ id[w] > current
  /\ snapshots' = snapshots \cup {id[w]}
  /\ refs' = [refs EXCEPT ![id[w]] = 0]
  /\ current' = id[w]
  /\ hist' = [hist EXCEPT ![id[w]] = Effect(hist[current], buf[w])]

(* Db::register_snapshot up to the fsync: the registry advances in memory, *)
(* then Pager::commit_transaction writes both meta pages.                  *)
Register(w) ==
  /\ Free /\ pc[w] = "register" /\ Advance(w)
  /\ metaA' = id[w] /\ survA' = survA \cup {id[w], Torn}
  /\ metaB' = id[w] /\ survB' = survB \cup {id[w], Torn}
  /\ lock' = w
  /\ pc' = [pc EXCEPT ![w] = "sync"]
  /\ UNCHANGED <<up, counter, closed, walClosed, id, state, buf, ops, snap,
                 leaf, survLeaf, wal, acked, crashes>>

(* Writing a meta page fails, before or after part of it was written: the  *)
(* error is returned and the registry stays advanced.                      *)
RegisterFails(w) ==
  /\ IoFaults /\ Free /\ pc[w] = "register" /\ Advance(w)
  /\ \/ metaA' \in {metaA, Torn} /\ UNCHANGED <<metaB, survB>>
     \/ /\ metaA' = id[w]
        /\ metaB' \in {metaB, Torn} /\ survB' = survB \cup {metaB', id[w], Torn}
  /\ survA' = survA \cup {metaA', id[w], Torn}
  /\ pc' = [pc EXCEPT ![w] = "err"]
  /\ UNCHANGED <<up, counter, closed, walClosed, lock, id, state, buf, ops,
                 snap, leaf, survLeaf, wal, acked, crashes>>

(* register_snapshot refuses an id that is registered or not above the     *)
(* current one; the mutations are already in the leaf.                     *)
RegisterRefused(w) ==
  /\ Free /\ pc[w] = "register"
  /\ id[w] \in snapshots \/ id[w] <= current
  /\ pc' = [pc EXCEPT ![w] = "err"]
  /\ UNCHANGED <<up, dbVars, lock, id, state, buf, ops, snap, fileVars, wal,
                 hist, acked, crashes>>

SyncMeta_NoFsync(w) ==
  /\ up /\ pc[w] = "sync"
  /\ lock' = NoOne
  /\ state' = [state EXCEPT ![w] = "Committed"]
  /\ pc' = [pc EXCEPT ![w] = "ok"]
  /\ acked' = id[w]
  /\ UNCHANGED <<up, dbVars, id, buf, ops, snap, fileVars, wal, hist, crashes>>

SyncMeta_KeepsLock(w) ==
  /\ up /\ pc[w] = "sync"
  /\ UNCHANGED <<leaf, metaA, metaB>> /\ Synced
  /\ state' = [state EXCEPT ![w] = "Committed"]
  /\ pc' = [pc EXCEPT ![w] = "ok"]
  /\ acked' = id[w]
  /\ UNCHANGED <<up, dbVars, lock, id, buf, ops, snap, wal, hist, crashes>>

(* The fsync of commit_transaction returns and commit() with it.           *)
SyncMeta(w) ==
  /\ up /\ pc[w] = "sync"
  /\ UNCHANGED <<leaf, metaA, metaB>> /\ Synced
  /\ lock' = NoOne
  /\ state' = [state EXCEPT ![w] = "Committed"]
  /\ pc' = [pc EXCEPT ![w] = "ok"]
  /\ acked' = id[w]
  /\ UNCHANGED <<up, dbVars, id, buf, ops, snap, wal, hist, crashes>>

(* The fsync fails: the error is returned, the registry stays advanced.    *)
SyncFails(w) ==
  /\ IoFaults /\ up /\ pc[w] = "sync"
  /\ lock' = NoOne
  /\ pc' = [pc EXCEPT ![w] = "err"]
  /\ UNCHANGED <<up, dbVars, id, state, buf, ops, snap, fileVars, wal, hist,
                 acked, crashes>>

(* WriteTxn::abort: Active or Preparing to Aborted, mutations cleared.     *)
Abort(w) ==
  /\ up /\ pc[w] = "client"
  /\ state' = [state EXCEPT ![w] = "Aborted"]
  /\ pc' = [pc EXCEPT ![w] = "none"]
  /\ buf' = [buf EXCEPT ![w] = Empty]
  /\ ops' = [ops EXCEPT ![w] = 0]
  /\ UNCHANGED <<up, dbVars, lock, id, snap, fileVars, wal, hist, acked,
                 crashes>>

-----------------------------------------------------------------------------
(* SnapshotOps::snapshot_at, and with t = current ::snapshot, which is     *)
(* what begin_read and Db::snapshot call.                                  *)
TakeSnapshot(r, t) ==
  /\ Free /\ ~closed /\ snap[r] = NoOne
  /\ t \in snapshots /\ refs[t] < MaxRefs
  /\ snap' = [snap EXCEPT ![r] = t]
  /\ refs' = [refs EXCEPT ![t] = @ + 1]
  /\ UNCHANGED <<up, counter, current, snapshots, closed, walClosed, lock,
                 txnVars, fileVars, wal, hist, acked, crashes>>

(* ReadTxn::close, or the handle dropped: nothing calls decrement_ref.     *)
ReleaseSnapshot(r) ==
  /\ up /\ snap[r] # NoOne
  /\ snap' = [snap EXCEPT ![r] = NoOne]
  /\ UNCHANGED <<up, dbVars, lock, txnVars, fileVars, wal, hist, acked,
                 crashes>>

-----------------------------------------------------------------------------
(* Db::close: the WAL is closed, the pager synced.  Handles given out by   *)
(* other clones live on; apply_mutations and register_snapshot never look  *)
(* at is_closed.                                                           *)
Close ==
  /\ CloseCalls /\ Free /\ ~closed
  /\ closed' = TRUE /\ walClosed' = TRUE
  /\ UNCHANGED <<leaf, metaA, metaB>> /\ Synced
  /\ UNCHANGED <<up, counter, current, snapshots, refs, lock, txnVars, snap,
                 wal, hist, acked, crashes>>

(* The pager's sync fails after the WAL was closed: the handle stays open. *)
CloseFails ==
  /\ CloseCalls /\ IoFaults /\ Free /\ ~closed
  /\ walClosed' = TRUE
  /\ UNCHANGED <<up, counter, current, snapshots, refs, closed, lock, txnVars,
                 snap, fileVars, wal, hist, acked, crashes>>

(* Db::sync.                                                               *)
Sync ==
  /\ Free /\ ~closed
  /\ UNCHANGED <<leaf, metaA, metaB>> /\ Synced
  /\ UNCHANGED <<up, dbVars, lock, txnVars, snap, wal, hist, acked, crashes>>

(* What the process held is gone. *)
LoseProcess ==
  /\ up /\ up' = FALSE
  /\ lock' = NoOne
  /\ pc' = [w \in Writer |-> "none"]
  /\ snap' = [r \in Reader |-> NoOne]
  /\ UNCHANGED <<dbVars, id, state, buf, ops, wal, hist, acked>>

(* The process is killed: the OS keeps what was written.                   *)
Kill ==
  /\ crashes < MaxCrashes /\ crashes' = crashes + 1
  /\ LoseProcess
  /\ UNCHANGED fileVars

(* Power loss: each page is left at its last synced version or at any      *)
(* version written since; a meta page written since may be torn.           *)
PowerLoss ==
  /\ crashes < MaxCrashes /\ crashes' = crashes + 1
  /\ LoseProcess
  /\ leaf' \in survLeaf /\ metaA' \in survA /\ metaB' \in survB
  /\ Synced

(* The last handle of a closed database is dropped.                        *)
Drop ==
  /\ closed /\ lock = NoOne
  /\ LoseProcess
  /\ UNCHANGED <<fileVars, crashes>>

Open_CounterFromZero ==
  /\ ~up /\ BestMeta(metaA, metaB) # Torn
  /\ up' = TRUE
  /\ counter' = 0
  /\ current' = BestMeta(metaA, metaB)
  /\ snapshots' = {BestMeta(metaA, metaB)}
  /\ refs' = [t \in Txn |-> 0]
  /\ closed' = FALSE /\ walClosed' = FALSE
  /\ UNCHANGED <<lock, txnVars, snap, fileVars, wal, hist, acked, crashes>>

(* Db::open of an existing file: the better meta page, a registry with     *)
(* that one snapshot, and no replay of the log.                            *)
Open ==
  /\ ~up /\ BestMeta(metaA, metaB) # Torn
  /\ up' = TRUE
  /\ counter' = BestMeta(metaA, metaB)
  /\ current' = BestMeta(metaA, metaB)
  /\ snapshots' = {BestMeta(metaA, metaB)}
  /\ refs' = [t \in Txn |-> 0]
  /\ closed' = FALSE /\ walClosed' = FALSE
  /\ UNCHANGED <<lock, txnVars, snap, fileVars, wal, hist, acked, crashes>>

-----------------------------------------------------------------------------
WriterStep(w) ==
  \/ BeginWrite(w)
  \/ \E k \in Key, v \in Value : Put(w, k, v)
  \/ \E k \in Key : Delete(w, k)
  \/ \E next \in {"client", "apply"} : Prepare(w, next)
  \/ \E next \in {"client", "apply"} : PrepareFails(w, next)
  \/ CommitEmpty(w)
  \/ Apply(w) \/ ApplyFails(w)
  \/ Register(w) \/ RegisterFails(w) \/ RegisterRefused(w)
  \/ SyncMeta(w) \/ SyncFails(w)
  \/ Abort(w)

ReaderStep(r) == (\E t \in Txn : TakeSnapshot(r, t)) \/ ReleaseSnapshot(r)

Next ==
  \/ \E w \in Writer : WriterStep(w)
  \/ \E r \in Reader : ReaderStep(r)
  \/ Close \/ CloseFails \/ Sync \/ Kill \/ PowerLoss \/ Drop \/ Open

Spec == Init /\ [][Next]_vars

(* commit() is straight-line code: once entered, its thread runs it to the *)
(* end, waiting only for the lock.                                         *)
CommitStep(w) == \/ pc[w] = "apply" /\ Apply(w)
                 \/ Register(w) \/ RegisterRefused(w) \/ SyncMeta(w)

FairSpec == Spec /\ \A w \in Writer : WF_vars(CommitStep(w))
-----------------------------------------------------------------------------
(***************************************************************************)
(* Properties                                                              *)
(***************************************************************************)
TxnState == {"Active", "Preparing", "Committed", "Aborted"}
Pc       == {"none", "client", "apply", "register", "sync", "ok", "err", "get"}

(* Every variable holds a value of its kind.                               *)
TypeOK ==
  /\ up \in BOOLEAN /\ closed \in BOOLEAN /\ walClosed \in BOOLEAN
  /\ counter \in Txn /\ current \in Txn /\ snapshots \in SUBSET Txn
  /\ refs \in [Txn -> 0 .. MaxRefs]
  /\ lock \in Writer \cup {NoOne}
  /\ id \in [Writer -> Txn] /\ state \in [Writer -> TxnState]
  /\ pc \in [Writer -> Pc] /\ buf \in [Writer -> [Key -> Change]]
  /\ ops \in [Writer -> 0 .. MaxOps]
  /\ snap \in [Reader -> Txn \cup {NoOne}]
  /\ leaf \in Leaf /\ survLeaf \in SUBSET Leaf
  /\ metaA \in Meta /\ survA \in SUBSET Meta
  /\ metaB \in Meta /\ survB \in SUBSET Meta
  /\ wal \in SUBSET Record
  /\ hist \in [Txn -> [Key -> Value \cup {Absent}]]
  /\ acked \in Txn /\ crashes \in 0 .. MaxCrashes

(* No commit stands between apply_mutations and register_snapshot.         *)
Quiescent == \A w \in Writer : pc[w] # "register"

(* With one writer at a time and no crash, a read transaction begun while  *)
(* no commit is between apply and register reads exactly what the          *)
(* registered transactions wrote, although the leaf is overwritten in      *)
(* place, aborts skip ids and begin_read never looks at the id counter.    *)
LatestSnapshotExact ==
  up /\ crashes = 0 /\ Quiescent => View(current) = hist[current]

(* With one writer at a time and no crash, any registered snapshot reads   *)
(* for each key the value of its own point in time or nothing: later       *)
(* commits can hide a value (the leaf is not copied) but never show one of *)
(* another time.                                                           *)
SnapshotNeverWrong ==
  up /\ crashes = 0 =>
    \A s \in snapshots, k \in Key : View(s)[k] \in {hist[s][k], Absent}

(* Write-ahead: no entry is in the leaf, nor in any version of it a power  *)
(* loss may leave, unless the log durably holds that mutation.             *)
WalBeforeData ==
  \A page \in survLeaf \cup {leaf}, k \in Key :
     page[k] # NoEntry =>
       \E r \in wal : r.txn = page[k].lsn /\ r.buf[k] = page[k].val

(* Whatever a power loss leaves of the two meta pages, a database that can *)
(* be opened comes back at or above every commit that returned Ok.         *)
AckedSurvives ==
  \A a \in survA, b \in survB :
     BestMeta(a, b) # Torn => BestMeta(a, b) >= acked

(* begin_write never hands out an id again: not that of a commit that      *)
(* returned Ok, of a registered snapshot or of a transaction in progress,  *)
(* across failed commits, crashes and reopening.                           *)
FreshIds ==
  [][\A w \in Writer : ~Live(w) /\ Live(w)' =>
       /\ id'[w] > acked
       /\ \A s \in snapshots : id'[w] > s
       /\ \A x \in Writer : Live(x) => id'[w] > id[x]]_vars

(* The registry's current id is a registered snapshot, the newest one, and *)
(* no id was registered that begin_write did not hand out.                 *)
CurrentIsNewest ==
  up => /\ current \in snapshots /\ current <= counter
        /\ \A s \in snapshots : s <= current

(* While the process runs the registry's current id never goes back, and   *)
(* no registered snapshot disappears.                                      *)
RegistryMonotone ==
  [][up /\ up' => current <= current' /\ snapshots \subseteq snapshots']_vars

(* A commit that has begun to apply its mutations returns, whatever the    *)
(* other writers do, unless the process dies.                              *)
CommitReturns ==
  \A w \in Writer :
     pc[w] \in {"apply", "register", "sync"} ~> pc[w] \in {"ok", "err", "none"}

-----------------------------------------------------------------------------
(***************************************************************************)
(* Inductive invariants, from which KernelProofs derives the properties.   *)
(***************************************************************************)

(* Ids are ordered: acknowledged, registered, handed out.                  *)
IdsOrdered ==
  up => /\ acked <= current /\ current <= counter /\ current \in snapshots
        /\ \A s \in snapshots : s <= current
        /\ \A w \in Writer : Live(w) => id[w] <= counter

(* A commit in its fsync holds the lock, and its id is in the registry and *)
(* in both meta pages.                                                     *)
SyncHoldsLock ==
  \A w \in Writer : pc[w] = "sync" =>
     lock = w /\ current = id[w] /\ metaA = id[w] /\ metaB = id[w]

(* No version of a meta page that may be found again is older than an      *)
(* acknowledged commit.                                                    *)
MetasNotOlder ==
  /\ metaA \in survA /\ metaB \in survB
  /\ \A m \in survA \cup survB : m = Torn \/ acked <= m

(* Without a process no transaction is live.                               *)
DownIsIdle == ~up => \A w \in Writer : pc[w] = "none"

(* The registry and the meta pages, under every failure the model has, at  *)
(* every step: the induction behind the durability properties.             *)
RegistryInv == IdsOrdered /\ SyncHoldsLock /\ MetasNotOlder /\ DownIsIdle

(* Between prepare and register a transaction's record is in the log.      *)
PreparedLogged ==
  \A w \in Writer :
     /\ pc[w] = "apply" => state[w] = "Preparing"
     /\ pc[w] \in {"client", "apply"} /\ state[w] = "Preparing" =>
          [txn |-> id[w], buf |-> buf[w]] \in wal

(* With a log that never refuses, no page outruns it.                      *)
LogInv == ~closed /\ ~walClosed /\ PreparedLogged /\ WalBeforeData

(* One writer at a time: it works above every registered id.               *)
OneAbove ==
  /\ \A v, w \in Writer : Live(v) /\ Live(w) => v = w
  /\ \A w \in Writer : pc[w] \in {"client", "apply", "register"} => current < id[w]

(* An entry of the leaf is the one the last registered transaction left,   *)
(* or the commit about to register has replaced it.                        *)
LeafExplained ==
  \A k \in Key :
     \/ leaf[k].lsn <= current /\ leaf[k].val = hist[current][k]
     \/ \E w \in Writer : pc[w] = "register" /\ buf[w][k] # Untouched

(* What a commit about to register has put in the leaf.                    *)
LeafApplied ==
  \A w \in Writer, k \in Key : pc[w] = "register" /\ buf[w][k] # Untouched =>
     leaf[k] = IF buf[w][k] = Absent THEN NoEntry
               ELSE [val |-> buf[w][k], lsn |-> id[w]]

(* With one writer at a time and nothing failing, the leaf that is         *)
(* overwritten in place still holds what every snapshot may be shown.      *)
SerialInv == /\ up /\ ~closed /\ ~walClosed /\ OneAbove /\ LeafExplained
             /\ LeafApplied /\ SnapshotNeverWrong

-----------------------------------------------------------------------------
(***************************************************************************)
(* What the documentation says of this code and the code does not do; a    *)
(* run that TLC must refute checks it.                                     *)
(***************************************************************************)

(* "kill during commit, reopen => state matches prefix of commits"         *)
(* (spec/pager_v0.md); Db::open promises that "recovery will run if        *)
(* needed": what opening the file would show was committed.                *)
ReopenMatchesCommits ==
  LET m == BestMeta(metaA, metaB)
  IN  ~up /\ m # Torn => View(m) = hist[m]
=============================================================================
