# A verification project for the NorthstarDB kernel

This directory models the transactional core of NorthstarDB, its replication and the
services around them, in the Rust implementation (`src/rust/northstar-core`, crate paths below are relative to its
`src/`), checks it with TLC on small instances and proves its main safety
properties with TLAPS for every instance. All paths and lines refer to the
repository this project is kept beside; `PROJECT.json` maps each definition to the
lines it stands for.

## 1. The system

NorthstarDB is an embedded key-value store with snapshot reads, a write-ahead log and a
B+tree in fixed pages. One process opens a file through a `Db` handle, which is an `Arc`
that can be cloned and used from several threads.

| Component | State it keeps | Operations | Correct when |
|---|---|---|---|
| `Db` (`db/`) | `RwLock<DbInner>`: last id handed out, closed flag, log, registry, query cache | open, begin_read, begin_write, register_snapshot, sync, close | ids are never reused; an acknowledged commit is still there after a crash and reopening |
| Transactions (`txn/`) | `WriteTxn`: id, state, mutation list. `ReadTxn`: snapshot id and root page | put, delete, get, prepare, commit, abort; get, scan, close | a snapshot never changes; a commit is all or nothing |
| Snapshot registry (`snap/`) | current id, map of ids to root pages, reference counts | register_snapshot, snapshot, snapshot_at, apply_mutations, commit_transaction | current is the newest id and never goes back |
| Pager (`pager/`) | two meta pages, allocator, page cache, file | read, write and allocate pages, commit_transaction, sync | one meta page is always intact; no page has two owners |
| Log (`wal/`) | file, offset, 64 KiB buffer, LSN; replay iterators | open, create, append_commit_record, sync, close, replay, replay_ref | what a sync covered is found again, in order, whatever is torn behind it |
| B+tree (`btree/`) | node pages, root page id | get, put, delete, scan; recovery from the log | get returns what was put last; no node outgrows its page |
| Caches (`cache/`) | sharded maps with a policy's list, counters; node versions; prefetch queue | get, put, evict, invalidate, pin, enqueue | a hit equals what a miss would compute; limits hold; urgent requests stay |
| Plan cache (`query_plan/cache.rs`) | plans, the two ends of a list | insert, get, invalidate | bounded; an invalidated plan is not served |
| Replication (`replication/`) | publisher buffer, acknowledgements, connections; server state, client state | publish, acknowledge, release, connect, reconnect, bootstrap, shutdown | a stream has no gap; a lost connection is restored or given up |
| Tree recovery (`btree/recovery.rs`) | the scanned records, the tree | scan, filter, replay | replay is repeatable and restores what was committed |
| Disaster recovery (`recovery/`) | backups, recoveries, files | full and incremental backup, retention, verify, restore, cancel | a restore writes what the backup recorded, or can be cancelled |
| Degradation (`degradation/`) | breaker state and counters, token bucket | call, record success or failure, acquire, reserve | an open breaker opens again; the rate is kept |
| Plugins (`plugins/`) | registry, metadata, hook lists, error counts | register, unregister, enable, disable, dispatch | the maps agree; one failing plugin stops no other |
| Reference model (`refmodel/`) | versioned tree, pending transactions, snapshots | begin, put, delete, commit, rollback, snapshot | it says what the database should hold |
| Cartridges (`cartridges/`) | items by id, indexes of ids by field | insert, clear, query by index, find a path | what is stored is found, by every index and search |
| Events, analytics, cloud, LLM, monitoring, CLI | see `PROJECT.json` | | |

How they interact. `WriteTxn::commit` calls `prepare` (an append and a sync of the log
under the `Db` lock), then `apply_mutations` (the B+tree, under the lock taken again), then
`register_snapshot` (the registry, then both meta pages and one fsync, under the lock taken
a third time). A `ReadTxn` holds no lock; each `get` takes it, walks the tree from the root
page of its snapshot and drops entries whose LSN is above its id. The tree is updated in
place, so a reader and a later commit share pages. `Db::open` reads the better of the two
meta pages and lets the log scan its file; it does not replay it. The services share no
state with the kernel at run time: replication is handed commits by its caller, backups copy
the file, recovery reads the log after a crash, plugins are called with commits.

What is hard here: a commit is three critical sections with client steps, other writers
and crashes between them; the disk may keep any subset of unsynced pages and tear one; the
log file is never truncated, so what a crash or a failed write left behind the end stays
readable; a cloned file handle shares its offset; free space in a leaf is a counter next to
the entries it counts; splits, borrows and deletes must keep every key reachable. Around
the kernel most components guard each field by a lock or an atomic of its own, so that every
method is several critical sections: state checked in one is stale in the next.
`PROJECT.json` lists each of these as a hazard at its line.

## 2. Modules

| Module | What it is |
|---|---|
| `Kernel` | Db, transactions, registry, meta pages: the commit path with kill, power loss, I/O errors and close |
| `MCKernel` | symmetry and a view for TLC |
| `DurableLog` | what a log promises: an abstract specification |
| `Wal` | the log file, its buffer, its scan and its iterators; refines `DurableLog` |
| `BTree` | put, delete and get on a tree of leaf and inner pages |
| `MCBTree` | symmetry for TLC |
| `PageStore` | page allocator, storage, the page cache in front of it, overflow chains, reopening |
| `Recovery` | transactions that leave records in the log, power loss, replay of the log into the tree |
| `Versions` | version chains and the delta layer |
| `Snapshots` | the snapshot registry under its own locks, reference counts, cleanup candidates |
| `CacheShard` | one shard of the cache: policies, pins, eviction, each lock on its own |
| `NodeCache` | the node cache with its version map; the prefetch queue |
| `PlanCache` | the query plan cache |
| `Publisher`, `Subscriber` | the two ends of the newer replication code, task by task |
| `Replication` | the older server and client, with the wire between them |
| `Degradation` | circuit breaker and throttler |
| `Plugins` | plugin manager, registry and hook system |
| `Backup` | backups, retention, verification, restores |
| `RefModel` | the test oracle |
| `Cartridges` | the entity, relationship and topic indexes, and the path search |
| `Filters` | a sequence restricted to a set of elements, which several modules use |
| `MCIndexes`, `MCReplication`, `MCStructures`, `MCServices` | for TLC: components that share no state, side by side |
| `DataLemmas` | induction over numbers and sequences, and what `Only` and iterated updates compute |
| `KernelProofs`, `WalProofs` | the theorems about `Kernel` and `Wal`, the latter with the refinement of `DurableLog` |
| `IndexesProofs` | those about `BTree` and `Cartridges` |
| `StructuresProofs` | those about `NodeCache`, `CacheShard`, `PlanCache`, `Versions`, `RefModel`, `PageStore` |
| `ReplicationProofs` | those about `Publisher`, `Subscriber` and `Replication` |
| `ServicesProofs`, `PluginsProofs` | those about `Snapshots`, `Degradation`, `Recovery`, `Backup`, and about `Plugins` |

Definitions named `X_Something` that stand before `X` are variants of `X` with one
plausible slip (a dropped guard, a missing reset, an off-by-one). The specifications do not
use them; replacing `X` by one makes TLC refute the property it is paired with in
`PROJECT.json`, which shows that the property depends on the code.

### Kernel

State. `counter`, `current`, `snapshots`, `refs`, `closed` are `DbInner` and
`RegistryData`; `id`, `state`, `buf`, `ops` one `WriteTxn` per writer slot, `pc` where its
call stands (`client` between calls, `apply`, `register`, `sync` inside commit, `ok` or
`err` when commit has returned); `snap` the snapshot of a reader slot; `leaf`, `metaA`,
`metaB` the file as the operating system shows it; `survLeaf`, `survA`, `survB` the
versions a power loss may leave; `wal` the synced records. `hist`, `acked`, `crashes` are
history.

Actions. One per critical section: `BeginWrite`, `Put`, `Delete`, `Prepare`, `Apply`,
`Register`, `SyncMeta`, `Abort`, `TakeSnapshot`, `ReleaseSnapshot`, `Sync`, `Close`,
`Open`, and the error paths `PrepareFails`, `CommitEmpty`, `ApplyFails`,
`RegisterFails`, `RegisterRefused`, `SyncFails`, `CloseFails`. `Register` and
`SyncMeta` are one critical section split where a crash can fall; the lock is held between
them. `Kill` loses the process, `PowerLoss` also chooses a surviving version of each page.

Abstractions. The tree is one leaf, which is what the code has until 80% of 16 KiB are
used; growth is `BTree`'s subject. The mutation list is kept as the last mutation of each
key and a count: lookup and application both let the last one win. The log is a set of
synced records; its file is `Wal`'s subject. Page checksums become the value `Torn`. The
query cache is left out because `Db::query_cache` returns a clone whose storage is new and
empty (`cache/query.rs:412`), so no read is ever answered from it. `Open` does not model a
log that cannot be scanned (`Wal::open` then returns an error and so does `Db::open`).
A leaf page is written whole or not at all; torn leaf pages are not modelled.

Three constants restrict the clients or the environment: `Exclusive` (writers are begun
one at a time, as `db/mod.rs:306` tells callers to expect; the code does not enforce it),
`IoFaults`, `CloseCalls`.

### Wal

The file is a sequence of cells `<<n, i>>`, the i-th cell of the n-th record ever
appended. A record has two header cells, a payload of one or more and a trailer cell; a
checksum test becomes the test that a record's cells stand in order. `cursor` is the offset
the operating system keeps, `filePos` the one the handle believes, `buffer` the unflushed
cells. `Scan` is `scan_highest_lsn`; `NextBy` is one call of `Iterator::next` with
`read_next_commit`. `WriteFails` is a `write_all` that fails after `n` cells, in a flush or
in `write_large_record`; `Kill` may cut a write the same way; `PowerLoss` keeps a prefix of
the unsynced cells, or all of them but one.

`DurableLog` says: entries are appended at the end; a sync makes them stable; trouble takes
away only an unstable suffix. The mapping takes as entries the records a scan would find
once the buffer is flushed, and as stable the number of records the last successful sync
covered. After a write that failed half way (`damaged`) the promise shrinks to the records
synced before, because that is all the code keeps: `flush_buffer` leaves `buffer_pos`
unchanged and a retry writes the buffer a second time behind the partial copy.

`AppendAfterReplay` is FALSE in the run: clients append after a `replay_ref` only while the
shared offset is back at the end (section 5 says what happens otherwise).

Left out: `resync` (after a damaged record the iterator is done and ignores it), the byte
layout of payloads, records over 16 MiB, LSNs inside the records.

### BTree

`page` maps page ids to leaves (entries, the free-space counter, the left neighbour) and
inner nodes (two children and a separator). Sizes are in units: an entry takes one or two,
a leaf has `Cap`, and splits when `SplitAt` are used. A leaf holds `free` as the code does,
next to the entries, and the actions change it by the code's arithmetic, including the cast
of a negative difference to `u16`. `PutInPlace`, `PutThenSplit`, `SplitThenPut` and
`PutRefused` are the four ways through `insert_into_leaf`; `Delete` includes
`handle_leaf_underflow`. `kv` is what the calls that returned Ok should have left.

Two facts of the code shrink the model. `propagate_split` pops the split leaf first and so
always grows the tree: an inner node has exactly two children and `insert_into_internal` is
never called. `next_leaf` is copied from a leaf that never has one: there is no right
sibling, and of borrowing and merging only `borrow_from_left_leaf` can take place. The
assumption `Cap >= 4` keeps entries to half a leaf; with larger ones the lower half of a
split may refuse the entry it should take. Scans, LSNs (Kernel's subject), overflow chains
and I/O errors are left out.

### PageStore, Versions

`disk` and `cached` are the storage and the page cache, `free` and `nextPage` the allocator,
`nodes` and `chains` what the callers hold. An action is a call of the tree or of the overflow
code with every page it touches; `Store` is the record the calls are composed from, so that
`AllocateChain` runs the allocations, writes and links of `allocate_overflow_chain` in order
and stops where a full cache refuses a page (`Room`: under the Arc policy nothing is ever
evicted, see section 5). `Reopen` is `close` and `open_file`, which forget the free list.
`Versions` keeps a chain of LSNs per key, with what was ever added as history, and beside it
the delta layer with its size and operation counters.

### CacheShard, NodeCache, PlanCache

In `CacheShard` a call is cut wherever the code releases a lock; `pc` says which lock a
thread waits for, and `Writing`, `Reading`, `Listing` who holds what, so the code's two lock
cycles are states of the model. Values are left out: only which keys are held, their pins,
sizes and their place in the list. `NodeCache` cuts put, invalidate and clear between the
version map and the cache. `PlanCache` keeps the two ends of the list, which is all the code
ever reads of it.

### Publisher, Subscriber, Replication

`Publisher` and `Subscriber` follow each task (accept, handler, heartbeat, receive, reconnect,
application calls) from one wait for a lock to the next. A record is its sequence number and
size. In `Subscriber` the network may refuse a connection or break it at any time
(`SocketBreaks`). `Replication` is `server.rs` with `client.rs`: the commit queue, the handler
per connection, the heartbeat monitor, and the client's dial, handshake and receive loop; the
wire carries messages in order until either side closes, and a commit's placeholder payload
is undecodable on arrival, as `protocol.rs` makes it.

### Recovery

Writers prepare (append to the log), apply, register or abort; a power loss keeps the synced
log and any version of the tree's keys since the last sync; `Recover` scans and sorts the
records, `ReplayOne` writes one mutation, and a power loss may fall between any two. `Reopen`
starts a new epoch, whose ids continue from the meta page and may repeat ids of records in the
log. `Damage` makes a suffix of the log unreadable. The records still to be replayed are a set of
positions in the log, of which `Foremost` is the next one in the order of the stable sort.

### Degradation, Plugins, Backup, Snapshots, RefModel, Cartridges

`Degradation` cuts a call through the breaker at every atomic load and store; the bucket's
refill is a claim and an addition. `Plugins` follows register, unregister, enable, disable and
the three kinds of dispatch through the registry's, metadata's, hooks' and tracker's locks;
`raced` remembers the plugins on which two lifecycle calls overlapped, which the code does not
guard against. `Backup` copies a file in chunks while the database writes to it, with restores,
deletions, retention and decay in between. `Snapshots` has the registry's own critical
sections, which `Kernel` always runs under the `Db` lock and other callers do not. `RefModel`
marks as `irregular` the keys on which the oracle is known to be wrong (section 5); `Outcomes` are
the trees a list of mutations may leave, since versions of equal LSN are sorted in no fixed order.
`Cartridges` is the entity, the relationship or the topic cartridge: insert and clear step from
lock to lock, a query holds its index while it reads the items, and `find_path` is such a query
per entity of its queue. `unsure` holds the ids stored while a clear was under way, the one case
in which an index may lose a stored item for good.

## 3. Runs

Passing runs:

| Run | Properties | Bounds |
|---|---|---|
| `kernel_serial` | `TypeOK`, `LatestSnapshotExact`, `SnapshotNeverWrong`, `WalBeforeData` | 2 keys, 2 values, 1 writer, 2 ids, 2 mutations, 1 crash |
| `kernel_faulty` | `CurrentIsNewest`, `AckedSurvives`, `RegistryMonotone`, `FreshIds` | 2 writers at once, 3 ids, I/O errors, close, 1 crash |
| `kernel_live` | `CommitReturns` | 2 writers, 1 reader, 3 ids |
| `wal_log` | `TypeOK`, `AckedReadable`, `ReplayYieldsAcked`, `ImplementsDurableLog`, `ReplayEnds` | 3 records, small and larger than the buffer, 2 troubles |
| `indexes` | `FreeSpaceSafe`, `UniformNeverStale`, `AscendingComplete`, `CartridgesSound` | tree: 4 keys, 3 values of two sizes, leaves of 4 units, pages 2 to 6; a cartridge of up to 3 items: 2 threads, 3 inserts or clears, 1 query or search of depth 1 or 2 |
| `replication` | `PublisherConsistent`, `Streams`, `SomebodyListens`, `SubscriberRecovers`, `SentInOrder`, `ConnectionsConsistent` | 1 publishing and 1 other caller, 2 connections, 2 sequence numbers, a buffer of 3 units; 2 reconnect attempts, 2 receive loops; 2 dials, 4 commits |
| `structures` | `PagesWhole`, `ShardBounded`, `HeldIsFindable`, `UrgentStay`, `ResolveExact`, `OracleRight`, `StructuresOK` | pages 2 to 6, chains of up to 3; 2 threads on 4 keys of two sizes, every policy; 3 callers on 2 pages; 4 queries in a cache of 2; chains of 2 versions; 2 transactions of 2 mutations |
| `services` | `RateRespected`, `BreakerRecovers`, `RecoverySound`, `PluginsConsistent`, `RestoreSound`, `RegistrySound` | 2 callers of breaker and bucket; 2 writers, 2 records, 2 power losses; 2 tasks on 2 plugins of which one needs the other; 2 backups of 2 chunks, 2 restores; 2 threads on 3 snapshots |

The last four runs put components side by side that share no state: `focus` picks one in
the initial state and only it moves. Each also checks the type invariants of its modules
(`IndexesTypeOK`, `ReplicationTypeOK`, `StructuresOK`, `ServicesTypeOK`). The invariants of these modules are
conjunctions of named parts, which their comments state one by one.

What they show. The newest snapshot between commits is exact, and an older one never shows
a value of another time: it shows its own or nothing. No page version a crash may leave
holds a value the log does not hold. With two unsynchronised writers, failures and crashes
the registry stays ordered, ids stay fresh and an acknowledged commit's meta page survives
if the file opens. Every commit that starts returns. The log file loses nothing a sync
covered, and replay yields it and ends. No leaf is serialised past its page; with entries of
one size no old value returns, and ascending insertion finds every key.

A replica's socket carries the publisher's records without a gap or a repetition, and every
replica holds back the release of the buffer. A subscriber's connection always has a reader,
only the application ends an Error state, and a lost connection is made again or given up. A
server sends each record once and in order and counts its connections exactly. Until the file
is reopened no page has two owners, the page cache agrees with the storage and a value in a
chain reads back whole. A cache shard's counters never report too little and, with no more threads
than `max_entries`, the map exceeds that limit by less than their number; a cached node can always be found by an invalidation; urgent prefetches are not the
ones dropped. Replay of the log is repeatable, and exact for the keys that only acknowledged
transactions touched. No interleaving of refills and reservations exceeds the rate; an open
circuit that nobody resets is tried again and closes when the service is well. A failing
plugin keeps no other from running. A restore that completes has written what its backup
recorded. An item stored in a cartridge is found by every index unless a clear was under way when
it was stored, no answer holds what was never filed under the value asked for, and a path found
leads along stored relationships, a shortest one if nothing changed meanwhile.

Runs that TLC must refute, each a disagreement between the code and what its own
documentation says (the findings in `PROJECT.json` quote the lines):

| Run | Refuted | What happens |
|---|---|---|
| `bad_reopen` | `ReopenMatchesCommits` | a crash between apply and the meta write, then open without replay |
| `bad_insert_order` | `GetComplete` | splitting a leaf left of another hides the other's keys |
| `bad_publish_lock` | `NoLockCycle` | a publish that is to be refused and a task that relieves the pressure wait for each other |
| `bad_abort` | `AbortedIgnored` | recovery applies the record of an aborted transaction |

Why the bounds are enough. The Kernel's interesting cases need one transaction to be
overwritten by a second, a crash in each gap of a commit and one reopening; `kernel_faulty`
adds a third id so that a commit can follow a refused or failed one. `wal_log` has three
records so that a record stands before, in and after a torn part, and payloads that make a
record fit the buffer, fill it or bypass it; two troubles let a crash follow a failed write.
The cut points are chosen inside the header, payload and trailer of a small and a large
record. Four keys and five pages let a leaf split twice and the tree grow twice. In the three
composed runs every check-then-act pair needs two tasks and one more step of a third party;
limits (buffer, cache, chain, queue, plugins, snapshots) are one below what the actors can
produce, so that each is met and exceeded where the code lets it; two power losses let replay
be interrupted twice.

`MCKernel!Symmetry` permutes keys, values and slots, which no formula distinguishes; it is
not used with `CommitReturns`. `MCIndexes!MCSymmetry` permutes the short values of the tree or the cartridges' threads. `ControlView` (kernel_faulty) leaves out the leaf, buffers, log and
history, which no guard and none of that run's properties reads. `PageBound` stops the pages
run after one reopening. Deadlock is not checked: with its bounds used up, with both meta pages
torn, or in one of the lock cycles of section 5, a model really stops.

Fairness. `CommitReturns` assumes weak fairness of `CommitStep(w)` for each writer: commit
is straight-line code in one thread, and each time it needs the lock it is released by steps
of another such thread. `ReplayEnds` assumes that a loop over the iterator keeps calling
`next`. `SubscriberRecovers` assumes that the runtime keeps polling the subscriber's spawned
tasks (`SubFairness`), not that any connection succeeds. The breaker's two properties assume
that callers keep calling, that a call once begun runs on, and that time passes
(`BreakerFairness`). No fairness is assumed for clients, crashes, opening or the network.

## 4. Proofs

Every theorem holds for all values of the constants that satisfy the named assumption of its
module (bounds that are natural numbers, names that differ, limits in the order the code's
defaults have them). The bounds TLC needs stay in the guards, but the proofs use none of their
values: any number of keys, threads, records, crashes and calls is covered.

| Theorem | States | Further hypotheses |
|---|---|---|
| `TypeCorrect` | `TypeOK` of `Kernel` | |
| `AcknowledgedIsDurable` | `AckedSurvives` | |
| `RegistryIsCurrent` | `CurrentIsNewest` | |
| `RegistryNeverGoesBack` | `RegistryMonotone`, an action property | |
| `IdsAreFresh` | `FreshIds`, an action property | |
| `LogComesFirst` | `WalBeforeData` | no I/O errors, no close |
| `SerialReads`, `OlderReads` | `LatestSnapshotExact`, `SnapshotNeverWrong` | one writer at a time, no I/O errors, no close |
| `WalType` | `TypeOK` of `Wal` | |
| `SyncedSurvives`, `ReplayIsComplete` | `AckedReadable`, `ReplayYieldsAcked` | no append through the offset a `replay_ref` moved |
| `LogImplementsDurableLog` | `ImplementsDurableLog`, the refinement of `DurableLog` | the same |
| `TreeTypes`, `FreeSpaceIsSafe` | `TypeOK` of `BTree`, `FreeSpaceSafe` | |
| `NeverStale`, `AscendingKeysFound` | `UniformNeverStale`, `AscendingComplete` | `2 * DelMin <= BorMin + 1`, part of `TreeAssumption`; the code has 65 and 130 |
| `CartridgesAreSound` | `CartridgesSound` | `CartAssumption`: a relationship has one entity at each end, and relationships of one id join the same two |
| `IndexesTypes` | `IndexesTypeOK` | |
| `PagesStayWhole` | `PagesWhole` | `PageBounds`: chains no longer than `ChainLimit`, the number of pages a reader follows |
| `RequestsAccounted`, `UrgentRequestsStay` | `PrefetchAccounted`; `UrgentStay`, an action property | |
| `NodesFindable` | `HeldIsFindable` | |
| `ShardAccounts`, `OvershootIsBounded` | `ShardBounded`, `OvershootBounded` | finitely many threads (`ShardBounds`) |
| `PlansAreBounded` | `DanglingEnds`, `OvershootByOne` | |
| `DeltaIsAccounted` | `DeltaAccounted` | |
| `ResolveIsExact` | `ResolveExact` | |
| `OracleIsRight` | `OracleRight` | |
| `StructuresHold` | `StructuresOK`, all these structures side by side | |
| `SubscriberListens`, `ErrorIsKept` | `SomebodyListens`; `ErrorNeedsIntervention`, an action property | at least two reconnect attempts (`SubscriberAssumption`; the code's constant is 10) |
| `ConnectionsHold`, `SentWithoutGap` | `ConnectionsConsistent`, `SentInOrder` | |
| `PublisherIsConsistent` | `PublisherConsistent` | |
| `StreamsAreWhole` | `Streams` | one committing task, as in the run |
| `ReplicationTypes` | `ReplicationTypeOK`, all replication modules side by side | |
| `SnapshotsType`, `RegistryCorrect` | `SnapTypeOK`, `RegistrySound` | |
| `RateKept` | `RateRespected` | |
| `RecoveryType`, `RecoveryIsSound` | `RecoveryTypeOK`, `RecoverySound` | |
| `RestoreIsSound` | `RestoreSound` | |
| `PluginsAreConsistent` | `PluginsConsistent` | |

The hypotheses are needed. When the log refuses a record, a second call of commit applies the
mutations without it; with two writers the leaf mixes their values; an append after a partial
`replay_ref` overwrites synced records; two publishing tasks send out of order (all in section 5). A chain longer than the limit is
allocated and can then be neither read nor freed. With thresholds closer to each other than
`TreeAssumption` has them, borrowed entries could make up the lower half of a split, whose separator would then be wrong. Ids of
relationships come from `Relationship::generate_id`, which puts both ends into the id; the
struct is public, and a caller that makes up ids of its own could replace a relationship by one
with other ends, after which the index leads to a relationship that does not start there.

### The inductive invariants

`Kernel`. `RegistryInv` orders every id in the system: registered ids are at most `current`,
ids in use at most `counter`, the version of each meta page that survives a crash is torn or
not older than the last acknowledged id, and a writer inside the fsync holds the lock. The last
two parts are what `AckedSurvives` lacks: without the lock another commit could register
between a meta write and its fsync. `LogInv` adds that a transaction past `prepare` has its
record in the log; `WalBeforeData` says nothing about transactions that have not yet written
a page. `SerialInv` says that an entry of the leaf is either what the last registered
transaction left or was replaced by the one commit about to register, and that this commit's
id is above every snapshot; that is why hiding newer LSNs never shows a wrong value.

`Wal`. `Laid(sz, f, rs, o, e)` says that records `rs` stand in file `f` one after the other at
offsets `o` and end at `e`. `WalInd` lays out the acknowledged records in the file and on stable
storage, both at the same offsets (`AckedLaid`), all accepted records in the file as it will be
once the buffer is flushed, unless a write failed half way (`LogLaid`), and the promised records
under a live iterator, with its offset at the next of them (`IterLaid`). The acknowledged records
end at or before the end the handle believes in, and while anything is buffered the shared offset
stands there (`Quiet`): this is what an append, a torn write and a power loss need in order to
leave those records alone. The lemmas `ScanLaid` and `AckedScanned` take the recursive
`Scan` along such a layout, whatever cells follow it.

For the refinement `LogInd` adds what stands behind the acknowledged records. While no write
failed half way, there are records that lie in the file as it will be once the buffer is flushed
(`Tidy`); no mixture of that file, the present one and the disk holds another whole record
(`NoneBut`), and the disk holds a first part of them (`Downward`); so a scan after any kill or power loss finds a
first part too, and trouble takes away a suffix. Or the process is gone and the log can no longer
be opened (`Stuck`). No buffered cell stands already where it will be written (`Fresh`), and every cell carries
the number of a record accepted before (`Numbered`): a new record completes no torn one by chance.
Behind a damaged place nothing is promised but the acknowledged records, and the abstract log
keeps just those. `Open` is the delicate step: it forgets the damage only if its scan reaches the
end of the file and the disk holds the same cells.

`BTree`. `Shape`: an inner node has an older node on its left and the leaf made with it on its
right, so a walk down ends; the free space of a leaf and what its entries use fit its capacity
(`GoodLeaf`), through splits by count and casts that wrap. With entries of one size a leaf stays below the threshold at which
it splits (`Room`), and five more parts (`Sem`) say where keys are. The keys searched in a leaf are an
interval from the key the leaf was made for (`Intervals`); an entry is found unless it lies
below that key, and what is found is right (`Faithful`); a left neighbour holds only what lies
below (`Neighbours`); entries below a leaf's lowest key were borrowed, and are at most `DelMin`
(`Borrowed`). They do no harm while they stay where no search looks for them, but a split by count
could make one of them a separator: this is excluded because a leaf that borrows has fewer entries than
`DelMin` and one that lends more than `BorMin`, where the two thresholds of the assumption
meet. `Full` adds for ascending keys that every key put is in the leaf its search ends at.

`Cartridges`. `CartInd` has three parts beside the types. `CartFound`: while a clear is under way
every stored item is unsure, and an item that is not is filed under each of its values or carried by an insert
that has that index still before it. `CartCounted`: the copies of an id in an index, with those inserts
under way will still add, are no more than the filings so far, so an answer, which is a part of one
index restricted to stored items, holds no more either; filings are elements of a set, and the
inequality is an injection. `CartWalks` is breadth-first search with other
threads at work: there is a level for every visited entity, one more than its predecessor's and
at most the number of entities visited, so going back from the end terminates at the start; each such step
was a stored relationship, and still is unless a clear ran. In a graph nobody changed the
levels are the exact distances, the queue rises by depth with at most two depths in it, and every entity nearer than
its head has been expanded; hence a path found is a shortest one, and an empty queue means that
nothing within the depth was missed.

`PageStore`. An action composes a varying number of allocations and writes, so the lemmas are about
the record `Store` and what one allocation, one write and one link preserve (`Sound`), carried
along a chain by induction over its length. `PageInd` adds that the pages of nodes (`NodesOut`) and of chains
(`ChainsOut`) have been handed out, are not free and are all different (`AllApart`).

`NodeCache`'s prefetch queue. `PrefetchInd`: priorities fall along the queue, and every request is
waiting, taken or counted as dropped. The request dropped from a full queue is thus the last one,
and an urgent one only if all are.

`Snapshots`. `RegistryInd`: a thread about to raise a count does so for a registered id, and an
id never registered has no handles, so the first registration, which sets the count to
nothing, forgets no handle. What a cleanup has judged lies below the current id, which only grows.

`NodeCache`, `CacheShard`. `NodeInd` adds to `HeldIsFindable` that a caller between calls has no
keys left to handle. `ShardInd` adds to `ShardBounded` that what the map holds can be counted;
sums of sizes are cardinalities of sets of units (`Bytes`), so no fold has to be reasoned about.
How far a shard may exceed `max_entries` is a question of how many threads can still insert: each
successful or missed attempt of an eviction goes with a removal, its own or that of a faster
thread, so after `r` removals only the threads `Soon(r)` can be about to insert, and `Fits` bounds
the entries together with those threads for every `r`. An insertion takes its thread out of all of
these sets, a removal shifts them by one, and a new eviction that finds the map full stands in no set below `r = 1`.

`PlanCache`. `PlanInd`: one plan beyond the size is there only while the tail of the list names a
cached plan or nothing (`Beyond`), so that the next insertion evicts one; a dangling tail was left by a
lookup that removed an invalid plan, which made room.

`Versions`, `RefModel`. `VersionInd`: of a key whose LSNs came in order the chain is the mirrored
newest part of all versions ever added (`Mirror`), and it lacks none of the last `ChainCap` at or
above the reclaim horizon (`Enough`), so a search that stops at the first version not above the
snapshot finds the newest such one or shows none. `RefInd`: of a regular key all versions carry LSNs below the current
one, so a commit's put is inserted last whatever the order of equal LSNs; `Outcomes` is followed
mutation by mutation. For `StructuresOK` every chain of both stores is also within its cap
(`ChainsCapped`) and in LSN order wherever the binary search puts equal LSNs (`NeatTree`). The delta
layer's size is the number of bytes of its mutations, kept as elements of a set; a replaced
mutation takes its bytes out.

`PageStore`'s types after reopening. `PagesWhole` says nothing once the file was reopened, when a
page may have two owners; `PageKinds` does: every link leads to a stored page that is no meta
page, and the free list, which may then name a page twice, rises weakly.

`Subscriber`, `Replication`, `Publisher`. `SubInd` says where each kind of task can be and that the
reconnect loop has attempts left until it gives up (`Tasks`); why nobody overwrites Error is
`Surrender`: once the loop is about to give up, no other task is busy with a connection, and if
start connected during a delay the attempts began anew. Here two attempts are needed. `ReplInd`
says that the records are numbered in the order they came, until an abort (`FeedInd`), and that a
connection is untouched until dialled, listed only once its handler has added it and carries
messages only after its handshake (`WireInd`). `PubInd` adds to `PublisherConsistent` that at most one task holds the buffer lock
across its two sections (`OneHolder`) and that a task about to apply backpressure has seen a
buffer at the high water mark (`ApplyFull`). `StreamInd`: each stream is a piece of the log
that ends at its end, or one short of it while the committing task still has to send to that replica.
`ReplicationTypes` combines the three for the composed specification, with the bounds the buffer
and the sequence numbers keep.

`Degradation`. `RateRespected` compares what went ahead with the time passed; its inductive form
bounds together what was used, the reservations, the tokens, and `RateLimit` times the seconds
not yet claimed or claimed and not yet added (`BucketInd`), by `BurstSize * (1 + resets) + RateLimit * clock`.

`Recovery`. `RecInd`: a transaction past its prepare knows its record (`TxnsLaid`); a key no
record mentions has no entry anywhere (`NothingElse`); what the commits add up to is, key by key,
the mutation of the acknowledged record with the highest id (`CommitsLaid`); during a replay the
tree holds, key by key, the mutation of the last record replayed, and those still to come are
later in the order (`ReplayLaid`). A power loss starts the replay over, from whatever tree it leaves.

`Backup`. `BackupInd`: inodes have one path, the next number is new, and the file a restore reads
has its own path or none (`Inodes`); what a restore still called clean has read, and will read, is
what the backup recorded (`CleanSource`).

`Plugins`. `PlugInd`: what each task has still to do explains every difference between the
registry, the metadata and the hook lists for a plugin on which no two lifecycle calls met
(`MapsInd`), at most one registration is between its check and its insertion and what it checked
still holds, as long as none have overlapped (`LimitInd`), and the hooks due are those of the list from the task's position on (`DueInd`).
That a plugin over the error limit is out of service is inductive by itself.

### Induction over data

The library's induction theorems take an operator as a parameter, which the provers at hand
cannot instantiate. `DataLemmas` states them over sets instead: `SetInduction` for a set of
natural numbers closed under successor, `SequenceInduction` for a set of sequences closed under `Append`.
The recursive definitions the proofs need (`Only`, `Scan`, `SizeOf`, `Outcomes`, `Reached`, `PathBack`, `Within`) are recursive
functions over an initial segment of the naturals; a lemma shows that a function with the
defining equation exists (`IterationExists` and its like), which gives `CHOOSE` its equation, and the rest is
induction over that equation. No RECURSIVE operator is used in a module with a theorem.

### Only model-checked

- Liveness under fairness is out of the prover's reach: `CommitReturns`, `ReplayEnds`,
  `SubscriberRecovers`, `BreakerRecovers`.
- `ServicesTypeOK` as a whole: the bound it puts on the plugins' error counts is a product of
  numbers of calls, for which no inductive form was found worth its length. The types of the components
  are parts of the inductive invariants.

## 5. Disagreements described but not run

Found while modelling; each can be seen in the lines given.

Kernel, log and tree:

- A read transaction loses a key that a later commit overwrites: `commit` changes the leaf in
  place (`txn/write_txn.rs:185`) and `get` hides entries with a newer LSN, though
  `db/mod.rs:261` promises "a consistent snapshot of the database at the current point in
  time". It is never shown a wrong value (`SnapshotNeverWrong`).
- `WriteTxn::get` of a key it has not written blocks forever: it asks for the `Db` lock inside
  a closure that runs with that lock held (`txn/write_txn.rs:76`).
- Both meta pages are rewritten before one fsync (`pager/pager.rs:637`): a power loss may tear
  both, against `spec/pager_v0.md:125`.
- `replay_ref` shares the file offset with the writer (`wal/wal.rs:649`): an append after a
  partial iteration overwrites synced records. With `AppendAfterReplay = TRUE` TLC refutes
  `AckedReadable`.
- An update with a shorter value casts a negative difference to `u16` (`btree/node.rs:204`),
  the leaf counts as full, and the next update may be dropped although `put` returns Ok.
- `db/mod.rs:306` says only one write transaction can be active; `begin_write` does not
  check. A commit with the lower id is refused after its mutations were applied.
- A commit whose registration fails returns an error, but its values stay in the leaf
  and later snapshots see them (`txn/write_txn.rs:205`; line 164 promises atomicity).
- `prepare` changes the state before it appends (`txn/write_txn.rs:114`): after a failed
  append a second commit applies the mutations without a log record.
- The registry advances although the meta write failed (`db/mod.rs:525`), against
  `spec/pager_v0.md:101`. Reference counts are never decremented, and snapshot 0 is
  missing after reopening, so `validate_registry` calls a reopened registry corrupted.
- Commit works on a closed database: only `begin_*`, `sync` and the log look at the flag.
- `Wal::open` returns an error when a torn record is followed by a shorter one written over
  it in part, so the database cannot be opened. Records behind a failed write may come back.
  A large record does not advance `current_lsn`. A handle from `Wal::create` is write-only,
  and its replay returns an error for ever. A put of an empty value stops replay, though
  `spec/semantics_v0.md:26` allows it.
- A split by count with mixed entry sizes can drop an entry; a borrow does not update the
  separator; scans read one leaf, because leaves are not linked to the right.
- `recover_btree` is not called by `Db::open` and syncs nothing. After a crash ids start again
  from the meta page, so the record of an unfinished transaction with a higher id is replayed
  over a later acknowledged commit; a damaged record ends the replay without a word.

Pages and caches:

- `Pager::open_file` starts a new allocator at page 3 (`pager/pager.rs:157`): after reopening,
  pages in use are handed out again. `free_page` does not notice a double free.
- The Arc policy's lists are never filled (`cache/shard.rs:326`), so the page cache never
  evicts: once full, uncached reads fail, `write_page_raw` reports an error after it wrote,
  and a chain allocation that fails half way leaks its pages. `pager/cache.rs` is unused.
- An Lfu hit asks for the entries lock it holds (`cache/shard.rs:84`, `396`); under Lru,
  `evict_lru` (296-299) and `get`, `invalidate`, `clear` (82-85, 162, 217) take two locks in
  opposite orders. `evict_lru` forgets the pinned keys it skips; an unpin without a pin wraps
  the count; an eviction gives up after `max_entries` attempts and of threads that chose one victim
  only one frees it, so with more threads than `max_entries` the map may grow at every put; two puts of one new key count it twice; a victim pinned after it was chosen is
  evicted; `invalidate` and `clear` drop dirty pages.
- The plan cache's list has two ends and no middle: it may evict the plan used last, and once
  its tail is gone a full cache refuses every new plan. `queries/cache.rs:474-507` locks
  `entity_plan_index` twice in one call.
- `reclaim_old` (`btree/version.rs:101`) drops the version a snapshot at the horizon still
  needs. The delta layer's limit does not apply to deletes and a reload loses the LSNs.
- Cleanup candidates are judged one by one against the total (`snap/cleanup.rs:150`): removing
  all of them leaves fewer than `min_snapshots_to_keep`. A second registration of an id resets
  its count.
- The oracle keeps a deleted key deleted for good (its tombstone has the highest LSN,
  `refmodel/tree.rs:106`), may keep the earlier of two puts of one transaction, and applies a
  second commit of a committed transaction before it reports the error.

Replication:

- `Publisher::start` still holds the port when its accept task binds it; if the task runs
  first, no replica is ever accepted. Replicas and acknowledgements are never removed
  (`replication/publisher.rs:224`): `max_replicas` is used up and the least acknowledgement
  stays. Relieving never returns to Normal. Two publishing callers may send out of order.
- `Subscriber` decodes every message as a heartbeat and applies nothing; `bootstrap` returns
  Ok as soon as it is connected; a connect under way may set Connected after shutdown.
- The server never sends record 0, and the payload it sends cannot be decoded, so the client
  reconnects at every commit; its buffer is never released, and once full drops commits
  silently; `metrics` and the commit processor take two locks in opposite orders
  (`replication/server.rs:613`); the heartbeat monitor removes every replica after its timeout.
  `ReplicationClient::run` ends at the first failed reconnect with `running` still set.

Services:

- `CircuitBreaker::reset` beside a failing call can leave the circuit open without a time of
  failure, and so for good; HalfOpen does not limit requests, though
  `degradation/circuit_breaker.rs:16` says so.
- `PluginRegistry::register` checks and inserts in separate critical sections: two calls may
  exceed `max_plugins` or register one name twice with two hooks; an unregister beside a
  register leaves hooks or metadata behind; a late error disables a new plugin of the old name.
- Two backups of one second share a file; a backup copies a live file without a lock. An
  incremental backup holds no records and its checksum is one of a label, so it never
  verifies; a chain restore verifies nothing and restores nothing. `max_count` is not
  enforced, and retention deletes the base of a chain. A failed recovery stays "Restoring",
  so cancelling it later deletes what another recovery completed.
- Failover sets the local node primary whatever was elected.

## 6. Plan

Done: every module of section 2, the theorems of section 4. What would come next:
`ServicesTypeOK`; then torn leaf pages in `Kernel`, and scans in
`BTree` once leaves are linked to the right.

## 7. Not modelled

`PROJECT.json` gives the reason for each part. The crate is wide: of its source lines about
two fifths are unit tests inside the files, and most of the rest is code without a state
machine of its own: analytics and its charts, cost heuristics of the query planners, plan
formatting, configuration and error types, HTTP clients for
object stores and language models, metrics and their export, the command line and the
benchmarks. What such code computes is a number, a text or a request; there is nothing in it
for interleavings, crashes or orders of calls to break, and a module for it would be its
transliteration. The map therefore covers the state-changing code of the components above
and a modest share of all lines. `src/src`, the earlier implementation in Zig, which the Rust
crate succeeds, and `src/docs` are left out.
