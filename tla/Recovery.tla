------------------------------ MODULE Recovery -------------------------------
(****************************************************************************)
(* btree/recovery.rs: recover_btree scans the write-ahead log, keeps the    *)
(* records in transaction id order and replays their mutations into the     *)
(* tree on disk; with the write transactions (txn/write_txn.rs) that fill   *)
(* log and tree, and power loss in the middle of either.                    *)
(*                                                                          *)
(* recover_btree is a library function: Db::open does not call it, so the   *)
(* database may also be opened without it.  It syncs nothing, so a power    *)
(* loss during or after it may take back any of the entries it wrote.       *)
(* Damage is modelled where the log's iterator meets it: it ends there, as  *)
(* at the end of the log, and reports nothing (WalReplayIterator::next in   *)
(* Wal), so the branch of scan_wal_for_commits that resynchronises is never *)
(* taken.  Every record whose payload passes the log's check carries its    *)
(* own good checksum, so none is skipped by filter_committed_transactions.  *)
(****************************************************************************)
EXTENDS Integers, Sequences

CONSTANTS
  RKey, RValue,
  Gone,             \* no entry; as a mutation, Delete
  Same,             \* the transaction has no mutation for the key
  RWriter,          \* slots of write transactions
  MaxId,            \* bound: transaction ids
  MaxRecords,       \* bound: records of the log
  MaxPowerLosses    \* bound

ASSUME RecoveryAssumption ==
  /\ MaxId \in Nat /\ MaxRecords \in Nat /\ MaxPowerLosses \in Nat
  /\ Gone \notin RValue /\ Same \notin RValue /\ Gone # Same

VARIABLES
  rlog,       \* the records appended and synced, in log order: [id, muts]
  readable,   \* how many of them precede the first damaged one
  tree,       \* the entries as the OS sees them
  synced,     \* the entries at the last sync
  rmeta,      \* the highest id registered, in the synced meta pages
  handed,     \* DbInner.current_txn_id
  txn,        \* writer -> [at, id, pos]: pos is its record's place in the log
  stage,      \* "running", "crashed", "replaying" or "recovered"
  todo,       \* places of the records still to be replayed
  losses,
  \* history: places of records whose commit returned Ok and of those whose
  \* transaction was aborted, the contents the commits add up to, the tree
  \* the first recovery since the database ran was started on
  acked, aborted, committed, found

recVars == <<rlog, readable, tree, synced, rmeta, handed, txn, stage, todo, losses,
             acked, aborted, committed, found>>
history == <<acked, aborted, committed>>

NoTxn == [at |-> "none", id |-> 0, pos |-> 0]
Nothing == [k \in RKey |-> Gone]
Mutations == [RKey -> RValue \cup {Gone, Same}] \ {[k \in RKey |-> Same]}
Over(entries, muts) == [k \in RKey |-> IF muts[k] = Same THEN entries[k] ELSE muts[k]]

RecoveryInit ==
  /\ rlog = <<>> /\ readable = 0 /\ tree = Nothing /\ synced = Nothing
  /\ rmeta = 0 /\ handed = 0 /\ txn = [w \in RWriter |-> NoTxn]
  /\ stage = "running" /\ todo = {} /\ losses = 0
  /\ acked = {} /\ aborted = {} /\ committed = Nothing /\ found = Nothing

Moves(w, place) == txn' = [txn EXCEPT ![w].at = place]

Begin(w) ==
  /\ stage = "running" /\ txn[w].at = "none" /\ handed < MaxId
  /\ handed' = handed + 1
  /\ txn' = [txn EXCEPT ![w] = [NoTxn EXCEPT !.at = "client", !.id = handed + 1]]
  /\ UNCHANGED <<rlog, readable, tree, synced, rmeta, stage, todo, losses, history, found>>

(* prepare: the record is appended and synced before anything is applied. *)
Prepare(w, muts) ==
  /\ stage = "running" /\ txn[w].at = "client" /\ Len(rlog) < MaxRecords
  /\ rlog' = Append(rlog, [id |-> txn[w].id, muts |-> muts])
  /\ readable' = Len(rlog')
  /\ txn' = [txn EXCEPT ![w].at = "prepared", ![w].pos = Len(rlog')]
  /\ UNCHANGED <<tree, synced, rmeta, handed, stage, todo, losses, history, found>>

Apply(w) ==
  /\ stage = "running" /\ txn[w].at = "prepared"
  /\ tree' = Over(tree, rlog[txn[w].pos].muts)
  /\ Moves(w, "applied")
  /\ UNCHANGED <<rlog, readable, synced, rmeta, handed, stage, todo, losses, history, found>>

(* register_snapshot: an id that is not above the registered ones is        *)
(* refused; otherwise the meta pages are written and the file synced.       *)
Register(w) ==
  /\ stage = "running" /\ txn[w].at = "applied"
  /\ IF txn[w].id > rmeta
     THEN /\ rmeta' = txn[w].id /\ synced' = tree
          /\ acked' = acked \cup {txn[w].pos}
          /\ committed' = Over(committed, rlog[txn[w].pos].muts)
     ELSE UNCHANGED <<rmeta, synced, acked, committed>>
  /\ Moves(w, "none")
  /\ UNCHANGED <<rlog, readable, tree, handed, stage, todo, losses, aborted, found>>

Abort(w) ==
  /\ stage = "running" /\ txn[w].at \in {"client", "prepared"}
  /\ aborted' = IF txn[w].at = "prepared" THEN aborted \cup {txn[w].pos} ELSE aborted
  /\ Moves(w, "none")
  /\ UNCHANGED <<rlog, readable, tree, synced, rmeta, handed, stage, todo, losses, acked,
                 committed, found>>

(* Power is lost: of what was written since the last sync, any entries      *)
(* may be gone.  `found` is kept through interrupted recoveries.            *)
PowerLoss ==
  /\ losses < MaxPowerLosses /\ losses' = losses + 1
  /\ tree' \in {[k \in RKey |-> IF k \in kept THEN tree[k] ELSE synced[k]] : kept \in SUBSET RKey}
  /\ synced' = tree'
  /\ found' = IF stage = "running" THEN tree' ELSE found
  /\ txn' = [w \in RWriter |-> NoTxn]
  /\ stage' = "crashed" /\ todo' = {}
  /\ UNCHANGED <<rlog, readable, rmeta, handed, history>>

(* A record of the log is damaged while the database is down. *)
Damage ==
  /\ stage = "crashed" /\ readable > 0
  /\ readable' \in 0 .. (readable - 1)
  /\ UNCHANGED <<rlog, tree, synced, rmeta, handed, txn, stage, todo, losses, history, found>>

------------------------------------------------------------------------------
(* filter_committed_transactions: the sort by id is stable, and an id given *)
(* out again after a crash stands in the log more than once.                *)
Before(i, j) == rlog[i].id < rlog[j].id \/ (rlog[i].id = rlog[j].id /\ i < j)

(* Mutant: records with one id in reverse. *)
Foremost_Unstable(i, S) ==
  \A j \in S \ {i} : rlog[i].id < rlog[j].id \/ (rlog[i].id = rlog[j].id /\ i > j)

Foremost(i, S) == \A j \in S \ {i} : Before(i, j)

(* recover_btree: scan_wal_for_commits and the filter; without records it   *)
(* is complete at once.                                                     *)
Recover ==
  /\ stage = "crashed"
  /\ stage' = "replaying" /\ todo' = 1 .. readable
  /\ UNCHANGED <<rlog, readable, tree, synced, rmeta, handed, txn, losses, history, found>>

(* replay_mutations, one record, the foremost that is left: put or delete,  *)
(* whatever the tree holds.                                                 *)
ReplayOne ==
  /\ stage = "replaying"
  /\ \E i \in todo : /\ Foremost(i, todo)
                    /\ tree' = Over(tree, rlog[i].muts) /\ todo' = todo \ {i}
  /\ UNCHANGED <<rlog, readable, synced, rmeta, handed, txn, stage, losses, history, found>>

RecoverDone ==
  /\ stage = "replaying" /\ todo = {}
  /\ stage' = "recovered"
  /\ UNCHANGED <<rlog, readable, tree, synced, rmeta, handed, txn, todo, losses, history, found>>

(* Db::open: the ids go on from the meta pages, not from the log.  What     *)
(* transactions do to a damaged log is Wal's subject.                       *)
Reopen ==
  /\ stage \in {"crashed", "recovered"} /\ readable = Len(rlog)
  /\ stage' = "running" /\ handed' = rmeta
  /\ UNCHANGED <<rlog, readable, tree, synced, rmeta, txn, todo, losses, history, found>>

RecoveryNext ==
  \/ \E w \in RWriter : \/ Begin(w) \/ Apply(w) \/ Register(w) \/ Abort(w)
                        \/ \E muts \in Mutations : Prepare(w, muts)
  \/ PowerLoss \/ Damage \/ Recover \/ ReplayOne \/ RecoverDone \/ Reopen

------------------------------------------------------------------------------
RecoverySpec == RecoveryInit /\ [][RecoveryNext]_recVars

(* Types. *)
RecoveryTypeOK ==
  /\ rlog \in Seq([id : 1 .. MaxId, muts : Mutations]) /\ readable \in 0 .. Len(rlog)
  /\ {tree, synced, committed, found} \subseteq [RKey -> RValue \cup {Gone}]
  /\ rmeta \in 0 .. handed /\ handed \in 0 .. MaxId
  /\ stage \in {"running", "crashed", "replaying", "recovered"}
  /\ todo \subseteq 1 .. readable /\ acked \cup aborted \subseteq 1 .. Len(rlog)

Touching(k) == {i \in 1 .. readable : rlog[i].muts[k] # Same}

(* However often a power loss interrupted it, and whatever each one left of *)
(* what was replayed, a recovery that completes leaves for every key the    *)
(* mutation of the readable record with the highest id, the later of two    *)
(* with one id, and for keys of no record, damaged ones included, what was  *)
(* there when the database went down: replaying is repeatable.              *)
RecoveryConverges ==
  stage = "recovered" =>
    \A k \in RKey :
      \/ /\ Touching(k) = {}
         /\ (\A i \in 1 .. Len(rlog) : rlog[i].muts[k] = Same) => tree[k] = found[k]
      \/ \E i \in Touching(k) : /\ \A j \in Touching(k) \ {i} : Before(j, i)
                                /\ tree[k] = rlog[i].muts[k]

(* A completed recovery of an undamaged log gives back what the commits     *)
(* that returned Ok add up to, in the order they were registered, for every *)
(* key that no other transaction in the log has touched.                    *)
RecoversCommitted ==
  (stage = "recovered" /\ readable = Len(rlog)) =>
    \A k \in RKey : Touching(k) \subseteq acked => tree[k] = committed[k]

(* WriteTxn::abort says of a prepared transaction that its record "will be  *)
(* ignored during recovery since no snapshot was registered": no key gets   *)
(* its value from the record of a transaction that was aborted.             *)
AbortedIgnored ==
  stage = "recovered" =>
    \A k \in RKey : (Touching(k) # {} /\ Touching(k) \subseteq aborted) => tree[k] = found[k]

(* Recovery is repeatable and gives back what was acknowledged.            *)
RecoverySound == RecoveryConverges /\ RecoversCommitted
==============================================================================
