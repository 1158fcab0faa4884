------------------------------- MODULE RefModel -------------------------------
(* The in-memory database that tests compare the real one with             *)
(* (refmodel/mod.rs, ops.rs, tree.rs, snapshot.rs). A key has a chain of   *)
(* versions ordered by LSN; commit applies the transaction's mutations     *)
(* before it asks whether the transaction may commit.                      *)
(*                                                                         *)
(* A tombstone carries the largest LSN there is, so versions put later     *)
(* stand before it; versions of one LSN stand in the order a binary search *)
(* happens to give, which Rust leaves open.                                *)
EXTENDS Integers, FiniteSets, Sequences, SequencesExt, FiniteSetsExt

CONSTANTS
  RefKey, RefValue,
  NoValue,        \* a tombstone, and what get gives for an absent key
  RefTxn,         \* transactions ever begun
  MaxRefLsn,      \* bound on commits
  MaxMutations,   \* bound on the mutations of one transaction
  VersionCap,     \* versions kept of a key, 100 in the code
  SnapshotCap     \* snapshots kept, 100 in the code

ASSUME RefModelAssumption ==
  /\ NoValue \notin RefValue
  /\ {MaxRefLsn, MaxMutations, VersionCap, SnapshotCap} \subseteq Nat \ {0}

VARIABLES
  versionsOf, \* RefTree: key -> versions, oldest first; <<>> when there is none
  lsn,        \* RefModel::lsn
  pending,    \* TransactionManager: transaction -> [at, mutations]
  snaps,      \* SnapshotRegistry: LSN -> tree
  \* history
  lastPut,    \* key -> value of the last put that was applied
  irregular   \* keys deleted, or put more than once under one LSN

refVars == <<versionsOf, lsn, pending, snaps, lastPut, irregular>>

Top       == MaxRefLsn + 1                       \* u64::MAX
Mutation  == [key : RefKey, value : RefValue \cup {NoValue}]
NotBegun  == [at |-> "none", muts |-> <<>>]

RefInit ==
  /\ versionsOf = [k \in RefKey |-> <<>>] /\ lsn = 0 /\ snaps = <<>>
  /\ pending = [t \in RefTxn |-> NotBegun]
  /\ lastPut = [k \in RefKey |-> NoValue] /\ irregular = {}

RefGet(tree, k) == IF tree[k] = <<>> THEN NoValue ELSE Last(tree[k]).value

(* VersionChain::add_version: where a version of this LSN may be put. *)
Places(chain, l) ==
  LET same == {i \in DOMAIN chain : chain[i].lsn = l}
  IN  IF same # {} THEN same ELSE {1 + Cardinality({i \in DOMAIN chain : chain[i].lsn < l})}

(* Mutant: the newest version is pruned. *)
Pruned_Newest(chain) == IF Len(chain) > VersionCap THEN Front(chain) ELSE chain

Pruned(chain) == IF Len(chain) > VersionCap THEN Tail(chain) ELSE chain

AddVersion(tree, k, v, l) ==
  {[tree EXCEPT ![k] = Pruned(InsertAt(@, i, [value |-> v, lsn |-> l]))] : i \in Places(tree[k], l)}

(* RefTree::put and delete; a key without a chain gets no tombstone. *)
Applied(tree, m) ==
  IF m.value # NoValue THEN AddVersion(tree, m.key, m.value, lsn)
  ELSE IF tree[m.key] = <<>> THEN {tree}
  ELSE AddVersion(tree, m.key, NoValue, Top)

BeginTxn(t) ==
  /\ pending[t] = NotBegun
  /\ pending' = [pending EXCEPT ![t].at = "active"]
  /\ UNCHANGED <<versionsOf, lsn, snaps, lastPut, irregular>>

AddMutation(t, m) ==
  /\ pending[t].at = "active" /\ Len(pending[t].muts) < MaxMutations
  /\ pending' = [pending EXCEPT ![t].muts = Append(@, m)]
  /\ UNCHANGED <<versionsOf, lsn, snaps, lastPut, irregular>>

(* What the history remembers of the mutations applied by a commit. *)
Remember(muts) ==
  LET on(k) == {i \in DOMAIN muts : muts[i].key = k}
  IN  /\ irregular' = irregular \cup
           {k \in RefKey : \E i \in on(k) : on(k) # {i} \/ muts[i].value = NoValue}
      /\ lastPut' = [k \in RefKey |-> IF on(k) = {} THEN lastPut[k] ELSE muts[Max(on(k))].value]

(* The trees that the mutations, one after the other, may give. *)
Outcomes(muts) ==
  LET trees[i \in 0 .. Len(muts)] ==
        IF i = 0 THEN {versionsOf} ELSE UNION {Applied(tree, muts[i]) : tree \in trees[i - 1]}
  IN  trees[Len(muts)]

Apply(muts) == versionsOf' \in Outcomes(muts)

(* RefModel::commit. For a transaction committed before it returns an      *)
(* error, after it has applied the mutations again and advanced the LSN.   *)
CommitTxn(t) ==
  /\ pending[t].at \in {"active", "committed"} /\ lsn < MaxRefLsn
  /\ Apply(pending[t].muts) /\ Remember(pending[t].muts)
  /\ lsn' = lsn + 1
  /\ pending' = [pending EXCEPT ![t].at = "committed"]
  /\ UNCHANGED snaps

(* Rollback of a committed transaction is refused. *)
RollbackTxn(t) ==
  /\ pending[t].at = "active"
  /\ pending' = [pending EXCEPT ![t] = [at |-> "gone", muts |-> <<>>]]
  /\ UNCHANGED <<versionsOf, lsn, snaps, lastPut, irregular>>

(* create_snapshot and add_snapshot: the lowest LSNs go when there are too *)
(* many.                                                                   *)
CreateSnapshot ==
  LET all  == DOMAIN snaps \cup {lsn}
      kept == {l \in all : Cardinality({h \in all : h >= l}) <= SnapshotCap}
  IN  /\ snaps' = [l \in kept |-> IF l = lsn THEN versionsOf ELSE snaps[l]]
      /\ UNCHANGED <<versionsOf, lsn, pending, lastPut, irregular>>

RefNext ==
  \/ \E t \in RefTxn : \/ BeginTxn(t) \/ CommitTxn(t) \/ RollbackTxn(t)
                       \/ \E m \in Mutation : AddMutation(t, m)
  \/ CreateSnapshot

RefSpec == RefInit /\ [][RefNext]_refVars

-------------------------------------------------------------------------------
(* Types; the versions of a chain are in LSN order. *)
RefTypeOK ==
  /\ \A k \in RefKey : /\ Len(versionsOf[k]) <= VersionCap
                       /\ \A i, j \in DOMAIN versionsOf[k] :
                            i < j => versionsOf[k][i].lsn <= versionsOf[k][j].lsn
  /\ lsn \in 0 .. MaxRefLsn
  /\ DOMAIN snaps \subseteq 0 .. lsn /\ Cardinality(DOMAIN snaps) <= SnapshotCap
  /\ \A t \in RefTxn : pending[t].at \in {"none", "active", "committed", "gone"}

(* The oracle is right about every key that was never deleted nor put      *)
(* twice in one transaction: get gives the value of the commit that came   *)
(* last, in whatever order transactions were begun, rolled back, committed *)
(* or committed a second time.                                             *)
OracleExact == \A k \in RefKey \ irregular : RefGet(versionsOf, k) = lastPut[k]

(* A snapshot's LSN names one state: as long as the LSN is the current     *)
(* one the tree is still what the snapshot holds, whichever commits failed *)
(* in between; get_at is looked up by that LSN.                            *)
SnapshotFixed == lsn \in DOMAIN snaps => snaps[lsn] = versionsOf

(* The oracle can be trusted, outside the irregular keys: get and get_at.  *)
OracleRight == OracleExact /\ SnapshotFixed
===============================================================================
