------------------------------- MODULE Versions -------------------------------
(* Two structures kept beside the tree: the version store                  *)
(* (btree/version.rs), a chain of versions per key with the newest first,  *)
(* cut off at a length and reclaimed below an LSN; and the delta layer     *)
(* (btree/delta.rs), the mutations of one transaction, the last one of     *)
(* each key, with their sizes added up beside them.                        *)
EXTENDS Integers, FiniteSets, Sequences, SequencesExt, FiniteSetsExt, Functions, Filters

CONSTANTS
  VKey,          \* keys
  VLsn,          \* log sequence numbers, a set of naturals
  ChainCap,      \* versions kept of a key, 10 in the code
  MaxAdds,       \* bound on versions added to a key
  PutSize,       \* sizes of a put mutation
  DeleteSize,    \* size of a delete mutation
  MaxDelta,      \* MAX_DELTA_SIZE
  MaxOperations  \* MAX_OPERATIONS_PER_TXN

ASSUME VersionsAssumption ==
  /\ {ChainCap, DeleteSize, MaxDelta, MaxOperations} \subseteq Nat \ {0}
  /\ PutSize \subseteq Nat /\ VLsn \subseteq Nat /\ \A n \in PutSize : n >= DeleteSize

VARIABLES
  chain,      \* VersionStore: key -> LSNs of its chain, newest first
  \* history
  added,      \* key -> LSNs of all versions added since its chain was removed
  shuffled,   \* keys to which a lower LSN was added after a higher one
  horizon     \* highest LSN reclaimed below

versionVars == <<chain, added, shuffled, horizon>>

VersionInit ==
  /\ chain = [k \in VKey |-> <<>>] /\ added = chain
  /\ shuffled = {} /\ horizon = 0

(* A value or a tombstone: which one makes no difference to the chain, and *)
(* an LSN stands for it.                                                   *)
Recorded(k, l) ==
  /\ Len(added[k]) < MaxAdds
  /\ added' = [added EXCEPT ![k] = Append(@, l)]
  /\ shuffled' = IF added[k] # <<>> /\ Last(added[k]) >= l THEN shuffled \cup {k} ELSE shuffled
  /\ UNCHANGED horizon

(* Mutant: a chain that is full keeps its oldest versions. *)
AddNewest_KeepOldest(k, l) ==
  /\ chain' = [chain EXCEPT ![k] = IF Len(@) < ChainCap THEN <<l>> \o @
                                   ELSE <<l>> \o Tail(@)]
  /\ Recorded(k, l)

AddNewest(k, l) ==
  /\ chain' = [chain EXCEPT ![k] = SubSeq(<<l>> \o @, 1, Min({ChainCap, Len(@) + 1}))]
  /\ Recorded(k, l)

(* reclaim_all: every chain keeps the versions from that LSN on. *)
ReclaimAll(oldest) ==
  /\ chain' = [k \in VKey |-> Only(chain[k], {l \in VLsn : l >= oldest})]
  /\ horizon' = Max({horizon, oldest})
  /\ UNCHANGED <<added, shuffled>>

(* remove_chain, and clear for all keys. *)
RemoveChains(S) ==
  /\ chain' = [k \in VKey |-> IF k \in S THEN <<>> ELSE chain[k]]
  /\ added' = [k \in VKey |-> IF k \in S THEN <<>> ELSE added[k]]
  /\ shuffled' = shuffled \ S
  /\ UNCHANGED horizon

VersionNext ==
  \/ \E k \in VKey : RemoveChains({k}) \/ \E l \in VLsn : AddNewest(k, l)
  \/ \E l \in VLsn : ReclaimAll(l)
  \/ RemoveChains(VKey)

VersionSpec == VersionInit /\ [][VersionNext]_versionVars

(* VersionChain::resolve: the first version the snapshot may see; 0 if     *)
(* there is none.                                                          *)
Resolve(vs, s) == LET seen == Only(vs, {l \in VLsn : l <= s})
                  IN  IF seen = <<>> THEN 0 ELSE Head(seen)

(* For versions added in LSN order, a snapshot is shown the newest version *)
(* not above it or none, never an older one; and it is shown that version  *)
(* unless so many were added since, or a reclaim went past it.             *)
ResolveExact ==
  \A k \in VKey \ shuffled, s \in VLsn :
    LET right == {i \in DOMAIN added[k] : added[k][i] <= s}
        shown == Resolve(chain[k], s)
    IN  IF right = {} THEN shown = 0
        ELSE LET i == Max(right)
             IN  /\ shown \in {0, added[k][i]}
                 /\ i > Len(added[k]) - ChainCap /\ added[k][i] >= horizon => shown = added[k][i]

-------------------------------------------------------------------------------
VARIABLES
  mutations,   \* DeltaLayer: key -> [put, size]
  deltaSize,   \* its size
  operations   \* its operation_count

deltaVars == <<mutations, deltaSize, operations>>

DeltaInit == mutations = <<>> /\ deltaSize = 0 /\ operations = 0

(* The bytes of the mutations m, one element each. *)
DeltaBytes(m) == UNION {{k} \X (1 .. m[k].size) : k \in DOMAIN m}
SizeAt(k) == IF k \in DOMAIN mutations THEN mutations[k].size ELSE 0
Replace(k, m) == [x \in DOMAIN mutations \cup {k} |-> IF x = k THEN m ELSE mutations[x]]

(* Mutant: the size of the mutation replaced is still counted. *)
Record_NoSubtract(k, m) ==
  /\ operations < MaxOperations
  /\ mutations' = Replace(k, m) /\ deltaSize' = deltaSize + m.size
  /\ operations' = IF k \in DOMAIN mutations THEN operations ELSE operations + 1

(* What record_put and record_delete share. *)
Record(k, m) ==
  /\ operations < MaxOperations
  /\ mutations' = Replace(k, m) /\ deltaSize' = deltaSize - SizeAt(k) + m.size
  /\ operations' = IF k \in DOMAIN mutations THEN operations ELSE operations + 1

(* Refused when it would not fit beside the mutation it replaces. *)
RecordPut(k, n) == deltaSize + n <= MaxDelta /\ Record(k, [put |-> TRUE, size |-> n])

(* Not subject to the size limit. *)
RecordDelete(k) == Record(k, [put |-> FALSE, size |-> DeleteSize])

(* deserialize of what serialize wrote: kinds, keys and values are kept,   *)
(* the counters are made anew and the LSNs are lost.                       *)
Reload ==
  /\ deltaSize' = Cardinality(DeltaBytes(mutations))
  /\ operations' = Cardinality(DOMAIN mutations)
  /\ UNCHANGED mutations

ClearDelta == mutations' = <<>> /\ deltaSize' = 0 /\ operations' = 0

DeltaNext ==
  \/ \E k \in VKey : RecordDelete(k) \/ \E n \in PutSize : RecordPut(k, n)
  \/ Reload \/ ClearDelta

DeltaSpec == DeltaInit /\ [][DeltaNext]_deltaVars

-------------------------------------------------------------------------------
(* Types. *)
VersionsTypeOK ==
  /\ \A k \in VKey : Len(chain[k]) <= ChainCap /\ Range(chain[k]) \subseteq VLsn
  /\ DOMAIN mutations \subseteq VKey /\ operations \in 0 .. MaxOperations

(* The size and the operation count kept beside the mutations are those of *)
(* the mutations, through replacements of one kind by the other and a      *)
(* reload: the usize subtraction of a replaced size cannot wrap. Puts keep *)
(* to the limit; only deletes, which are not tested, go past it.           *)
DeltaAccounted ==
  /\ deltaSize = Cardinality(DeltaBytes(mutations))
  /\ operations = Cardinality(DOMAIN mutations)
  /\ deltaSize <= MaxDelta + DeleteSize * Cardinality({k \in DOMAIN mutations : ~mutations[k].put})

===============================================================================
