------------------------------ MODULE Snapshots ------------------------------
(****************************************************************************)
(* The snapshot registry used by threads of its own (snap/registry.rs,      *)
(* snap/concurrency.rs) and what snap/cleanup.rs makes of it.  Its methods  *)
(* take &self and lock for one access at a time: register_snapshot is three *)
(* acquisitions, taking a snapshot two, and a cleanup reads the snapshots,  *)
(* the reference counts and the current id one after the other.  (Db calls  *)
(* it under its own lock, as modelled in Kernel.)  Nothing removes what a   *)
(* cleanup finds, and a handle that is dropped is not counted down.         *)
(****************************************************************************)
EXTENDS Integers, FiniteSets

CONSTANTS
  Thread,
  MaxSnap,        \* bound: transaction ids
  MaxHandles,     \* bound: handles of one snapshot
  MinKeep,        \* config.min_snapshots_to_keep
  MinGap          \* config.min_txn_id_gap

ASSUME SnapshotsAssumption ==
  /\ MaxSnap \in Nat /\ MaxHandles \in Nat /\ MinKeep \in Nat /\ MinGap \in Nat \ {0}

VARIABLES
  roots,        \* ids with a snapshot
  newest,       \* current_txn_id
  counts,       \* ref_counts; 0 for no entry
  step,         \* thread -> [at, id, seen, refs]: what it does and has read
  handles,      \* history: handles given out of each id
  twice         \* history: ids registered more than once

snapVars == <<roots, newest, counts, step, handles, twice>>

SnapId == 0 .. MaxSnap
SnapPlace == {"rest", "duplicate", "write", "count", "refs", "judge", "judged"}
Rest == [at |-> "rest", id |-> 0, seen |-> {}, refs |-> [i \in SnapId |-> 0]]

SnapInit ==
  /\ roots = {0} /\ newest = 0 /\ counts = [i \in SnapId |-> 0]
  /\ step = [t \in Thread |-> Rest]
  /\ handles = [i \in SnapId |-> 0] /\ twice = {}

On(t, place) == step[t].at = place
Do(t, s)     == step' = [step EXCEPT ![t] = s]
Done(t)      == Do(t, Rest)

------------------------------------------------------------------------------
(* register_snapshot: current id, duplicate, then the write. *)
RegisterRead(t, i) ==
  /\ On(t, "rest")
  /\ Do(t, IF i > newest THEN [Rest EXCEPT !.at = "duplicate", !.id = i] ELSE Rest)
  /\ UNCHANGED <<roots, newest, counts, handles, twice>>

RegisterDuplicate(t) ==
  /\ On(t, "duplicate")
  /\ Do(t, IF step[t].id \in roots THEN Rest ELSE [step[t] EXCEPT !.at = "write"])
  /\ UNCHANGED <<roots, newest, counts, handles, twice>>

RegisterWrite(t) ==
  /\ On(t, "write") /\ Done(t)
  /\ roots' = roots \cup {step[t].id}
  /\ counts' = [counts EXCEPT ![step[t].id] = 0]
  /\ newest' = IF step[t].id > newest THEN step[t].id ELSE newest
  /\ twice' = IF step[t].id \in roots THEN twice \cup {step[t].id} ELSE twice
  /\ UNCHANGED handles

(* snapshot and snapshot_at: the root is looked up, then the count raised. *)
SnapshotLook(t, i) ==
  /\ On(t, "rest") /\ i \in roots
  /\ Do(t, [Rest EXCEPT !.at = "count", !.id = i])
  /\ UNCHANGED <<roots, newest, counts, handles, twice>>

(* Mutant: one count for all handles of a snapshot. *)
SnapshotCount_Once(t) ==
  /\ On(t, "count") /\ handles[step[t].id] < MaxHandles /\ Done(t)
  /\ counts' = [counts EXCEPT ![step[t].id] = 1]
  /\ handles' = [handles EXCEPT ![step[t].id] = @ + 1]
  /\ UNCHANGED <<roots, newest, twice>>

SnapshotCount(t) ==
  /\ On(t, "count") /\ handles[step[t].id] < MaxHandles /\ Done(t)
  /\ counts' = [counts EXCEPT ![step[t].id] = @ + 1]
  /\ handles' = [handles EXCEPT ![step[t].id] = @ + 1]
  /\ UNCHANGED <<roots, newest, twice>>

------------------------------------------------------------------------------
(* identify_cleanup_candidates, from copies taken one after the other. *)
CleanupSnapshots(t) ==
  /\ On(t, "rest")
  /\ Do(t, [Rest EXCEPT !.at = "refs", !.seen = roots])
  /\ UNCHANGED <<roots, newest, counts, handles, twice>>

CleanupRefs(t) ==
  /\ On(t, "refs")
  /\ Do(t, [step[t] EXCEPT !.at = "judge", !.refs = counts])
  /\ UNCHANGED <<roots, newest, counts, handles, twice>>

(* should_keep_snapshot *)
Keep(s, i) ==
  \/ i = 0 \/ s.refs[i] > 0
  \/ Cardinality(s.seen) <= MinKeep
  \/ newest - i < MinGap

CleanupJudge(t) ==
  /\ On(t, "judge")
  /\ Do(t, [Rest EXCEPT !.at = "judged",
                        !.seen = {i \in step[t].seen : ~Keep(step[t], i)}, !.refs = step[t].refs])
  /\ UNCHANGED <<roots, newest, counts, handles, twice>>

CleanupEnd(t) ==
  /\ On(t, "judged") /\ Done(t)
  /\ UNCHANGED <<roots, newest, counts, handles, twice>>

SnapNext ==
  \E t \in Thread :
    \/ RegisterDuplicate(t) \/ RegisterWrite(t) \/ SnapshotCount(t)
    \/ CleanupSnapshots(t) \/ CleanupRefs(t) \/ CleanupJudge(t) \/ CleanupEnd(t)
    \/ \E i \in SnapId : RegisterRead(t, i) \/ SnapshotLook(t, i)

SnapSpec == SnapInit /\ [][SnapNext]_snapVars

------------------------------------------------------------------------------
SnapTypeOK ==
  /\ roots \subseteq SnapId /\ newest \in SnapId /\ twice \subseteq SnapId
  /\ counts \in [SnapId -> 0 .. MaxHandles] /\ handles \in [SnapId -> 0 .. MaxHandles]
  /\ step \in [Thread -> [at : SnapPlace, id : SnapId, seen : SUBSET SnapId,
                          refs : [SnapId -> 0 .. MaxHandles]]]

(* The current id is the highest registered one, and so there is always a   *)
(* latest snapshot, though the check for ascending ids and the insertion    *)
(* are not one step and ids may be registered out of order.                 *)
LatestExists == newest \in roots /\ \A i \in roots : i <= newest

(* Every handle given out is counted, but for a snapshot that was           *)
(* registered twice, whose count the second registration sets to nothing.   *)
HandlesCounted == \A i \in SnapId \ twice : counts[i] >= handles[i]

(* What a cleanup calls a candidate is never the first or the current       *)
(* snapshot, registrations between its three reads included.                *)
CandidatesNotCurrent ==
  \A t \in Thread : On(t, "judged") => step[t].seen \cap {0, newest} = {}

(* The registry under concurrent callers: the newest snapshot, the counts  *)
(* of the handles and what a cleanup may remove.                           *)
RegistrySound == LatestExists /\ HandlesCounted /\ CandidatesNotCurrent
==============================================================================
