----------------------------- MODULE DurableLog -----------------------------
(***************************************************************************)
(* What a write-ahead log promises: a sequence of entries that grows at    *)
(* its end, a stable part that nothing takes away, and losses only of an   *)
(* unstable suffix and only where there was trouble (a crash, an I/O       *)
(* error).  After a write that failed half way (`damaged`) the promise     *)
(* shrinks to the entries that were already stable.                        *)
(***************************************************************************)
EXTENDS Integers, SequencesExt

CONSTANT EntryIds
VARIABLES entries, stable, damaged, troubles

lvars == <<entries, stable, damaged, troubles>>

Init == entries = <<>> /\ stable = 0 /\ damaged = FALSE /\ troubles = 0

AppendEntry == /\ ~damaged
               /\ \E e \in EntryIds : entries' = Append(entries, e)
               /\ UNCHANGED <<stable, damaged, troubles>>

Stabilise == /\ ~damaged /\ stable' = Len(entries)
             /\ UNCHANGED <<entries, damaged, troubles>>

(* Trouble keeps a prefix that holds the stable entries.                   *)
Lose == /\ ~damaged /\ troubles' > troubles
        /\ IsPrefix(entries', entries) /\ Len(entries') >= stable
        /\ UNCHANGED <<stable, damaged>>

(* Around a failed write only the stable entries are sure.                 *)
Damage == /\ damaged \/ damaged'
          /\ damaged' \in BOOLEAN
          /\ IsPrefix(SubSeq(entries, 1, stable), entries')
          /\ UNCHANGED stable

Next == AppendEntry \/ Stabilise \/ Lose \/ Damage

Spec == Init /\ [][Next]_lvars
=============================================================================
