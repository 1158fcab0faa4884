------------------------------ MODULE MCKernel ------------------------------
(* Model-checking instance of Kernel.                                      *)
EXTENDS Kernel, TLC

(* Keys, values and slots are interchangeable. *)
Symmetry == Permutations(Key) \cup Permutations(Value)
              \cup Permutations(Writer) \cup Permutations(Reader)

(* No guard of the specification reads the leaf, the buffered mutations,   *)
(* the log or the history, so a run about the registry and the meta pages  *)
(* alone may identify states that differ only there.                       *)
ControlView == <<up, dbVars, lock, id, state, pc, ops, snap, metaA, metaB,
                 survA, survB, acked, crashes>>
=============================================================================
