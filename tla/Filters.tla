------------------------------- MODULE Filters -------------------------------
(* A sequence without some of its elements, as retain and filter of Rust's *)
(* collections give it.                                                    *)
EXTENDS Integers, Sequences

(* The elements of s that are in K, in their order.  It is SelectSeq with  *)
(* a set for the test, spelled out as a recursive function: the proofs     *)
(* need its defining equation.                                             *)
Only(s, K) ==
  LET kept[i \in 0 .. Len(s)] ==
        IF i = 0 THEN <<>>
        ELSE IF s[i] \in K THEN Append(kept[i - 1], s[i]) ELSE kept[i - 1]
  IN  kept[Len(s)]
==============================================================================
