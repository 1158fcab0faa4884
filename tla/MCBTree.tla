------------------------------ MODULE MCBTree -------------------------------
(* BTree for model checking: the values of one size are interchangeable.   *)
EXTENDS BTree, TLC

ValueSymmetry == Permutations(Value \ LongValue)
=============================================================================
