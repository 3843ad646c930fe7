---------------------------- MODULE MCLogicBlocks ----------------------------
(* Instances of LogicBlocks for TLC: the addresses are symmetric.           *)
EXTENDS LogicBlocks, TLC

LBSymmetry == Permutations(LB)
=============================================================================
