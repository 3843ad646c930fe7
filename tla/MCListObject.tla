---------------------------- MODULE MCListObject ----------------------------
(* Small instances of ListObject.                                           *)
EXTENDS ListObject, TLC

ItemSymmetry == Permutations(Items)
=============================================================================
