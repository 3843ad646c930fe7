------------------------------- MODULE MCPromise -------------------------------
(***************************************************************************)
(* The sessions of MCVm, with what each of them means.                     *)
(***************************************************************************)
EXTENDS VmCorrect, MCVm
=============================================================================
