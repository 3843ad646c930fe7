----------------------------- MODULE MCOwnership -----------------------------
(* Small instances of Ownership.                                            *)
EXTENDS Ownership

OneParam == {<<"a">>}
=============================================================================
