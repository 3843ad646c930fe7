----------------------------- MODULE AbstractMap -----------------------------
(***************************************************************************)
(* What a table of names promises: a put that returns has given its key    *)
(* the new value, and changed nothing else.                                *)
(***************************************************************************)
CONSTANTS Keys, Vals, NONE

VARIABLES
    map,  \* what a get of every key returns
    arg   \* the key and the value of the put under way, <<>> for none

vars == <<map, arg>>

Init == map = [key \in Keys |-> NONE] /\ arg = <<>>

Call(key, val) == arg = <<>> /\ arg' = <<key, val>> /\ UNCHANGED map

Return == arg # <<>> /\ map' = [map EXCEPT ![arg[1]] = arg[2]] /\ arg' = <<>>

Next == (\E key \in Keys, val \in Vals : Call(key, val)) \/ Return

Spec == Init /\ [][Next]_vars
=============================================================================
