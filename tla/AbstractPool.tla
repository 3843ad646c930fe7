----------------------------- MODULE AbstractPool -----------------------------
(***************************************************************************)
(* What an allocator of blocks of one size promises: a request is answered *)
(* with a block nobody holds, and refused only when all are held.          *)
(***************************************************************************)
CONSTANTS
    Pools,  \* the sets of blocks of which the pool may be one
    NULL,   \* the answer to a refused request
    NONE    \* no answer: after a free, and what is none of the pool's business

VARIABLES
    taken,  \* the blocks that are held
    answer  \* to the last request

vars == <<taken, answer>>

Init == taken = {} /\ answer = NONE

Request ==
    \E b \in (UNION Pools) \ taken :
        /\ taken' = taken \cup {b} /\ answer' = b
        /\ \E pool \in Pools : taken' \subseteq pool

Refuse == taken \in Pools /\ answer' = NULL /\ UNCHANGED taken

Free == \E b \in taken : taken' = taken \ {b} /\ answer' = NONE

Other == answer' = NONE /\ UNCHANGED taken

Next == Request \/ Refuse \/ Free \/ Other

Spec == Init /\ [][Next]_vars
=============================================================================
