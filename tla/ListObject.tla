------------------------------ MODULE ListObject ------------------------------
(***************************************************************************)
(* list_object.c: the growing array behind the constants of a program and  *)
(* the arguments of a call, with the memory behind its table.              *)
(*                                                                         *)
(* seq, sure, held and removed are history: what the operations promised,  *)
(* the same with JUNK for every item that has lain behind the table, the   *)
(* references the list has taken and not dropped, and whether an item, or  *)
(* one before the last, was removed.  No guard reads them, but for the     *)
(* bound on held.                                                          *)
(***************************************************************************)
EXTENDS Integers, Sequences, FiniteSets, Functions

CONSTANTS
    Items,        \* the objects that are stored
    NULL,         \* the null pointer
    JUNK,         \* what others have written behind the table
    DefaultSize,  \* LIST_DEFAULT_SIZE
    Sizes,        \* the sizes new_list_object is called with
    MaxItems      \* bound: items in the list

ASSUME SizeAssumption == DefaultSize \in Nat \ {0} /\ Sizes \subseteq Nat
ASSUME MaxItemsAssumption == MaxItems \in Nat
ASSUME ItemsAssumption == NULL \notin Items /\ JUNK \notin Items

VARIABLES
    table,      \* l->table, and the memory behind it
    size,       \* l->size
    allocated,  \* l->allocated
    overrun,    \* whether a cell behind the table was read or written
    live,       \* FALSE once destruct_list_object has run
    seq, sure, held, removed

vars == <<table, size, allocated, overrun, live, seq, sure, held, removed>>

Larger(a, b) == IF a < b THEN b ELSE a

\* new_list_object.
Init ==
    /\ allocated \in {Larger(s, DefaultSize) : s \in Sizes}
    /\ table = [i \in 0..MaxItems |-> NULL]
    /\ size = 0 /\ overrun = FALSE /\ live = TRUE
    /\ seq = <<>> /\ sure = <<>> /\ held = [x \in Items |-> 0] /\ removed = "none"

-----------------------------------------------------------------------------
\* list_get.
Get(i) == IF i >= size THEN NULL ELSE table[i]

\* list_find, of objects that are equal to themselves only.
Find(x) ==
    LET hits == {i \in 0..size - 1 : table[i] = x}
    IN  IF hits = {} THEN -1 ELSE CHOOSE i \in hits : \A j \in hits : i <= j

\* Mutant: every insertion resizes the table.
MustGrowAlways == TRUE

\* The test of list_ensure_size: there is no room for half of the items.
MustGrow == 2 * size >= 3 * allocated

\* The room after list_ensure_size.
Capacity == IF MustGrow THEN (3 * size) \div 2 ELSE allocated

\* Mutant: a new table, which the old one is not copied to.
EnsuredFresh(kept) ==
    [i \in DOMAIN table |-> IF MustGrow THEN JUNK ELSE table[i]]

\* realloc keeps the table; what lay behind it may be lost.

Ensured(kept) ==
    [i \in DOMAIN table |->
        IF MustGrow /\ i >= allocated /\ ~kept THEN JUNK ELSE table[i]]

\* The item becomes t's item number i, and the items behind it move.
Inserted(t, i, x) ==
    [j \in DOMAIN t |->
        IF j = i THEN x ELSE IF i < j /\ j <= size THEN t[j - 1] ELSE t[j]]

\* s with x at position i, counted from 0.
PutIn(s, i, x) == SubSeq(s, 1, i) \o <<x>> \o SubSeq(s, i + 1, Len(s))
\* s without what is at position i.
TakenOut(s, i) == SubSeq(s, 1, i) \o SubSeq(s, i + 2, Len(s))

\* The items that now lie behind the table are not sure any more.
InRoom(s) == [p \in 1..Len(s) |-> IF p <= Capacity THEN s[p] ELSE JUNK]

\* Mutant: the item is stored without INC_REF.
InsertUncounted(i, x) ==
    /\ live /\ i <= size /\ size < MaxItems /\ SumFunction(held) < MaxItems
    /\ \E kept \in BOOLEAN : table' = Inserted(Ensured(kept), i, x)
    /\ allocated' = Capacity
    /\ size' = size + 1
    /\ overrun' = (overrun \/ size >= Capacity)
    /\ seq' = PutIn(seq, i, x) /\ sure' = InRoom(PutIn(sure, i, x))
    /\ UNCHANGED <<live, held, removed>>

\* list_insert, list_prepend (at 0) and list_append (at the end).
Insert(i, x) ==
    /\ live /\ i <= size /\ size < MaxItems /\ SumFunction(held) < MaxItems
    /\ \E kept \in BOOLEAN : table' = Inserted(Ensured(kept), i, x)
    /\ allocated' = Capacity
    /\ size' = size + 1
    /\ overrun' = (overrun \/ size >= Capacity)
    /\ seq' = PutIn(seq, i, x) /\ sure' = InRoom(PutIn(sure, i, x))
    /\ held' = [held EXCEPT ![x] = @ + 1]
    /\ UNCHANGED <<live, removed>>

\* list_remove, which nothing in the program calls: it copies from the second
\* item behind the removed one, and drops no reference.
Remove(i) ==
    /\ live /\ i < size
    /\ table' = [j \in DOMAIN table |->
                    IF i <= j /\ j < size - 1 THEN table[j + 2] ELSE table[j]]
    /\ size' = size - 1
    /\ overrun' = (overrun \/ (i < size - 1 /\ size >= allocated))
    /\ seq' = TakenOut(seq, i) /\ sure' = TakenOut(sure, i)
    /\ removed' = IF i = size - 1 /\ removed # "inner" THEN "last" ELSE "inner"
    /\ UNCHANGED <<allocated, live, held>>

\* The memory behind the table belongs to others, who may write it.
OthersWrite ==
    /\ live
    /\ table' = [i \in DOMAIN table |-> IF i >= allocated THEN JUNK ELSE table[i]]
    /\ UNCHANGED <<size, allocated, overrun, live, seq, sure, held, removed>>

\* destruct_list_object: DEC_REF of what the table holds.
Destruct ==
    /\ live /\ live' = FALSE
    /\ held' = [x \in Items |->
                  held[x] - Cardinality({i \in 0..size - 1 : table[i] = x})]
    /\ UNCHANGED <<table, size, allocated, overrun, seq, sure, removed>>

Next ==
    \/ \E i \in 0..MaxItems : Remove(i) \/ \E x \in Items : Insert(i, x)
    \/ OthersWrite
    \/ Destruct

Spec == Init /\ [][Next]_vars

-----------------------------------------------------------------------------
\* The counters stay in range: the table never gets smaller than
\* LIST_DEFAULT_SIZE (new_list_object, list_ensure_size).
TypeOK ==
    /\ size \in 0..MaxItems
    /\ allocated \in Nat /\ allocated >= DefaultSize
    /\ DOMAIN table = 0..MaxItems
    /\ removed \in {"none", "last", "inner"}

\* A list gives back, by index and by value (list_get, list_find, which
\* store_obj shares constants with), every item that has been in its table
\* since it was put in, whatever was inserted before it and however often
\* list_ensure_size has grown the table.  The table grows only after it was
\* overrun, so the items that lay behind it may be lost; without an overrun
\* none is.  list_remove keeps the other items only when it takes the last.
KeepsItems ==
    removed # "inner" =>
        /\ size = Len(seq)
        /\ ~overrun => sure = seq
        /\ \A i \in 0..size - 1 : sure[i + 1] # JUNK =>
               Get(i) = seq[i + 1] /\ Find(seq[i + 1]) \in 0..i
        /\ \A x \in Items :
               Find(x) >= 0 /\ sure[Find(x) + 1] # JUNK => seq[Find(x) + 1] = x

\* A list from which nothing was removed holds one reference for each item, and
\* its destructor drops them all (list_insert, destruct_list_object).
ReferencesReturned ==
    removed = "none" =>
        /\ live => \A x \in Items :
                     held[x] = Cardinality({i \in 1..Len(seq) : seq[i] = x})
        /\ ~live /\ ~overrun => \A x \in Items : held[x] = 0

\* Up to LIST_DEFAULT_SIZE items every access stays in the table.
RoomForDefault == overrun /\ removed = "none" => size > DefaultSize
=============================================================================
