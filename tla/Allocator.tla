------------------------------- MODULE Allocator -------------------------------
(***************************************************************************)
(* memory/allocator.c: blocks of up to MAX_BLOCK_SIZE bytes, cut from one  *)
(* page for each size class, and the list of free blocks that runs through *)
(* the blocks themselves.                                                  *)
(*                                                                         *)
(* An address is a page of the pool and an offset in units of 8 bytes.     *)
(* What is larger than MAX_BLOCK_SIZE goes to malloc and is not followed:  *)
(* r_free, which takes every pointer for one into the pool, must not get   *)
(* it.  Callers free what they hold, and write to blocks they hold only.   *)
(*                                                                         *)
(* held and freed are history: how many callers hold an address, and the   *)
(* blocks of class 1 freed and not yet handed out again, the last first.   *)
(***************************************************************************)
EXTENDS Integers, Sequences

CONSTANTS
    PageSize,  \* PAGE_SIZE, in units
    Header,    \* sizeof(struct bucket), in units
    MaxZero,   \* bound: callers that hold the pointer of a request of no bytes
    NULL,      \* the null pointer
    DATA       \* what a caller has written into a block

ASSUME SizesAssumption ==
    PageSize \in Nat /\ Header \in Nat /\ Header < PageSize /\ MaxZero \in Nat

MAX_BLOCK_SIZE == 8
SIZE2INDEX(s) == (s + 7) \div 8

Sizes == 0..MAX_BLOCK_SIZE
Classes == {SIZE2INDEX(s) : s \in Sizes}
Pages == 0..1
Addresses == Pages \X (0..PageSize - 1)

\* What result is before r_malloc has run, and after r_free.
NONE == <<>>

ASSUME PointersAssumption == NULL \notin Pages \cup Addresses \cup {NONE}

VARIABLES
    bucketlist,              \* the page of each class, or NULL
    available_bucket_index,  \* the first page without a bucket
    bucket,                  \* the struct bucket at the start of each page
    memory,                  \* the unit at each address
    result,                  \* what the last r_malloc returned
    held, freed

vars == <<bucketlist, available_bucket_index, bucket, memory, result, held, freed>>

Init ==
    /\ bucketlist = [i \in Classes |-> NULL]
    /\ available_bucket_index = 0
    /\ bucket = [p \in Pages |-> [freelist |-> NULL, offset |-> 0, max_offset |-> 0]]
    /\ memory = [a \in Addresses |-> NULL]
    /\ result = NONE
    /\ held = [a \in Addresses |-> 0]
    /\ freed = <<>>

Return(a) == result' = a /\ held' = [held EXCEPT ![a] = @ + 1]

\* r_malloc, the last branch: the first request of a class takes a page.
NewBucket(i) ==
    /\ bucketlist[i] = NULL
    /\ LET p == available_bucket_index
       IN  /\ bucketlist' = [bucketlist EXCEPT ![i] = p]
           /\ bucket' = [bucket EXCEPT ![p] =
                 [freelist |-> NULL, offset |-> Header + i, max_offset |-> PageSize]]
           /\ Return(<<p, Header>>)
    /\ available_bucket_index' = available_bucket_index + 1
    /\ UNCHANGED <<memory, freed>>

\* r_malloc: the first free block, whose content is the pointer to the next.
PopFree(i) ==
    /\ bucketlist[i] # NULL
    /\ LET p == bucketlist[i]
           b == bucket[p].freelist
       IN  /\ b # NULL
           /\ bucket' = [bucket EXCEPT ![p].freelist = memory[b]]
           /\ Return(b)
           /\ freed' = IF i = 1 THEN Tail(freed) ELSE freed
    /\ UNCHANGED <<bucketlist, available_bucket_index, memory>>

\* Mutant: the offset stays where it is.
CutInPlace(i) ==
    /\ bucketlist[i] # NULL
    /\ LET p == bucketlist[i]
           list == bucket[p]
       IN  /\ list.freelist = NULL /\ list.offset < list.max_offset
           /\ Return(<<p, list.offset>>)
    /\ UNCHANGED <<bucketlist, available_bucket_index, bucket, memory, freed>>

\* Mutant: <= for <.
CutPastEnd(i) ==
    /\ bucketlist[i] # NULL
    /\ LET p == bucketlist[i]
           list == bucket[p]
       IN  /\ list.freelist = NULL /\ list.offset <= list.max_offset
           /\ Return(<<p, list.offset>>)
           /\ bucket' = [bucket EXCEPT ![p].offset = @ + i]
    /\ UNCHANGED <<bucketlist, available_bucket_index, memory, freed>>

\* r_malloc: the next block of the page.  A block of class 0 has no size, so
\* that the next is the same.
Cut(i) ==
    /\ bucketlist[i] # NULL
    /\ LET p == bucketlist[i]
           list == bucket[p]
       IN  /\ list.freelist = NULL /\ list.offset < list.max_offset
           /\ Return(<<p, list.offset>>)
           /\ bucket' = [bucket EXCEPT ![p].offset = @ + i]
    /\ UNCHANGED <<bucketlist, available_bucket_index, memory, freed>>

\* Mutant: a page is taken for full with its last block unused.
FullEarly(list, i) == list.freelist = NULL /\ list.offset + i >= list.max_offset

Full(list, i) == list.freelist = NULL /\ list.offset >= list.max_offset

\* r_malloc: a full page has no successor.
Refuse(i) ==
    /\ bucketlist[i] # NULL /\ Full(bucket[bucketlist[i]], i)
    /\ result' = NULL
    /\ UNCHANGED <<bucketlist, available_bucket_index, bucket, memory, held, freed>>

r_malloc(s) ==
    LET i == SIZE2INDEX(s)
    IN  NewBucket(i) \/ PopFree(i) \/ Cut(i) \/ Refuse(i)

\* Mutant: the block is not linked to the head of the list.
FreeUnlinked(a) ==
    /\ held[a] > 0
    /\ bucket' = [bucket EXCEPT ![a[1]].freelist = a]
    /\ result' = NONE
    /\ held' = [held EXCEPT ![a] = @ - 1]
    /\ freed' = IF a[1] = bucketlist[1] THEN <<a>> \o freed ELSE freed
    /\ UNCHANGED <<bucketlist, available_bucket_index, memory>>

\* r_free: the bucket is at the start of the page of the block.
r_free(a) ==
    /\ held[a] > 0
    /\ bucket' = [bucket EXCEPT ![a[1]].freelist = a]
    /\ memory' = [memory EXCEPT ![a] = bucket[a[1]].freelist]
    /\ result' = NONE
    /\ held' = [held EXCEPT ![a] = @ - 1]
    /\ freed' = IF a[1] = bucketlist[1] THEN <<a>> \o freed ELSE freed
    /\ UNCHANGED <<bucketlist, available_bucket_index>>

\* A caller uses its block, of at least one byte.
Write(a) ==
    /\ held[a] > 0 /\ a[1] = bucketlist[1]
    /\ memory' = [memory EXCEPT ![a] = DATA]
    /\ UNCHANGED <<bucketlist, available_bucket_index, bucket, result, held, freed>>

\* The number of callers that hold the pointer of no bytes is bounded.
Next ==
    \/ \E s \in Sizes :
           /\ s = 0 => \A a \in Addresses : held[a] < MaxZero
           /\ r_malloc(s)
    \/ \E a \in Addresses : r_free(a) \/ Write(a)

Spec == Init /\ [][Next]_vars

-----------------------------------------------------------------------------
Blocks(p) == {p} \X (Header..PageSize - 1)

P == INSTANCE AbstractPool WITH
         Pools <- {Blocks(p) : p \in Pages},
         taken <- {a \in Addresses : a[1] = bucketlist[1] /\ held[a] > 0},
         answer <- IF \/ result = NULL
                      \/ \E a \in Addresses : result = a /\ a[1] = bucketlist[1]
                   THEN result ELSE NONE

\* Every page has one class, and every pointer that is stored or returned is
\* one into the page behind its header (r_malloc, r_free).
TypeOK ==
    /\ bucketlist \in [Classes -> Pages \cup {NULL}]
    /\ available_bucket_index \in 0..2
    /\ \A p \in Pages : bucket[p].freelist \in Blocks(p) \cup {NULL}
    /\ \A p \in Pages : bucket[p].offset \in 0..PageSize
    /\ result \in {NULL, NONE} \cup Blocks(0) \cup Blocks(1)

\* No two callers hold the same block, whatever the order of requests and
\* frees: r_malloc never returns a block of at least one byte that is in use.
HeldOnce == \A a \in Addresses : a[1] = bucketlist[1] => held[a] <= 1

\* The list that runs through the blocks is the list of the freed blocks: the
\* writes of callers never reach it, each block is on it once, none is in use.
FreeListSound ==
    bucketlist[1] # NULL =>
        /\ bucket[bucketlist[1]].freelist = IF freed = <<>> THEN NULL ELSE freed[1]
        /\ \A i \in DOMAIN freed :
              /\ held[freed[i]] = 0
              /\ memory[freed[i]] = IF i = Len(freed) THEN NULL ELSE freed[i + 1]
              /\ \A j \in DOMAIN freed : freed[i] = freed[j] => i = j

\* r_malloc returns NULL only when callers hold every block of the page: no
\* block is lost between the list, the offset and the callers.
RefusesOnlyWhenFull ==
    result = NULL => \A a \in Blocks(bucketlist[1]) : held[a] = 1

\* For requests of at least one byte r_malloc and r_free are a pool of equal
\* blocks, whatever is asked for in between: the free list, the offset and the
\* page together keep that promise.
IsAPool == P!Spec
=============================================================================
