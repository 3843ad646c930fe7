------------------------------ MODULE MapObject ------------------------------
(***************************************************************************)
(* map_object.c: the chained hash table behind the globals and the locals  *)
(* of every function, over the hash of string_object.c.  A put of a new    *)
(* key into a full table first moves the entries to a larger one; each     *)
(* turn of that loop, and of the destructor's, is a step of its own, since *)
(* both follow links that map_put changes.                                 *)
(*                                                                         *)
(* A name is the sequence of its character codes.                          *)
(***************************************************************************)
EXTENDS Integers, Sequences, FiniteSets, Functions

CONSTANTS
    Dictionaries,  \* a program uses the names of one of them, a sequence: they
                   \* are put for the first time in that order
    Vals,          \* the objects that are put
    NONE,          \* the NULL that map_get returns
    MinSize,       \* MAP_DEFAULT_SIZE
    LongValues     \* how many values a long has, 2^64

Keys == UNION {Range(names) : names \in Dictionaries}

ASSUME NamesAssumption ==
    \A names \in Dictionaries : names \in Seq(Seq(1..127)) /\ IsInjective(names)
ASSUME MinSizeAssumption == MinSize \in Nat \ {0}
ASSUME NoneAssumption == NONE \notin Vals
ASSUME LongAssumption == LongValues \in Nat /\ LongValues > 256

VARIABLES
    entries,    \* the entry objects, in the order they were made
    table,      \* map->table: the first entry of each bucket
    size,       \* map->size
    allocated,  \* map->allocated
    arg,        \* the key and the value of the map_put under way, or Idle
    moving,     \* the locals of its resize, Idle outside
    closing,    \* the locals of destruct_map_object, Idle before
    dict        \* the names of the program, fixed

vars == <<entries, table, size, allocated, arg, moving, closing, dict>>

NULL == 0
Idle == <<>>

Buckets(n) == [b \in 0..n-1 |-> NULL]

-----------------------------------------------------------------------------
(* The index of a name. *)

\* Mutant: the sum is kept in a variable a sixteenth as wide.
AsShort(n) ==
    LET m == n % (LongValues \div 16)
    IN  IF 32 * m >= LongValues THEN m - LongValues \div 16 ELSE m

\* The value of a long after an overflow, on machines where it wraps.
AsLong(n) ==
    LET m == n % LongValues IN IF 2 * m >= LongValues THEN m - LongValues ELSE m

\* string_object_hash.  The loop steps twice, once in the index of str[i++]
\* and once in its header: the sum is over every other character, of a
\* string that ends with its NUL.
Hash(key) ==
    LET str == Append(key, 0)
        upTo[i \in 0..Len(str)] ==
            IF i = 0 THEN 0
            ELSE IF i % 2 = 0 THEN upTo[i - 1]
            ELSE AsLong(31 * upTo[i - 1] + str[i])
    IN  upTo[Len(str)]

\* The % of C, whose result has the sign of its first operand.
Rem(a, b) == IF a < 0 THEN -((-a) % b) ELSE a % b
IndexIn(key, n) == Rem(Hash(key), n)
Index(key) == IndexIn(key, allocated)

\* An index in front of the table: what is read there is no entry, and what
\* map_get and map_put then do is not defined.
Wild(key) == Index(key) < 0

\* new_map_object, for up to MAP_DEFAULT_SIZE expected names.
Init ==
    /\ entries = <<>> /\ size = 0 /\ arg = Idle /\ moving = Idle
    /\ table = Buckets(MinSize) /\ allocated = MinSize
    /\ closing = Idle /\ dict \in Dictionaries

-----------------------------------------------------------------------------
\* The chain of a bucket: its n-th entry, or NULL past the end.
Chain(b) ==
    LET at[n \in 0..Len(entries)] ==
            IF n = 0 THEN table[b]
            ELSE IF at[n - 1] = NULL THEN NULL ELSE entries[at[n - 1]].next
    IN  at

Hits(key) ==
    LET c == Chain(Index(key))
    IN  {c[n] : n \in {m \in DOMAIN c : c[m] # NULL /\ entries[c[m]].key = key}}

\* The loops of map_get and map_put: the entry with the key, of which a chain
\* has one.
Find(key) == IF Hits(key) = {} THEN NULL ELSE CHOOSE e \in Hits(key) : TRUE

\* map_get.
Get(key) ==
    IF Wild(key) \/ Find(key) = NULL THEN NONE ELSE entries[Find(key)].val

\* What a map_get of every key returns.  No other code runs during a map_put:
\* moving.before is there to say so in the refinement.
Contents ==
    IF moving = Idle THEN [key \in Keys |-> Get(key)] ELSE moving.before

IsPut(key) == \E e \in DOMAIN entries : entries[e].key = key

CallPut(key, val) ==
    /\ arg = Idle /\ closing = Idle
    /\ \E p \in DOMAIN dict : key = dict[p] /\ \A q \in 1..p - 1 : IsPut(dict[q])
    /\ arg' = <<key, val>>
    /\ UNCHANGED <<entries, table, size, allocated, moving, closing, dict>>

Called == arg # Idle /\ moving = Idle /\ ~Wild(arg[1])

\* map_put of a key that is there.
Replace ==
    /\ Called
    /\ LET e == Find(arg[1])
       IN  e # NULL /\ entries' = [entries EXCEPT ![e].val = arg[2]]
    /\ arg' = Idle
    /\ UNCHANGED <<table, size, allocated, moving, closing, dict>>

Absent == Called /\ Find(arg[1]) = NULL

\* MAP_LOAD_FACTOR 0.75.
Full == 4 * size >= 3 * allocated

WithNew == Append(entries, [key |-> arg[1], val |-> arg[2], next |-> NULL])

\* Mutant: the chain that was in the bucket is dropped.
LinkAlone(made, t, b) ==
    /\ entries' = made
    /\ table' = [t EXCEPT ![b] = Len(made)]
    /\ size' = size + 1
    /\ arg' = Idle /\ moving' = Idle

\* The end of map_put: the new entry becomes the first of bucket b.
Link(made, t, b) ==
    /\ entries' = [made EXCEPT ![Len(made)].next = t[b]]
    /\ table' = [t EXCEPT ![b] = Len(made)]
    /\ size' = size + 1
    /\ arg' = Idle /\ moving' = Idle

Insert ==
    /\ Absent /\ ~Full
    /\ Link(WithNew, table, Index(arg[1]))
    /\ UNCHANGED <<allocated, closing, dict>>

\* Mutant: map->allocated grows when the table is as large as it ever was.
StartResizeInPlace ==
    /\ Absent /\ Full
    /\ entries' = WithNew
    /\ allocated' = (3 * allocated) \div 2
    /\ moving' = [new_table |-> Buckets(allocated), i |-> 0, e |-> table[0],
                  index |-> Index(arg[1]), before |-> Contents]
    /\ UNCHANGED <<table, size, arg, closing, dict>>

\* MAP_SCALE_FACTOR 1.5.  The bucket of the new entry is not computed again.
StartResize ==
    /\ Absent /\ Full
    /\ entries' = WithNew
    /\ allocated' = (3 * allocated) \div 2
    /\ moving' = [new_table |-> Buckets(allocated'), i |-> 0, e |-> table[0],
                  index |-> Index(arg[1]), before |-> Contents]
    /\ UNCHANGED <<table, size, arg, closing, dict>>

\* Mutant: an entry goes to the bucket of the new table that it had in the old.
MoveEntryStraight ==
    /\ moving # Idle /\ moving.e # NULL
    /\ LET index == IndexIn(entries[moving.e].key, Cardinality(DOMAIN table))
           first == moving.new_table[index]
       IN  /\ entries' = [entries EXCEPT ![moving.e].next = first]
           /\ moving' = [moving EXCEPT !.new_table[index] = moving.e,
                                       !.e = first]
    /\ UNCHANGED <<table, size, allocated, arg, closing, dict>>

\* Mutant: an entry alone in its new bucket is moved again and again.
MoveEntryAgain ==
    /\ moving # Idle /\ moving.e # NULL
    /\ LET index == Index(entries[moving.e].key)
           first == moving.new_table[index]
       IN  /\ entries' = [entries EXCEPT ![moving.e].next = first]
           /\ moving' = [moving EXCEPT
                             !.new_table[index] = moving.e,
                             !.e = IF first = NULL THEN moving.e ELSE first]
    /\ UNCHANGED <<table, size, allocated, arg, closing, dict>>

\* One turn of the inner loop: e->next is read after save->next, the same
\* field, has been set to what was in the new bucket.
MoveEntry ==
    /\ moving # Idle /\ moving.e # NULL
    /\ LET index == Index(entries[moving.e].key)
           first == moving.new_table[index]
       IN  /\ entries' = [entries EXCEPT ![moving.e].next = first]
           /\ moving' = [moving EXCEPT !.new_table[index] = moving.e,
                                       !.e = first]
    /\ UNCHANGED <<table, size, allocated, arg, closing, dict>>

AtLastBucket == moving.i + 1 \notin DOMAIN table

NextBucket ==
    /\ moving # Idle /\ moving.e = NULL /\ ~AtLastBucket
    /\ moving' = [moving EXCEPT !.i = @ + 1, !.e = table[moving.i + 1]]
    /\ UNCHANGED <<entries, table, size, allocated, arg, closing, dict>>

EndResize ==
    /\ moving # Idle /\ moving.e = NULL /\ AtLastBucket
    /\ Link(entries, moving.new_table, moving.index)
    /\ UNCHANGED <<allocated, closing, dict>>

PutStep ==
    Replace \/ Insert \/ StartResize \/ MoveEntry \/ NextBucket \/ EndResize

-----------------------------------------------------------------------------
(* destruct_map_object. *)

Destruct ==
    /\ arg = Idle /\ closing = Idle
    /\ closing' = [i |-> 0, e |-> table[0], freed |-> <<>>]
    /\ UNCHANGED <<entries, table, size, allocated, arg, moving, dict>>

\* Mutant: only the first entry of every chain is dropped.
FreeFirstEntry ==
    /\ closing # Idle /\ closing.e # NULL
    /\ closing' = [closing EXCEPT !.e = NULL,
                                  !.freed = Append(@, closing.e)]
    /\ UNCHANGED <<entries, table, size, allocated, arg, moving, dict>>

\* DEC_REF of an entry, whose count is 1: its link was read before.
FreeEntry ==
    /\ closing # Idle /\ closing.e # NULL
    /\ closing' = [closing EXCEPT !.e = entries[closing.e].next,
                                  !.freed = Append(@, closing.e)]
    /\ UNCHANGED <<entries, table, size, allocated, arg, moving, dict>>

FreeBucket ==
    /\ closing # Idle /\ closing.e = NULL /\ closing.i < allocated
    /\ LET i == closing.i + 1
       IN  closing' = [closing EXCEPT !.i = i,
                           !.e = IF i < allocated THEN table[i] ELSE NULL]
    /\ UNCHANGED <<entries, table, size, allocated, arg, moving, dict>>

DestructStep == FreeEntry \/ FreeBucket

Next ==
    \/ \E key \in Keys, val \in Vals : CallPut(key, val)
    \/ PutStep
    \/ Destruct
    \/ DestructStep

\* A map_put that was called runs on, and so does the destructor; nothing
\* makes the program call them.
Spec == Init /\ [][Next]_vars /\ WF_vars(PutStep) /\ WF_vars(DestructStep)

-----------------------------------------------------------------------------
M == INSTANCE AbstractMap WITH map <- Contents

\* Every variable stays in its domain: no link leaves the entries, and the
\* table has as many buckets as the map says, the new one while it grows.
TypeOK ==
    /\ \A e \in 1..Len(entries) :
           /\ entries[e].key \in Keys /\ entries[e].val \in Vals
           /\ entries[e].next \in 0..Len(entries)
    /\ \A b \in DOMAIN table : table[b] \in 0..Len(entries)
    /\ DOMAIN (IF moving = Idle THEN table ELSE moving.new_table)
         = 0..allocated - 1
    /\ dict \in Dictionaries

\* The map keeps the promise of a table of names: when a map_put returns,
\* map_get finds the new value under its key and what it found before under
\* every other, whether the put replaced, inserted in front of a chain or
\* resized (map_put and map_get).
IsAMap == M!Spec

\* A map_put comes to its end (the while loops of map_put), unless its name
\* has an index in front of the table.
PutEnds == arg # Idle ~> arg = Idle \/ Wild(arg[1])

\* The map counts its entries, and every one of them is in one place of one
\* chain while no map_put runs (map_put's size and links).
EveryEntryOnce ==
    arg = Idle =>
        /\ size = Len(entries)
        /\ \A e \in 1..Len(entries) :
              Cardinality({p \in (DOMAIN table) \X (0..Len(entries)) :
                              Chain(p[1])[p[2]] = e}) = 1

\* The destructor drops every entry the map counts, each of them once, and
\* comes to its end (destruct_map_object follows the links map_put left).
DestructedOnce ==
    closing # Idle =>
        /\ \A m, n \in 1..Len(closing.freed) :
              closing.freed[m] = closing.freed[n] => m = n
        /\ closing.i = allocated => Len(closing.freed) = size

\* How many characters string_object_hash adds up for a name.
Summands(key) == (Len(key) + 2) \div 2

\* The largest sum of so many characters, 127 * (31^n - 1) / 30.
LargestSum[n \in Nat] == IF n = 0 THEN 0 ELSE 31 * LargestSum[n - 1] + 127

\* A name whose characters cannot add up to more than a long holds has its
\* index in the table, whatever its size: only a name as long as that
\* (24 letters where a long has 64 bits) is looked up in front of it.
Short(key) == 2 * LargestSum[Summands(key)] < LongValues
ShortNamesInside ==
    \A key \in Range(dict) : Short(key) => Index(key) \in 0..allocated - 1

\* How many entries fill the first table, and how many buckets the second has.
Filling == (3 * MinSize + 3) \div 4
Grown == (3 * MinSize) \div 2

\* The names a map is good for.  Either they are too few to fill the first
\* table (12 where MAP_DEFAULT_SIZE is 16), whatever their hashes.  Or they are
\* too few to fill the second (18), those that fill the first meet neither
\* there nor in the second, and the one whose put makes it grow has the same
\* index in both.  Of others some meet in the loop of the resize, which then
\* does not end or drops entries, or one is put where map_get does not look.
Few(names) == 4 * (Len(names) - 1) < 3 * MinSize
Scattered(names) ==
    /\ 4 * (Len(names) - 1) < 3 * Grown
    /\ \A p, q \in 1..Filling :
          \/ IndexIn(names[p], MinSize) = IndexIn(names[q], MinSize)
          \/ IndexIn(names[p], Grown) = IndexIn(names[q], Grown)
          => p = q
    /\ \A p \in 1..Filling : IndexIn(names[p], Grown) >= 0
    /\ IndexIn(names[Filling + 1], Grown) = IndexIn(names[Filling + 1], MinSize)
Tame(names) == Few(names) \/ Scattered(names)
=============================================================================
