--------------------------- MODULE MapObjectProofs ---------------------------
(***************************************************************************)
(* Proofs about MapObject: for every choice of names, values, table size   *)
(* and width of a long, a map whose names are few or scattered implements  *)
(* the abstract map, has every entry in one place and destructs each once. *)
(***************************************************************************)
EXTENDS MapObject, SharedLemmas, FiniteSetTheorems, TLAPS

-----------------------------------------------------------------------------
(* The index of a name. *)

LEMMA AsLongType ==
    ASSUME NEW n \in Int
    PROVE  AsLong(n) \in Int /\ (0 <= n /\ 2 * n < LongValues => AsLong(n) = n)
<1> DEFINE m == n % LongValues
<1>1. m \in 0..LongValues - 1
  BY LongAssumption
<1>2. 0 <= n /\ 2 * n < LongValues => m = n
  BY LongAssumption
<1> HIDE DEF m
<1>3. AsLong(n) = IF 2 * m >= LongValues THEN m - LongValues ELSE m
  BY DEF AsLong, m
<1> QED
  BY <1>1, <1>2, <1>3, LongAssumption

\* The sums that the loop of string_object_hash goes through.
Chars(key) == Append(key, 0)
SumStep(key, i, h) ==
    IF i % 2 = 0 THEN h ELSE AsLong(31 * h + Chars(key)[i])
Sums(key) ==
    CHOOSE f : f = [i \in 0..Len(Chars(key)) |->
                      IF i = 0 THEN 0
                      ELSE IF i % 2 = 0 THEN f[i - 1]
                      ELSE AsLong(31 * f[i - 1] + Chars(key)[i])]

LEMMA CharsType ==
    ASSUME NEW key \in Keys
    PROVE  /\ Len(key) \in Nat /\ Len(Chars(key)) = Len(key) + 1
           /\ \A i \in 1..Len(Chars(key)) :
                 Chars(key)[i] \in 0..127 /\ Chars(key)[i] \in Int
<1>1. key \in Seq(1..127) /\ key \in Seq(0..127)
  <2> DEFINE S == Seq(1..127)
  <2>1. PICK names \in Dictionaries : key \in Range(names)
    BY DEF Keys
  <2>2. names \in Seq(S)
    BY NamesAssumption
  <2>3. PICK x \in DOMAIN names : key = names[x]
    BY <2>1 DEF Range
  <2> HIDE DEF S
  <2>4. key \in S
    BY <2>2, <2>3
  <2> QED
    BY <2>4 DEF S
<1>2. Append(key, 0) \in Seq(0..127) /\ Len(Append(key, 0)) = Len(key) + 1
  BY <1>1
<1> DEFINE t == Chars(key)
           C == 0..127
<1>3. t \in Seq(C) /\ Len(t) = Len(key) + 1 /\ Len(key) \in Nat /\ C \subseteq Int
  BY <1>1, <1>2 DEF Chars
<1> HIDE DEF t, C
<1>4. \A i \in 1..Len(t) : t[i] \in C
  BY <1>3
<1>5. \A i \in 1..Len(t) : t[i] \in C /\ t[i] \in Int
  BY <1>3, <1>4
<1> QED
  BY <1>3, <1>5 DEF t, C

LEMMA SumsDef ==
    ASSUME NEW key \in Keys
    PROVE  /\ Hash(key) = Sums(key)[Len(Chars(key))]
           /\ Sums(key)[0] = 0
           /\ \A i \in 1..Len(Chars(key)) :
                 /\ Sums(key)[i - 1] \in Int
                 /\ Sums(key)[i] \in Int
                 /\ Sums(key)[i] = SumStep(key, i, Sums(key)[i - 1])
<1> DEFINE n == Len(Chars(key))
           c(i) == IF i \in 1..n THEN Chars(key)[i] ELSE 0
           s == [i \in Nat |-> [h \in Int |->
                    IF i % 2 = 0 THEN h ELSE AsLong(31 * h + c(i))]]
           P(f) == f = [i \in 0..n |->
                      IF i = 0 THEN 0
                      ELSE IF i % 2 = 0 THEN f[i - 1]
                      ELSE AsLong(31 * f[i - 1] + Chars(key)[i])]
<1>1. n \in Nat /\ \A i \in 1..n : Chars(key)[i] \in Int
  BY CharsType
<1>2. \A i \in Nat : c(i) \in Int
  BY <1>1
<1>3. s \in [Nat -> [Int -> Int]]
  <2>1. ASSUME NEW i \in Nat, NEW h \in Int
        PROVE  (IF i % 2 = 0 THEN h ELSE AsLong(31 * h + c(i))) \in Int
    <3>1. 31 * h + c(i) \in Int
      BY <1>2
    <3> QED
      BY <3>1, AsLongType
  <2> QED
    BY <2>1
<1>4. \A i \in 1..n, h \in Int : s[i][h] = IF i % 2 = 0 THEN h ELSE AsLong(31 * h + Chars(key)[i])
  BY <1>1
<1> HIDE DEF s, c
<1>5. PICK f \in [0..n -> Int] : Iterates(f, 0, s, n)
  <2> DEFINE V == Int
             t == 0
  <2>1. t \in V /\ s \in [Nat -> [V -> V]]
    BY <1>3
  <2> HIDE DEF V, t
  <2>2. \E f \in [0..n -> V] : Iterates(f, t, s, n)
    BY <1>1, <2>1, IterationExists
  <2> QED
    BY <2>2 DEF V, t
<1>6. P(f)
  <2>1. ASSUME NEW i \in 0..n
        PROVE  f[i] = IF i = 0 THEN 0
                      ELSE IF i % 2 = 0 THEN f[i - 1]
                      ELSE AsLong(31 * f[i - 1] + Chars(key)[i])
    <3>1. CASE i = 0
      BY <1>5, <3>1 DEF Iterates
    <3>2. CASE i # 0
      <4>1. i \in 1..n /\ i - 1 \in 0..n
        BY <1>1, <3>2
      <4>2. f[i] = s[i][f[i - 1]] /\ f[i - 1] \in Int
        BY <1>5, <4>1 DEF Iterates
      <4> QED
        BY <1>4, <3>2, <4>1, <4>2
    <3> QED
      BY <3>1, <3>2
  <2> QED
    BY <1>5, <2>1
<1>7. Sums(key) = CHOOSE g : P(g)
  BY DEF Sums
<1> HIDE DEF P
<1>8. P(Sums(key))
  BY <1>6, <1>7
<1> DEFINE g == Sums(key)
<1>9. \A i \in 0..n : g[i] = IF i = 0 THEN 0
                      ELSE IF i % 2 = 0 THEN g[i - 1]
                      ELSE AsLong(31 * g[i - 1] + Chars(key)[i])
  BY <1>8, Zenon DEF P
<1> HIDE DEF g
<1>10. g[0] = 0
  BY <1>1, <1>9
<1>11. ASSUME NEW i \in 1..n PROVE g[i] = SumStep(key, i, g[i - 1])
  BY <1>1, <1>9 DEF SumStep
<1>12. \A i \in 0..n : g[i] \in Int
  <2> DEFINE T == {i \in 0..n : g[i] \notin Int}
  <2>1. SUFFICES ASSUME T # {} PROVE FALSE
    OBVIOUS
  <2>2. PICK k \in T : \A j \in T : k <= j
    <3>1. T \subseteq Nat
      OBVIOUS
    <3> QED
      BY <2>1, <3>1, Smallest
  <2>3. k \in 1..n /\ k - 1 \in 0..n /\ k - 1 \notin T
    BY <1>10, <2>2
  <2>4. g[k - 1] \in Int /\ 31 * g[k - 1] + Chars(key)[k] \in Int
    BY <1>1, <2>3
  <2>5. g[k] \in Int
    BY <1>11, <2>3, <2>4, AsLongType DEF SumStep
  <2> QED
    BY <2>5
<1>13. Hash(key) = g[n]
  BY DEF Hash, g, Sums, Chars
<1>14. ASSUME NEW i \in 1..n
       PROVE  g[i - 1] \in Int /\ g[i] \in Int /\ g[i] = SumStep(key, i, g[i - 1])
  BY <1>1, <1>11, <1>12
<1> QED
  BY <1>10, <1>13, <1>14 DEF g

LEMMA HashType == \A key \in Keys : Hash(key) \in Int
BY SumsDef, CharsType

LEMMA IndexInType ==
    ASSUME NEW key \in Keys, NEW n \in Nat \ {0}
    PROVE  /\ IndexIn(key, n) \in Int /\ IndexIn(key, n) < n
           /\ Hash(key) >= 0 => IndexIn(key, n) \in 0..n - 1
<1> DEFINE h == Hash(key)
<1>1. h \in Int
  BY HashType
<1> HIDE DEF h
<1>2. CASE h < 0
  <2> DEFINE m == (-h) % n
  <2>1. m \in 0..n - 1
    BY <1>1, <1>2
  <2>2. IndexIn(key, n) = -m /\ ~(Hash(key) >= 0)
    BY <1>1, <1>2 DEF IndexIn, Rem, h
  <2> HIDE DEF m
  <2> QED
    BY <2>1, <2>2
<1>3. CASE ~(h < 0)
  <2>1. h % n \in 0..n - 1
    BY <1>1, <1>3
  <2>2. IndexIn(key, n) = h % n
    BY <1>3 DEF IndexIn, Rem, h
  <2> QED
    BY <2>1, <2>2
<1> QED
  BY <1>2, <1>3

-----------------------------------------------------------------------------
(* Names that are short enough have an index in the table. *)

LEMMA LargestSumDef ==
    /\ LargestSum[0] = 0
    /\ \A n \in Nat \ {0} : LargestSum[n] = 31 * LargestSum[n - 1] + 127
    /\ \A n \in Nat : LargestSum[n] \in Nat
<1> DEFINE s == [n \in Nat |-> [h \in Nat |-> 31 * h + 127]]
           P(f) == f = [n \in Nat |-> IF n = 0 THEN 0 ELSE 31 * f[n - 1] + 127]
<1>1. s \in [Nat -> [Nat -> Nat]]
  OBVIOUS
<1>2. \A n \in Nat, h \in Nat : s[n][h] = 31 * h + 127
  OBVIOUS
<1> HIDE DEF s
<1>3. PICK f \in [Nat -> Nat] : f[0] = 0 /\ \A n \in Nat \ {0} : f[n] = s[n][f[n - 1]]
  <2> DEFINE V == Nat
             t == 0
  <2>1. t \in V /\ s \in [Nat -> [V -> V]]
    BY <1>1
  <2> HIDE DEF V, t
  <2>2. \E f \in [Nat -> V] : Recurs(f, t, s)
    BY <2>1, IterationForever
  <2> QED
    BY <2>2 DEF V, t, Recurs
<1>4. P(f)
  <2>1. ASSUME NEW n \in Nat PROVE f[n] = IF n = 0 THEN 0 ELSE 31 * f[n - 1] + 127
    <3>1. CASE n = 0
      BY <1>3, <3>1
    <3>2. CASE n # 0
      <4>1. n \in Nat \ {0} /\ n - 1 \in Nat /\ f[n - 1] \in Nat
        BY <3>2
      <4>2. f[n] = s[n][f[n - 1]]
        BY <1>3, <4>1
      <4>3. f[n] = 31 * f[n - 1] + 127
        <5> DEFINE h == f[n - 1]
        <5>1. n \in Nat /\ h \in Nat /\ f[n] = s[n][h]
          BY <4>1, <4>2
        <5> HIDE DEF h
        <5>2. f[n] = 31 * h + 127
          BY <1>2, <5>1, Zenon
        <5> QED
          BY <5>2 DEF h
      <4> QED
        BY <3>2, <4>3
    <3> QED
      BY <3>1, <3>2
  <2> QED
    BY <1>3, <2>1
<1>5. LargestSum = CHOOSE g : P(g)
  BY DEF LargestSum
<1> HIDE DEF P
<1>6. P(LargestSum)
  BY <1>4, <1>5
<1>7. \A n \in Nat : LargestSum[n] = IF n = 0 THEN 0 ELSE 31 * LargestSum[n - 1] + 127
  BY <1>6, Zenon DEF P
<1>8. \A n \in Nat : LargestSum[n] \in Nat
  <2> DEFINE T == {n \in Nat : LargestSum[n] \notin Nat}
  <2>1. SUFFICES ASSUME T # {} PROVE FALSE
    OBVIOUS
  <2>2. PICK k \in T : \A j \in T : k <= j
    BY <2>1, Smallest
  <2>3. k # 0 /\ k - 1 \in Nat /\ k - 1 \notin T
    BY <1>7, <2>2
  <2> QED
    BY <1>7, <2>2, <2>3
<1> QED
  BY <1>7, <1>8

LEMMA LargestSumGrows ==
    \A m, n \in Nat : m <= n => LargestSum[m] <= LargestSum[n]
<1>1. SUFFICES ASSUME NEW m \in Nat
               PROVE  \A n \in Nat : m <= n => LargestSum[m] <= LargestSum[n]
  OBVIOUS
<1> DEFINE T == {n \in Nat : m <= n /\ ~(LargestSum[m] <= LargestSum[n])}
<1>2. SUFFICES ASSUME T # {} PROVE FALSE
  OBVIOUS
<1>3. PICK k \in T : \A j \in T : k <= j
  BY <1>2, Smallest
<1>4. k # m
  BY <1>3, LargestSumDef
<1>5. k - 1 \in Nat /\ k # 0 /\ m <= k - 1 /\ k - 1 \notin T
  BY <1>3, <1>4
<1>6. LargestSum[k] = 31 * LargestSum[k - 1] + 127 /\ LargestSum[k - 1] \in Nat
      /\ LargestSum[m] \in Nat /\ LargestSum[m] <= LargestSum[k - 1]
  BY <1>5, LargestSumDef
<1>7. LargestSum[m] <= LargestSum[k]
  BY <1>6
<1> QED
  BY <1>7

LEMMA ShortHash ==
    ASSUME NEW key \in Keys, Short(key)
    PROVE  Hash(key) >= 0
<1> DEFINE n == Len(Chars(key))
           g == Sums(key)
           B(i) == LargestSum[(i + 1) \div 2]
           T == {i \in 0..n : ~(g[i] \in Int /\ 0 <= g[i] /\ g[i] <= B(i))}
<1>1. n \in Nat \ {0} /\ Summands(key) = (n + 1) \div 2
  BY CharsType DEF Summands
<1>2. SUFFICES ASSUME T # {} PROVE FALSE
  BY <1>1, SumsDef
<1>3. PICK k \in T : \A j \in T : k <= j
  <2>1. T \subseteq Nat
    OBVIOUS
  <2> QED
    BY <1>2, <2>1, Smallest
<1>4. k # 0
  <2>1. g[0] = 0 /\ LargestSum[0] = 0 /\ (0 + 1) \div 2 = 0
    BY SumsDef, LargestSumDef
  <2> QED
    BY <1>3, <2>1
<1>5. k \in 1..n /\ k - 1 \in 0..n /\ k - 1 \notin T
  BY <1>3, <1>4
<1> DEFINE h == g[k - 1]
           x == Chars(key)[k]
<1>6. h \in Int /\ 0 <= h /\ h <= B(k - 1) /\ B(k - 1) \in Nat
  BY <1>5, LargestSumDef
<1>7. x \in 0..127
  BY <1>5, CharsType
<1>8. g[k] = IF k % 2 = 0 THEN h ELSE AsLong(31 * h + x)
  BY <1>5, SumsDef DEF SumStep
<1>9. CASE k % 2 = 0
  <2>1. (k + 1) \div 2 = k \div 2 /\ (k - 1) + 1 = k
    BY <1>5, <1>9
  <2> QED
    BY <1>6, <1>8, <1>9, <2>1
<1>10. CASE k % 2 # 0
  <2>1. (k + 1) \div 2 = k \div 2 + 1 /\ k \div 2 \in Nat /\ (k - 1) + 1 = k
    BY <1>5, <1>10
  <2>2. B(k) = 31 * B(k - 1) + 127
    <3>1. \A q \in Nat : LargestSum[q + 1] = 31 * LargestSum[q] + 127
      <4>1. \A q \in Nat : q + 1 \in Nat \ {0} /\ (q + 1) - 1 = q
        OBVIOUS
      <4> QED
        BY <4>1, LargestSumDef
    <3> QED
      BY <2>1, <3>1
  <2>3. 31 * h + x \in Int /\ 0 <= 31 * h + x /\ 31 * h + x <= B(k)
    <3> DEFINE y == B(k - 1)
               z == B(k)
    <3>1. y \in Nat /\ h <= y /\ z = 31 * y + 127 /\ h \in Int /\ 0 <= h /\ x \in 0..127
      BY <1>6, <1>7, <2>2
    <3> HIDE DEF y, z, h, x
    <3>2. 31 * h + x \in Int /\ 0 <= 31 * h + x /\ 31 * h + x <= z
      BY <3>1
    <3> QED
      BY <3>2 DEF z
  <2>4. B(k) <= B(n) /\ B(k) \in Nat /\ B(n) \in Nat
    <3>1. (k + 1) \div 2 \in Nat /\ (n + 1) \div 2 \in Nat /\ (k + 1) \div 2 <= (n + 1) \div 2
      BY <1>1, <1>5
    <3> QED
      BY <3>1, LargestSumDef, LargestSumGrows
  <2>5. 2 * B(n) < LongValues
    BY <1>1 DEF Short
  <2> HIDE DEF B, h, x, g
  <2>6. 2 * (31 * h + x) < LongValues
    BY <2>3, <2>4, <2>5, LongAssumption
  <2>7. AsLong(31 * h + x) = 31 * h + x
    BY <2>3, <2>6, AsLongType
  <2> QED
    BY <1>8, <1>10, <2>3, <2>7
<1> QED
  BY <1>9, <1>10

-----------------------------------------------------------------------------
(* The inductive invariant. *)

Entry == [key : Range(dict), val : Vals, next : Nat]

Typed ==
    /\ dict \in Dictionaries
    /\ size \in Nat
    /\ entries \in Seq(Entry)
    /\ Len(entries) = IF moving = Idle THEN size ELSE size + 1
    /\ arg = Idle \/ arg \in Range(dict) \X Vals
    /\ closing = Idle \/ closing \in [i : Nat, e : Nat, freed : Seq(Nat)]

\* The entries are made in the order of the names,
Ordered ==
    /\ Len(entries) <= Len(dict)
    /\ \A x \in 1..Len(entries) : entries[x].key = dict[x]

\* of which a map_put has one that was put before, or the next.
Asked == arg # Idle => \E p \in 1..Len(dict) : p <= size + 1 /\ arg[1] = dict[p]

\* The table has grown when it was full, and only once.
Sized ==
    /\ allocated = MinSize => size <= Filling
    /\ allocated # MinSize => allocated = Grown /\ Scattered(dict)

\* No two entries have the same key, and none has one in front of the table.
Distinct ==
    /\ \A x \in 1..Len(entries) : ~Wild(entries[x].key)
    /\ \A x, y \in 1..Len(entries) : entries[x].key = entries[y].key => x = y

Place(x) == Index(entries[x].key)

\* A bucket leads to the newest of its entries, and an entry to the newest of
\* the older ones in its bucket.
LinkedIn(t, w) ==
    /\ t \in [0..w - 1 -> 0..size]
    /\ \A b \in 0..w - 1 : t[b] # NULL => Place(t[b]) = b
    /\ \A x \in 1..size :
          /\ Place(x) \in 0..w - 1 /\ x <= t[Place(x)]
          /\ entries[x].next \in 0..x - 1
          /\ entries[x].next # NULL => Place(entries[x].next) = Place(x)
          /\ \A y \in 1..x - 1 : Place(y) = Place(x) => y <= entries[x].next

Linked == moving = Idle => LinkedIn(table, allocated)

\* The value that was put last under a key.
HeldBy(key) == {x \in 1..size : entries[x].key = key}
Held ==
    [key \in Keys |->
        IF HeldBy(key) = {} THEN NONE
        ELSE entries[CHOOSE x \in HeldBy(key) : TRUE].val]

\* While the table grows: the bucket of an entry in the old one,
OldPlace(x) == IndexIn(entries[x].key, MinSize)

\* where each is alone,
OldTable ==
    /\ table \in [0..MinSize - 1 -> 0..size]
    /\ \A b \in 0..MinSize - 1 : table[b] # NULL => OldPlace(table[b]) = b
    /\ \A x \in 1..size :
          /\ OldPlace(x) \in 0..MinSize - 1 /\ table[OldPlace(x)] = x
          /\ entries[x].next = NULL

\* and the loop has come past it.
Passed(x) ==
    OldPlace(x) < moving.i \/ (OldPlace(x) = moving.i /\ moving.e = NULL)

\* The new table has the entries the loop has come past, and no others.
Copied ==
    moving # Idle =>
        /\ Scattered(dict) /\ allocated = Grown /\ size = Filling /\ closing = Idle
        /\ arg # Idle
        /\ entries[size + 1] = [key |-> arg[1], val |-> arg[2], next |-> NULL]
        /\ moving \in [new_table : [0..allocated - 1 -> 0..size], i : 0..MinSize - 1,
                       e : 0..size, index : 0..MinSize - 1, before : {Held}]
        /\ moving.index = Index(arg[1])
        /\ moving.e \in {NULL, table[moving.i]}
        /\ OldTable
        /\ \A x \in 1..size : Passed(x) => moving.new_table[Place(x)] = x
        /\ \A b \in 0..allocated - 1 :
              moving.new_table[b] # NULL =>
                Passed(moving.new_table[b]) /\ Place(moving.new_table[b]) = b

\* What the destructor has dropped: the buckets it is past, and in the one it
\* is at the entries that are newer than the one it comes to.
Dropped(x) == Place(x) < closing.i \/ (Place(x) = closing.i /\ x > closing.e)
Gone == {x \in 1..size : Dropped(x)}

Closed ==
    closing # Idle =>
        /\ arg = Idle /\ moving = Idle
        /\ closing.i \in 0..allocated /\ closing.e \in 0..size
        /\ closing.e # NULL => closing.i < allocated /\ Place(closing.e) = closing.i
        /\ \A m, n \in 1..Len(closing.freed) :
              closing.freed[m] = closing.freed[n] => m = n
        /\ \A m \in 1..Len(closing.freed) : closing.freed[m] \in Gone
        /\ \A x \in Gone : \E m \in 1..Len(closing.freed) : closing.freed[m] = x

IInv ==
    /\ Tame(dict) /\ Typed /\ Ordered /\ Asked /\ Sized
    /\ Distinct /\ Linked /\ Copied /\ Closed

-----------------------------------------------------------------------------
(* What the chains of such a table are. *)

LEMMA NamesTyped ==
    ASSUME Typed
    PROVE  /\ Len(dict) \in Nat
           /\ \A key \in Range(dict) : key \in Keys
           /\ \A p \in 1..Len(dict) : dict[p] \in Range(dict) /\ dict[p] \in Keys
           /\ \A p, q \in 1..Len(dict) : dict[p] = dict[q] => p = q
<1>1. dict \in Dictionaries
  BY DEF Typed
<1>2. dict \in Seq(Seq(1..127)) /\ IsInjective(dict)
  BY <1>1, NamesAssumption
<1>3. \A key \in Range(dict) : key \in Keys
  BY <1>1 DEF Keys
<1>4. Len(dict) \in Nat /\ DOMAIN dict = 1..Len(dict)
  BY <1>2
<1>5. \A p \in 1..Len(dict) : dict[p] \in Range(dict)
  BY <1>4 DEF Range
<1>6. \A p, q \in 1..Len(dict) : dict[p] = dict[q] => p = q
  BY <1>2, <1>4 DEF IsInjective
<1> QED
  BY <1>3, <1>4, <1>5, <1>6

LEMMA SizesTyped ==
    /\ Grown \in Nat \ {0} /\ Grown >= MinSize /\ MinSize \in Nat \ {0}
    /\ Filling \in Nat /\ 4 * Filling >= 3 * MinSize
    /\ \A n \in Nat : n <= Filling - 1 <=> 4 * n < 3 * MinSize
BY MinSizeAssumption DEF Grown, Filling

LEMMA KeysTyped ==
    ASSUME Typed, Sized
    PROVE  /\ allocated \in Nat \ {0} /\ Grown \in Nat \ {0} /\ Grown >= MinSize
           /\ \A key \in Range(dict) : key \in Keys
           /\ \A key \in Keys : Index(key) \in Int /\ Index(key) < allocated
           /\ \A x \in 1..Len(entries) :
                 /\ entries[x] \in Entry
                 /\ entries[x].key \in Keys /\ entries[x].key \in Range(dict)
                 /\ Place(x) \in Int
<1>1. allocated \in Nat \ {0} /\ Grown \in Nat \ {0} /\ Grown >= MinSize
  BY SizesTyped DEF Sized
<1>2. \A key \in Range(dict) : key \in Keys
  BY NamesTyped
<1>3. \A key \in Keys : Index(key) \in Int /\ Index(key) < allocated
  BY <1>1, IndexInType DEF Index
<1>4. ASSUME NEW x \in 1..Len(entries)
      PROVE  entries[x] \in Entry /\ entries[x].key \in Range(dict)
  <2>1. entries[x] \in Entry
    BY DEF Typed
  <2> QED
    BY <2>1 DEF Entry
<1> QED
  BY <1>1, <1>2, <1>3, <1>4 DEF Place

Succ(e) == IF e = NULL THEN NULL ELSE entries[e].next

\* A chain starts at its bucket and follows the links,
Follows(c, b) ==
    /\ c \in [0..size -> 0..size]
    /\ c[0] = table[b]
    /\ \A n \in 1..size : c[n] = Succ(c[n - 1])

LEMMA ChainFollows ==
    ASSUME IInv, moving = Idle, NEW b \in 0..allocated - 1
    PROVE  Follows(Chain(b), b)
<1> DEFINE V == 0..size
           s == [n \in Nat |-> [e \in V |-> Succ(e)]]
           t == table[b]
           P(f) == f = [n \in 0..Len(entries) |->
                          IF n = 0 THEN table[b]
                          ELSE IF f[n - 1] = NULL THEN NULL ELSE entries[f[n - 1]].next]
<1>1. size \in Nat /\ Len(entries) = size /\ t \in V
  BY DEF IInv, Typed, Linked, LinkedIn
<1>2. ASSUME NEW e \in V PROVE Succ(e) \in V
  <2>1. CASE e = NULL
    BY <1>1, <2>1 DEF Succ, NULL
  <2>2. CASE e # NULL
    <3>1. e \in 1..size
      BY <1>1, <2>2 DEF NULL
    <3>2. entries[e].next \in 0..e - 1
      BY <3>1 DEF IInv, Linked, LinkedIn
    <3> QED
      BY <1>1, <2>2, <3>1, <3>2 DEF Succ
  <2> QED
    BY <2>1, <2>2
<1>3. s \in [Nat -> [V -> V]]
  BY <1>2
<1>4. \A n \in Nat, e \in V : s[n][e] = Succ(e)
  OBVIOUS
<1> HIDE DEF V, s
<1>5. PICK f \in [0..size -> V] : Iterates(f, t, s, size)
  BY <1>1, <1>3, IterationExists
<1>6. ASSUME NEW n \in 1..size PROVE f[n] = Succ(f[n - 1])
  <2>1. n - 1 \in 0..size /\ n \in Nat
    BY <1>1
  <2> QED
    BY <1>4, <1>5, <2>1 DEF Iterates
<1>7. P(f)
  <2>1. ASSUME NEW n \in 0..size
        PROVE f[n] = IF n = 0 THEN table[b]
                     ELSE IF f[n - 1] = NULL THEN NULL ELSE entries[f[n - 1]].next
    <3>1. CASE n = 0
      BY <1>5, <3>1 DEF Iterates
    <3>2. CASE n # 0
      <4>1. n \in 1..size
        BY <1>1, <3>2
      <4> QED
        BY <1>6, <3>2, <4>1 DEF Succ
    <3> QED
      BY <3>1, <3>2
  <2> QED
    BY <1>1, <1>5, <2>1
<1>8. Chain(b) = CHOOSE g : P(g)
  BY DEF Chain
<1> HIDE DEF P
<1>9. P(Chain(b))
  BY <1>7, <1>8
<1> DEFINE c == Chain(b)
<1>10. c = [n \in 0..size |->
              IF n = 0 THEN table[b]
              ELSE IF c[n - 1] = NULL THEN NULL ELSE entries[c[n - 1]].next]
  BY <1>1, <1>9, Zenon DEF P
<1> HIDE DEF c
<1>11. DOMAIN c = 0..size /\ c[0] = t
  BY <1>1, <1>10
<1>12. ASSUME NEW n \in 1..size PROVE c[n] = Succ(c[n - 1])
  <2>1. n \in 0..size /\ n # 0
    BY <1>1
  <2> QED
    BY <1>10, <2>1 DEF Succ
<1>13. ASSUME NEW n \in 0..size PROVE c[n] = f[n]
  <2> DEFINE T == {k \in 0..size : c[k] # f[k]}
  <2>1. SUFFICES ASSUME T # {} PROVE FALSE
    OBVIOUS
  <2>2. PICK k \in T : \A j \in T : k <= j
    <3>1. T \subseteq Nat
      BY <1>1
    <3> QED
      BY <2>1, <3>1, Smallest
  <2>3. k # 0
    BY <1>5, <1>11, <2>2 DEF Iterates
  <2>4. k \in 1..size /\ k - 1 \in 0..size /\ k - 1 \notin T
    BY <1>1, <2>2, <2>3
  <2> QED
    BY <1>6, <1>12, <2>2, <2>4
<1>14. c \in [0..size -> 0..size]
  <2>1. \A n \in 0..size : c[n] \in 0..size
    BY <1>5, <1>13 DEF V
  <2>2. c = [n \in 0..size |-> c[n]]
    BY <1>10
  <2> QED
    BY <2>1, <2>2
<1> QED
  BY <1>11, <1>12, <1>14 DEF Follows, c

\* goes through entries of its bucket only,
LEMMA ChainPlace ==
    ASSUME IInv, moving = Idle, NEW b \in 0..allocated - 1, NEW c, Follows(c, b)
    PROVE  \A n \in 0..size : c[n] # NULL => Place(c[n]) = b
<1> DEFINE T == {k \in 0..size : c[k] # NULL /\ Place(c[k]) # b}
<1>0. size \in Nat
  BY DEF IInv, Typed
<1>1. SUFFICES ASSUME T # {} PROVE FALSE
  OBVIOUS
<1>2. PICK k \in T : \A j \in T : k <= j
  <2>1. T \subseteq Nat
    BY <1>0
  <2> QED
    BY <1>1, <2>1, Smallest
<1>3. k # 0
  BY <1>2 DEF Follows, IInv, Linked, LinkedIn
<1>4. k \in 1..size /\ k - 1 \in 0..size /\ k - 1 \notin T
  BY <1>0, <1>2, <1>3
<1>5. c[k] = Succ(c[k - 1]) /\ c[k - 1] \in 0..size
  BY <1>4 DEF Follows
<1>6. c[k - 1] # NULL /\ c[k] = entries[c[k - 1]].next
  BY <1>2, <1>5 DEF Succ
<1>7. c[k - 1] \in 1..size /\ Place(c[k - 1]) = b
  BY <1>4, <1>5, <1>6 DEF NULL
<1>8. Place(c[k]) = Place(c[k - 1])
  BY <1>2, <1>6, <1>7, SMTT(30) DEF IInv, Linked, LinkedIn
<1> QED
  BY <1>2, <1>7, <1>8

\* from the newer to the older,
LEMMA ChainFalls ==
    ASSUME IInv, moving = Idle, NEW b \in 0..allocated - 1, NEW c, Follows(c, b)
    PROVE  /\ \A n \in 1..size :
                 c[n] <= c[n - 1] /\ (c[n - 1] # NULL => c[n] < c[n - 1])
           /\ \A m, n \in 0..size : m < n /\ c[m] # NULL => c[n] < c[m]
           /\ \A n \in 0..size : c[n] <= size - n
<1>0. size \in Nat
  BY DEF IInv, Typed
<1>1. ASSUME NEW n \in 1..size
      PROVE c[n] <= c[n - 1] /\ (c[n - 1] # NULL => c[n] < c[n - 1])
  <2>1. n - 1 \in 0..size /\ c[n] = Succ(c[n - 1]) /\ c[n - 1] \in 0..size
    BY <1>0 DEF Follows
  <2>2. CASE c[n - 1] = NULL
    BY <2>1, <2>2 DEF Succ, NULL
  <2>3. CASE c[n - 1] # NULL
    <3>1. c[n - 1] \in 1..size /\ c[n] = entries[c[n - 1]].next
      BY <2>1, <2>3 DEF Succ, NULL
    <3>2. entries[c[n - 1]].next \in 0..c[n - 1] - 1
      BY <3>1 DEF IInv, Linked, LinkedIn
    <3> QED
      BY <1>0, <3>1, <3>2
  <2> QED
    BY <2>2, <2>3
<1>2. ASSUME NEW m \in 0..size, NEW n \in 0..size, m < n, c[m] # NULL
      PROVE c[n] < c[m]
  <2> DEFINE T == {k \in 0..size : m < k /\ ~(c[k] < c[m])}
  <2>1. SUFFICES ASSUME T # {} PROVE FALSE
    BY <1>2
  <2>2. PICK k \in T : \A j \in T : k <= j
    <3>1. T \subseteq Nat
      BY <1>0
    <3> QED
      BY <2>1, <3>1, Smallest
  <2>3. k \in 1..size /\ k - 1 \in 0..size /\ k - 1 \notin T
    BY <1>0, <2>2
  <2>4. c[k] \in Int /\ c[k - 1] \in Int /\ c[m] \in Int
    BY <1>0, <2>3 DEF Follows
  <2>5. CASE k - 1 = m
    BY <1>1, <1>2, <2>2, <2>3, <2>5
  <2>6. CASE k - 1 # m
    <3>1. c[k - 1] < c[m]
      BY <2>2, <2>3, <2>6
    <3>2. c[k] <= c[k - 1]
      BY <1>1, <2>3
    <3> QED
      BY <2>2, <2>4, <3>1, <3>2
  <2> QED
    BY <2>5, <2>6
<1>3. ASSUME NEW n \in 0..size PROVE c[n] <= size - n
  <2> DEFINE T == {k \in 0..size : ~(c[k] <= size - k)}
  <2>1. SUFFICES ASSUME T # {} PROVE FALSE
    OBVIOUS
  <2>2. PICK k \in T : \A j \in T : k <= j
    <3>1. T \subseteq Nat
      BY <1>0
    <3> QED
      BY <2>1, <3>1, Smallest
  <2>3. k # 0
    BY <1>0, <2>2 DEF Follows
  <2>4. k \in 1..size /\ k - 1 \in 0..size /\ k - 1 \notin T
    BY <1>0, <2>2, <2>3
  <2>5. c[k] \in 0..size /\ c[k - 1] \in 0..size /\ c[k - 1] <= size - (k - 1)
    BY <1>0, <2>4 DEF Follows
  <2>6. c[k - 1] = NULL => c[k] = 0
    BY <2>4 DEF Follows, Succ, NULL
  <2>7. c[k - 1] # NULL => c[k] < c[k - 1]
    BY <1>1, <2>4
  <2>8. c[k] <= size - k
    BY <1>0, <2>4, <2>5, <2>6, <2>7
  <2> QED
    BY <2>2, <2>8
<1> QED
  BY <1>1, <1>2, <1>3

\* and comes to every one of them.
LEMMA ChainReaches ==
    ASSUME IInv, moving = Idle, NEW b \in 0..allocated - 1, NEW c, Follows(c, b),
           NEW x \in 1..size, Place(x) = b
    PROVE  \E n \in 0..size : c[n] = x
<1> DEFINE T == {k \in 0..size : c[k] <= x}
<1>0. size \in Nat
  BY DEF IInv, Typed
<1>1. size \in T
  <2>1. c[size] <= size - size
    BY <1>0, ChainFalls
  <2>2. c[size] \in 0..size
    BY <1>0 DEF Follows
  <2> QED
    BY <1>0, <2>1, <2>2
<1>2. PICK k \in T : \A j \in T : k <= j
  <2>1. T \subseteq Nat
    BY <1>0
  <2> QED
    BY <1>1, <2>1, Smallest
<1>3. k \in 0..size /\ c[k] <= x /\ c[k] \in 0..size
  BY <1>2 DEF Follows
<1>4. CASE k = 0
  <2>1. x <= table[b] /\ c[0] = table[b]
    BY DEF Follows, IInv, Linked, LinkedIn
  <2> QED
    BY <1>0, <1>3, <1>4, <2>1
<1>5. CASE k # 0
  <2>1. k \in 1..size /\ k - 1 \in 0..size /\ k - 1 \notin T
    BY <1>0, <1>2, <1>5
  <2> DEFINE p == c[k - 1]
  <2>2. p \in 0..size /\ ~(p <= x)
    BY <2>1 DEF Follows
  <2>3. p \in 1..size /\ p # NULL /\ x \in 1..p - 1
    BY <1>0, <2>2 DEF NULL
  <2>4. Place(p) = b /\ c[k] = entries[p].next
    <3>1. c[k] = Succ(p)
      BY <2>1 DEF Follows
    <3>2. Place(p) = b
      BY <2>1, <2>3, ChainPlace
    <3> HIDE DEF p
    <3> QED
      BY <2>3, <3>1, <3>2 DEF Succ
  <2> HIDE DEF p
  <2>5. x <= entries[p].next
    BY <2>3, <2>4 DEF IInv, Linked, LinkedIn
  <2> QED
    BY <1>0, <1>3, <2>4, <2>5
<1> QED
  BY <1>4, <1>5

\* map_get finds what is held, and nothing else.
LEMMA HitsAreHeld ==
    ASSUME IInv, moving = Idle, NEW key \in Keys, ~Wild(key)
    PROVE  Hits(key) = HeldBy(key)
<1> DEFINE b == Index(key)
           c == Chain(b)
<1>1. b \in 0..allocated - 1 /\ size \in Nat /\ Len(entries) = size
  BY KeysTyped DEF IInv, Wild, Typed
<1>2. Follows(c, b)
  BY <1>1, ChainFollows
<1>3. Hits(key) = {c[n] : n \in {m \in DOMAIN c : c[m] # NULL /\ entries[c[m]].key = key}}
  BY DEF Hits
<1> HIDE DEF c
<1>4. DOMAIN c = 0..size /\ \A n \in 0..size : c[n] \in 0..size
  BY <1>2 DEF Follows
<1>5. ASSUME NEW x \in Hits(key) PROVE x \in HeldBy(key)
  <2>1. PICK n \in 0..size : c[n] = x /\ c[n] # NULL /\ entries[c[n]].key = key
    BY <1>3, <1>4
  <2> QED
    BY <1>1, <1>4, <2>1 DEF HeldBy, NULL
<1>6. ASSUME NEW x \in HeldBy(key) PROVE x \in Hits(key)
  <2>1. x \in 1..size /\ entries[x].key = key /\ Place(x) = b
    BY DEF HeldBy, Place
  <2>2. PICK n \in 0..size : c[n] = x
    BY <1>1, <1>2, <2>1, ChainReaches
  <2>3. c[n] # NULL
    BY <1>1, <2>1, <2>2 DEF NULL
  <2> QED
    BY <1>3, <1>4, <2>1, <2>2, <2>3
<1> QED
  BY <1>5, <1>6

LEMMA HeldOnce ==
    ASSUME IInv, NEW key
    PROVE  /\ \A x, y \in HeldBy(key) : x = y
           /\ HeldBy(key) # {} => (CHOOSE x \in HeldBy(key) : TRUE) \in HeldBy(key)
<1>1. \A x, y \in HeldBy(key) : x = y
  BY DEF IInv, Typed, Distinct, HeldBy
<1> QED
  BY <1>1

LEMMA FindHeld ==
    ASSUME IInv, moving = Idle, NEW key \in Keys, ~Wild(key)
    PROVE  /\ Find(key) \in 0..size
           /\ HeldBy(key) = {} <=> Find(key) = NULL
           /\ HeldBy(key) # {} => Find(key) = CHOOSE x \in HeldBy(key) : TRUE
           /\ Find(key) # NULL => HeldBy(key) = {Find(key)}
<1>1. Find(key) = IF HeldBy(key) = {} THEN NULL ELSE CHOOSE x \in HeldBy(key) : TRUE
  <2>1. Hits(key) = HeldBy(key)
    BY HitsAreHeld
  <2> DEFINE H == Hits(key)
  <2>2. Find(key) = IF H = {} THEN NULL ELSE CHOOSE x \in H : TRUE
    BY Zenon DEF Find
  <2>3. H = HeldBy(key)
    BY <2>1
  <2> HIDE DEF H
  <2> QED
    BY <2>2, <2>3
<1>2. size \in Nat
  BY DEF IInv, Typed
<1>3. CASE HeldBy(key) = {}
  BY <1>1, <1>2, <1>3 DEF NULL
<1>4. CASE HeldBy(key) # {}
  <2>1. Find(key) \in HeldBy(key)
    BY <1>1, <1>4, HeldOnce
  <2>2. Find(key) \in 1..size
    BY <2>1 DEF HeldBy
  <2>3. HeldBy(key) = {Find(key)}
    BY <2>1, HeldOnce
  <2>4. Find(key) # NULL /\ Find(key) \in 0..size
    BY <1>2, <2>2 DEF NULL
  <2>5. Find(key) = CHOOSE x \in HeldBy(key) : TRUE
    BY <1>1, <1>4, Zenon
  <2> QED
    BY <1>4, <2>3, <2>4, <2>5, Zenon
<1> QED
  BY <1>3, <1>4

\* No entry is held under a name in front of the table.
LEMMA WildHoldsNone ==
    ASSUME IInv, NEW key \in Keys, Wild(key)
    PROVE  HeldBy(key) = {}
<1>1. \A x \in 1..size : x \in 1..Len(entries)
  BY DEF IInv, Typed
<1>2. \A x \in 1..size : ~Wild(entries[x].key)
  BY <1>1 DEF IInv, Distinct
<1> QED
  BY <1>2 DEF HeldBy

\* What the map promises is about what it holds.
Keeps == Contents = Held

LEMMA ContentsHeld == IInv => Keeps
<1> SUFFICES ASSUME IInv PROVE Contents = Held
  BY DEF Keeps
<1>1. CASE moving # Idle
  <2>1. moving.before = Held
    BY <1>1 DEF IInv, Copied
  <2> QED
    BY <1>1, <2>1 DEF Contents
<1>2. CASE moving = Idle
  <2>1. ASSUME NEW key \in Keys
        PROVE  Get(key) = IF HeldBy(key) = {} THEN NONE
                          ELSE entries[CHOOSE x \in HeldBy(key) : TRUE].val
    <3>1. CASE Wild(key)
      BY <3>1, WildHoldsNone DEF Get
    <3>2. CASE ~Wild(key)
      BY <1>2, <3>2, FindHeld DEF Get
    <3> QED
      BY <3>1, <3>2
  <2> QED
    BY <1>2, <2>1 DEF Contents, Held
<1> QED
  BY <1>1, <1>2

-----------------------------------------------------------------------------
(* Each entry in one place. *)

LEMMA EntriesOnce == IInv => EveryEntryOnce
<1> SUFFICES ASSUME IInv, arg = Idle PROVE /\ size = Len(entries)
               /\ \A e \in 1..Len(entries) :
                     Cardinality({p \in (DOMAIN table) \X (0..Len(entries)) :
                                     Chain(p[1])[p[2]] = e}) = 1
  BY DEF EveryEntryOnce
<1>1. moving = Idle /\ size \in Nat /\ Len(entries) = size /\ DOMAIN table = 0..allocated - 1
  BY DEF IInv, Copied, Typed, Linked, LinkedIn
<1>2. ASSUME NEW e \in 1..size
      PROVE  Cardinality({p \in (DOMAIN table) \X (0..size) : Chain(p[1])[p[2]] = e}) = 1
  <2> DEFINE S == {p \in (DOMAIN table) \X (0..size) : Chain(p[1])[p[2]] = e}
             b == Place(e)
  <2>1. b \in 0..allocated - 1 /\ e # NULL
    BY <1>1, <1>2 DEF IInv, Linked, LinkedIn, NULL
  <2>2. \A d \in 0..allocated - 1 : Follows(Chain(d), d)
    BY <1>1, ChainFollows
  <2>3. PICK n \in 0..size : Chain(b)[n] = e
    BY <1>1, <1>2, <2>1, <2>2, ChainReaches
  <2>4. ASSUME NEW p \in S PROVE p = <<b, n>>
    <3>1. PICK d \in 0..allocated - 1, m \in 0..size : p = <<d, m>> /\ Chain(d)[m] = e
      BY <1>1
    <3>2. d = b
      BY <1>1, <2>1, <2>2, <3>1, ChainPlace
    <3>3. ~(m < n) /\ ~(n < m)
      <4>1. Chain(b)[m] = e /\ e \in Nat
        BY <3>1, <3>2
      <4>2. m < n => Chain(b)[n] < Chain(b)[m]
        BY <1>1, <2>1, <2>2, <4>1, ChainFalls
      <4>3. n < m => Chain(b)[m] < Chain(b)[n]
        BY <1>1, <2>1, <2>2, <2>3, ChainFalls
      <4> QED
        BY <2>3, <4>1, <4>2, <4>3
    <3> QED
      BY <3>1, <3>2, <3>3
  <2>5. <<b, n>> \in S
    BY <1>1, <2>1, <2>3
  <2>6. S = {<<b, n>>}
    BY <2>4, <2>5
  <2> HIDE DEF S
  <2>7. Cardinality(S) = 1
    BY <2>6, FS_Singleton
  <2> QED
    BY <2>7 DEF S
<1> QED
  BY <1>1, <1>2

-----------------------------------------------------------------------------
(* The destructor. *)

LEMMA AllDropped == IInv => DestructedOnce
<1> SUFFICES ASSUME IInv, closing # Idle
             PROVE  /\ \A m, n \in 1..Len(closing.freed) :
                          closing.freed[m] = closing.freed[n] => m = n
                    /\ closing.i = allocated => Len(closing.freed) = size
  BY DEF DestructedOnce
<1>1. \A m, n \in 1..Len(closing.freed) : closing.freed[m] = closing.freed[n] => m = n
  BY DEF IInv, Closed
<1>2. ASSUME closing.i = allocated PROVE Len(closing.freed) = size
  <2> DEFINE f == closing.freed
             n == Len(f)
  <2>1. size \in Nat /\ n \in Nat /\ DOMAIN f = 1..n /\ moving = Idle
    BY DEF IInv, Typed, Closed
  <2>2. closing.e = NULL
    BY <1>2, KeysTyped DEF IInv, Closed
  <2>3. ASSUME NEW x \in 1..size PROVE Dropped(x)
    <3>1. Place(x) < allocated
      BY <2>1, KeysTyped DEF IInv, Linked, LinkedIn
    <3> QED
      BY <1>2, <3>1 DEF Dropped
  <2>4. \A m \in 1..n : f[m] \in 1..size
    BY DEF IInv, Closed, Gone
  <2>5. \A x \in 1..size : \E m \in 1..n : f[m] = x
    BY <2>3 DEF IInv, Closed, Gone
  <2>6. f \in [1..n -> 1..size]
    <3>1. f \in Seq(Nat)
      BY DEF IInv, Typed
    <3>2. f \in [1..n -> Nat]
      BY <3>1
    <3> QED
      BY <2>4, <3>2
  <2> HIDE DEF f, n
  <2>7. f \in Injection(1..n, 1..size)
    BY <1>1, <2>6 DEF Injection, IsInjective, f, n
  <2>8. f \in Surjection(1..n, 1..size)
    BY <2>5, <2>6 DEF Surjection
  <2>9. /\ IsFiniteSet(1..size) /\ Cardinality(1..size) = size
        /\ IsFiniteSet(1..n) /\ Cardinality(1..n) = n
    BY <2>1, FS_Interval
  <2>10. Cardinality(1..n) = Cardinality(1..size)
    BY <2>7, <2>8, <2>9, FS_Injection
  <2> QED
    BY <2>9, <2>10 DEF f, n
<1> QED
  BY <1>1, <1>2

-----------------------------------------------------------------------------
(* There is no second growth, and none at all for a few names. *)

\* A name that is put for the first time is the next one.
LEMMA NextName ==
    ASSUME IInv, Absent
    PROVE  size + 1 \in 1..Len(dict) /\ arg[1] = dict[size + 1]
<1>1. /\ arg # Idle /\ moving = Idle /\ ~Wild(arg[1]) /\ arg \in Range(dict) \X Vals
      /\ size \in Nat /\ Len(entries) = size
  BY DEF IInv, Typed, Absent, Called
<1>2. arg[1] \in Keys
  BY <1>1, NamesTyped DEF IInv
<1>3. HeldBy(arg[1]) = {}
  BY <1>1, <1>2, FindHeld DEF Absent
<1>4. PICK p \in 1..Len(dict) : p <= size + 1 /\ arg[1] = dict[p]
  BY <1>1 DEF IInv, Asked
<1>5. p \notin 1..size
  <2>1. ASSUME p \in 1..size PROVE FALSE
    <3>1. entries[p].key = dict[p]
      BY <1>1, <2>1 DEF IInv, Ordered
    <3> QED
      BY <1>3, <1>4, <2>1, <3>1 DEF HeldBy
  <2> QED
    BY <2>1
<1>6. p = size + 1
  BY <1>1, <1>4, <1>5
<1> QED
  BY <1>4, <1>6

LEMMA GrowsOnce ==
    ASSUME IInv, Absent, Full
    PROVE  /\ Scattered(dict) /\ allocated = MinSize /\ size = Filling
           /\ size + 1 \in 1..Len(dict) /\ arg[1] = dict[size + 1]
<1>1. size + 1 \in 1..Len(dict) /\ arg[1] = dict[size + 1]
  BY NextName
<1>2. size \in Nat /\ Len(dict) \in Nat /\ size <= Len(dict) - 1
  BY <1>1, NamesTyped DEF IInv, Typed
<1>3. 4 * size >= 3 * allocated /\ allocated \in Nat /\ allocated >= MinSize
  BY KeysTyped, SizesTyped DEF Full, IInv, Sized
<1>4. ~Few(dict)
  BY <1>2, <1>3, SizesTyped DEF Few
<1>5. Scattered(dict)
  BY <1>4 DEF IInv, Tame
<1>6. 4 * (Len(dict) - 1) < 3 * Grown
  BY <1>5 DEF Scattered
<1>7. allocated = MinSize
  BY <1>2, <1>3, <1>6, SizesTyped DEF IInv, Sized
<1>8. size <= Filling /\ ~(size <= Filling - 1)
  BY <1>2, <1>3, <1>7, SizesTyped DEF IInv, Sized
<1> QED
  BY <1>1, <1>2, <1>5, <1>7, <1>8, SizesTyped

\* The first entries of a scattered map meet in neither table.
LEMMA Apart ==
    ASSUME Typed, Ordered, Scattered(dict), size <= Filling
    PROVE  /\ \A x, y \in 1..size : OldPlace(x) = OldPlace(y) => x = y
           /\ \A x, y \in 1..size :
                 IndexIn(entries[x].key, Grown) = IndexIn(entries[y].key, Grown) => x = y
           /\ \A x \in 1..size :
                 /\ IndexIn(entries[x].key, Grown) \in 0..Grown - 1
                 /\ OldPlace(x) \in Int
<1>1. /\ size \in Nat /\ size <= Len(entries) /\ Len(entries) \in Nat
      /\ Len(entries) <= Len(dict) /\ Len(dict) \in Nat
  BY NamesTyped DEF Typed, Ordered
<1>2. ASSUME NEW x \in 1..size
      PROVE  x \in 1..Filling /\ entries[x].key = dict[x] /\ dict[x] \in Keys
  <2>1. x \in 1..Len(entries) /\ x \in 1..Len(dict) /\ x \in 1..Filling
    BY <1>1, SizesTyped
  <2> QED
    BY <2>1, NamesTyped DEF Ordered
<1>3. ASSUME NEW x \in 1..size
      PROVE  IndexIn(entries[x].key, Grown) \in 0..Grown - 1 /\ OldPlace(x) \in Int
  <2>1. IndexIn(dict[x], Grown) >= 0
    BY <1>2 DEF Scattered
  <2>2. IndexIn(dict[x], Grown) \in Int /\ IndexIn(dict[x], Grown) < Grown
        /\ IndexIn(dict[x], MinSize) \in Int
    BY <1>2, IndexInType, SizesTyped
  <2> QED
    BY <1>2, <2>1, <2>2, SizesTyped DEF OldPlace
<1>4. \A p, q \in 1..Filling :
         \/ IndexIn(dict[p], MinSize) = IndexIn(dict[q], MinSize)
         \/ IndexIn(dict[p], Grown) = IndexIn(dict[q], Grown)
         => p = q
  BY DEF Scattered
<1>5. ASSUME NEW x \in 1..size, NEW y \in 1..size, OldPlace(x) = OldPlace(y)
      PROVE  x = y
  BY <1>2, <1>4, <1>5 DEF OldPlace
<1>6. ASSUME NEW x \in 1..size, NEW y \in 1..size,
             IndexIn(entries[x].key, Grown) = IndexIn(entries[y].key, Grown)
      PROVE  x = y
  BY <1>2, <1>4, <1>6
<1> QED
  BY <1>3, <1>5, <1>6

-----------------------------------------------------------------------------
(* Every step keeps the invariant. *)

LEMMA HeldSame ==
    ASSUME size' = size,
           \A x \in 1..size :
              entries'[x].key = entries[x].key /\ entries'[x].val = entries[x].val
    PROVE  Held' = Held
<1>1. ASSUME NEW key PROVE HeldBy(key)' = HeldBy(key)
  BY DEF HeldBy
<1>2. ASSUME NEW key, HeldBy(key) # {}
      PROVE  entries'[CHOOSE x \in HeldBy(key) : TRUE].val
               = entries[CHOOSE x \in HeldBy(key) : TRUE].val
  <2>1. (CHOOSE x \in HeldBy(key) : TRUE) \in HeldBy(key)
    BY <1>2
  <2> QED
    BY <2>1 DEF HeldBy
<1> QED
  BY <1>1, <1>2 DEF Held

\* What no step changes when it leaves these alone.
SameTable == UNCHANGED <<entries, table, size, allocated, moving, dict>>

LEMMA TableKept ==
    ASSUME IInv, SameTable
    PROVE  /\ Ordered' /\ Sized' /\ Distinct' /\ Linked'
           /\ Held' = Held /\ Contents' = Contents
<1>1. Held' = Held
  BY HeldSame DEF SameTable
<1>2. Distinct'
  BY DEF IInv, Distinct, Wild, Index, SameTable
<1>3. Linked'
  BY DEF IInv, Linked, LinkedIn, Place, Index, SameTable
<1>4. Contents' = Contents
  BY DEF Contents, Get, Wild, Find, Hits, Chain, Index, SameTable
<1>5. Ordered' /\ Sized'
  BY DEF IInv, Ordered, Sized, SameTable
<1> QED
  BY <1>1, <1>2, <1>3, <1>4, <1>5

LEMMA CallPutKeeps ==
    ASSUME IInv, NEW key \in Keys, NEW val \in Vals, CallPut(key, val)
    PROVE  IInv'
<1>1. SameTable /\ moving = Idle /\ closing = Idle /\ closing' = closing
      /\ arg' = <<key, val>>
  BY DEF CallPut, SameTable, IInv, Copied
<1>2. Len(entries) = size /\ size \in Nat /\ DOMAIN entries = 1..size
      /\ Len(dict) \in Nat /\ DOMAIN dict = 1..Len(dict)
  <2>1. dict \in Seq(Seq(1..127))
    BY NamesAssumption DEF IInv, Typed
  <2> QED
    BY <1>1, <2>1 DEF IInv, Typed
<1>3. PICK p \in 1..Len(dict) : key = dict[p] /\ \A q \in 1..p - 1 : IsPut(dict[q])
  BY <1>2 DEF CallPut
<1>4. p <= size + 1
  <2>1. SUFFICES ASSUME ~(p <= size + 1) PROVE FALSE
    OBVIOUS
  <2>2. size + 1 \in 1..p - 1 /\ size + 1 \in 1..Len(dict)
    BY <1>2, <1>3, <2>1
  <2>3. PICK x \in 1..size : entries[x].key = dict[size + 1]
    BY <1>2, <1>3, <2>2 DEF IsPut
  <2>4. entries[x].key = dict[x] /\ x \in 1..Len(dict)
    BY <1>2 DEF IInv, Ordered
  <2>5. x = size + 1
    BY <2>2, <2>3, <2>4, NamesTyped DEF IInv
  <2> QED
    BY <1>2, <2>5
<1>5. Typed'
  <2>1. key \in Range(dict)
    BY <1>3, NamesTyped DEF IInv
  <2> QED
    BY <1>1, <2>1 DEF IInv, Typed, SameTable, Entry
<1>6. Asked'
  BY <1>1, <1>3, <1>4 DEF Asked, SameTable
<1>7. Copied' /\ Closed'
  BY <1>1 DEF Copied, Closed, SameTable
<1> QED
  BY <1>1, <1>5, <1>6, <1>7, TableKept DEF IInv, SameTable

LEMMA DestructKeeps ==
    ASSUME IInv, Destruct
    PROVE  IInv'
<1>1. SameTable /\ moving = Idle /\ arg = Idle /\ arg' = arg
  BY DEF Destruct, SameTable, IInv, Copied
<1>2. /\ size \in Nat /\ allocated \in Nat \ {0} /\ table[0] \in 0..size /\ 0 \in 0..allocated - 1
      /\ table[0] # NULL => Place(table[0]) = 0
  <2>1. size \in Nat /\ 0 \in 0..allocated - 1 /\ allocated \in Nat \ {0}
    BY KeysTyped DEF IInv, Typed
  <2>2. LinkedIn(table, allocated)
    BY <1>1 DEF IInv, Linked
  <2> QED
    BY <2>1, <2>2 DEF LinkedIn
<1>3. Typed'
  <2>1. closing' \in [i : Nat, e : Nat, freed : Seq(Nat)]
    BY <1>2 DEF Destruct
  <2> QED
    BY <1>1, <2>1 DEF IInv, Typed, SameTable, Entry
<1>4. Closed'
  <2>1. Gone' = {}
    <3>1. ASSUME NEW x \in 1..size PROVE ~(Place(x) < 0 \/ (Place(x) = 0 /\ x > table[0]))
      BY <1>1, <1>2 DEF IInv, Linked, LinkedIn
    <3> QED
      BY <1>1, <3>1 DEF Gone, Dropped, Place, Index, Destruct, SameTable
  <2>2. closing'.freed = <<>> /\ closing'.i = 0 /\ closing'.e = table[0]
    BY DEF Destruct
  <2> QED
    BY <1>1, <1>2, <2>1, <2>2 DEF Closed, SameTable, Place, Index
<1>5. Copied'
  BY <1>1 DEF Copied, SameTable
<1> QED
  BY <1>1, <1>3, <1>4, <1>5, TableKept DEF IInv, Asked, SameTable

LEMMA FreeEntryKeeps ==
    ASSUME IInv, FreeEntry
    PROVE  IInv'
<1> DEFINE e == closing.e
           f == closing.freed
           next == entries[closing.e].next
<1>1. /\ SameTable /\ moving = Idle /\ arg = Idle /\ arg' = arg /\ e # NULL
      /\ closing' = [closing EXCEPT !.e = next, !.freed = Append(@, e)]
      /\ closing \in [i : Nat, e : Nat, freed : Seq(Nat)]
  BY DEF FreeEntry, SameTable, IInv, Closed, Typed
<1>2. size \in Nat /\ e \in 1..size /\ Place(e) = closing.i /\ closing.i < allocated
      /\ closing.i \in 0..allocated
  BY <1>1 DEF IInv, Typed, Closed, FreeEntry, NULL
<1>3. /\ next \in 0..e - 1
      /\ next # NULL => Place(next) = closing.i
      /\ \A y \in 1..e - 1 : Place(y) = closing.i => y <= next
  BY <1>1, <1>2 DEF IInv, Linked, LinkedIn
<1>4. /\ closing'.i = closing.i /\ closing'.e = next
      /\ closing'.freed = Append(f, e) /\ f \in Seq(Nat) /\ e \in Nat
      /\ closing' \in [i : Nat, e : Nat, freed : Seq(Nat)]
  <2>1. f \in Seq(Nat) /\ e \in Nat /\ next \in Nat /\ closing.i \in Nat
    BY <1>1, <1>2, <1>3
  <2> HIDE DEF e, f, next
  <2>2. closing' = [i |-> closing.i, e |-> next, freed |-> Append(f, e)]
    BY <1>1 DEF f
  <2>3. Append(f, e) \in Seq(Nat)
    BY <2>1
  <2> QED
    BY <2>1, <2>2, <2>3
<1>5. Typed'
  BY <1>1, <1>4 DEF IInv, Typed, SameTable, Entry
<1>6. \A x : Place(x)' = Place(x)
  BY <1>1 DEF Place, Index, SameTable
<1> HIDE DEF e, f, next
<1>7. ASSUME NEW x \in 1..size PROVE x \in Gone' <=> x \in Gone \/ x = e
  <2>1. x \in Gone' <=> Place(x) < closing.i \/ (Place(x) = closing.i /\ x > next)
    BY <1>1, <1>4, <1>6 DEF Gone, Dropped, SameTable
  <2>2. x \in Gone <=> Place(x) < closing.i \/ (Place(x) = closing.i /\ x > e)
    BY DEF Gone, Dropped, e
  <2>3. Place(x) = closing.i /\ x < e => x <= next
    BY <1>2, <1>3
  <2> QED
    BY <1>2, <1>3, <2>1, <2>2, <2>3
<1>8. e \notin Gone /\ Gone' = Gone \cup {e}
  <2>1. e \notin Gone
    BY <1>2 DEF Gone, Dropped, e
  <2>2. Gone \subseteq 1..size /\ Gone' \subseteq 1..size
    BY <1>1 DEF Gone, SameTable
  <2> QED
    BY <1>2, <1>7, <2>1, <2>2
<1>9. Closed'
  <2> DEFINE n == Len(f)
             g == Append(f, e)
  <2>1. n \in Nat /\ Len(g) = n + 1 /\ g[n + 1] = e /\ \A m \in 1..n : g[m] = f[m]
    BY <1>4
  <2>2. /\ \A m, k \in 1..n : f[m] = f[k] => m = k
        /\ \A m \in 1..n : f[m] \in Gone
        /\ \A x \in Gone : \E m \in 1..n : f[m] = x
    BY <1>1 DEF IInv, Closed, f, FreeEntry
  <2> HIDE DEF g, n
  <2>3. ASSUME NEW m \in 1..n + 1, NEW k \in 1..n + 1, g[m] = g[k] PROVE m = k
    <3>1. CASE m \in 1..n /\ k \in 1..n
      BY <2>1, <2>2, <2>3, <3>1
    <3>2. CASE m = n + 1 /\ k = n + 1
      BY <3>2
    <3>3. CASE m \in 1..n /\ k = n + 1
      BY <1>8, <2>1, <2>2, <2>3, <3>3
    <3>4. CASE m = n + 1 /\ k \in 1..n
      BY <1>8, <2>1, <2>2, <2>3, <3>4
    <3> QED
      BY <2>1, <3>1, <3>2, <3>3, <3>4
  <2>4. ASSUME NEW m \in 1..n + 1 PROVE g[m] \in Gone'
    <3>1. CASE m \in 1..n
      BY <1>8, <2>1, <2>2, <3>1
    <3>2. CASE m = n + 1
      BY <1>8, <2>1, <3>2
    <3> QED
      BY <2>1, <3>1, <3>2
  <2>5. ASSUME NEW x \in Gone' PROVE \E m \in 1..n + 1 : g[m] = x
    <3>1. CASE x = e
      BY <2>1, <3>1
    <3>2. CASE x # e
      <4>1. PICK m \in 1..n : f[m] = x
        BY <1>8, <2>2, <2>5, <3>2
      <4> QED
        BY <2>1, <4>1
    <3> QED
      BY <3>1, <3>2
  <2>6. closing'.freed = g /\ closing'.i \in 0..allocated /\ closing'.e \in 0..size
        /\ (closing.e # NULL => closing.i < allocated /\ Place(closing.e) = closing.i)'
    <3>1. closing'.freed = g /\ closing'.i = closing.i /\ closing'.e = next
      BY <1>4 DEF g
    <3>2. next \in 0..size /\ closing.i \in 0..allocated /\ closing.i < allocated
      BY <1>2, <1>3
    <3>3. next # NULL => (\A x : x = closing'.e => Place(x)' = closing'.i)
      BY <1>3, <1>6, <3>1
    <3>4. next # NULL => (Place(closing.e) = closing.i)'
      BY <3>3 DEF Place, Index
    <3> QED
      BY <1>1, <3>1, <3>2, <3>4 DEF SameTable
  <2>7. allocated' = allocated /\ size' = size /\ moving' = Idle /\ arg' = Idle
    BY <1>1 DEF SameTable
  <2> QED
    BY <2>1, <2>3, <2>4, <2>5, <2>6, <2>7 DEF Closed
<1>10. Copied'
  BY <1>1 DEF Copied, SameTable
<1> QED
  BY <1>1, <1>5, <1>9, <1>10, TableKept DEF IInv, Asked, SameTable

LEMMA FreeBucketKeeps ==
    ASSUME IInv, FreeBucket
    PROVE  IInv'
<1> DEFINE i == closing.i + 1
           e == IF i < allocated THEN table[i] ELSE NULL
<1>1. /\ SameTable /\ moving = Idle /\ arg = Idle /\ arg' = arg
      /\ closing.e = NULL /\ closing.i < allocated
      /\ closing' = [closing EXCEPT !.i = i, !.e = e]
      /\ closing \in [i : Nat, e : Nat, freed : Seq(Nat)]
  BY DEF FreeBucket, SameTable, IInv, Closed, Typed
<1>2. size \in Nat /\ allocated \in Nat \ {0} /\ i \in 1..allocated
  BY <1>1, KeysTyped DEF IInv, Typed
<1>3. /\ e \in 0..size
      /\ e # NULL => i < allocated /\ Place(e) = i
  BY <1>1, <1>2 DEF IInv, Linked, LinkedIn, NULL
<1> HIDE DEF e
<1>4. /\ closing'.i = i /\ closing'.e = e /\ closing'.freed = closing.freed
      /\ closing' \in [i : Nat, e : Nat, freed : Seq(Nat)]
  <2>1. i \in Nat /\ e \in Nat /\ closing.freed \in Seq(Nat)
    BY <1>1, <1>2, <1>3
  <2> HIDE DEF i
  <2>2. closing' = [i |-> i, e |-> e, freed |-> closing.freed]
    BY <1>1
  <2> QED
    BY <2>1, <2>2
<1>5. Typed'
  BY <1>1, <1>4 DEF IInv, Typed, SameTable, Entry
<1>6. \A x : Place(x)' = Place(x)
  BY <1>1 DEF Place, Index, SameTable
<1>7. ASSUME NEW x \in 1..size PROVE x \in Gone' <=> x \in Gone
  <2>1. x \in Gone' <=> Place(x) < i \/ (Place(x) = i /\ x > e)
    BY <1>1, <1>4, <1>6 DEF Gone, Dropped, SameTable
  <2>2. x \in Gone <=> Place(x) < closing.i \/ (Place(x) = closing.i /\ x > 0)
    BY <1>1 DEF Gone, Dropped, NULL
  <2>3. Place(x) \in 0..allocated - 1 /\ x <= table[Place(x)]
    BY <1>1 DEF IInv, Linked, LinkedIn
  <2>4. ~(Place(x) = i /\ x > e)
    <3>1. CASE i < allocated
      BY <1>2, <1>3, <2>3, <3>1 DEF e
    <3>2. CASE ~(i < allocated)
      BY <1>2, <2>3, <3>2
    <3> QED
      BY <3>1, <3>2
  <2> QED
    BY <1>1, <1>2, <2>1, <2>2, <2>3, <2>4
<1>8. Closed'
  <2>0. Gone' = Gone
    <3>1. Gone \subseteq 1..size /\ Gone' \subseteq 1..size
      BY <1>1 DEF Gone, SameTable
    <3> QED
      BY <1>7, <3>1
  <2>1. /\ \A m, n \in 1..Len(closing.freed) :
              closing.freed[m] = closing.freed[n] => m = n
        /\ \A m \in 1..Len(closing.freed) : closing.freed[m] \in Gone
        /\ \A x \in Gone : \E m \in 1..Len(closing.freed) : closing.freed[m] = x
    BY DEF IInv, Closed, FreeBucket
  <2>2. closing'.i \in 0..allocated /\ closing'.e \in 0..size
        /\ (closing.e # NULL => closing.i < allocated /\ Place(closing.e) = closing.i)'
    BY <1>1, <1>2, <1>3, <1>4 DEF Place, Index, SameTable
  <2>3. allocated' = allocated /\ size' = size /\ moving' = Idle /\ arg' = Idle
    BY <1>1 DEF SameTable
  <2> QED
    BY <1>4, <2>0, <2>1, <2>2, <2>3 DEF Closed
<1>9. Copied'
  BY <1>1 DEF Copied, SameTable
<1> QED
  BY <1>1, <1>5, <1>8, <1>9, TableKept DEF IInv, Asked, SameTable

\* A map_put that returns makes its value the one that is held.
Returns == Held' = [Held EXCEPT ![arg[1]] = arg[2]] /\ arg # Idle /\ arg' = Idle

LEMMA ReplaceKeeps ==
    ASSUME IInv, Replace
    PROVE  IInv' /\ Returns
<1> DEFINE e == Find(arg[1])
<1>1. /\ arg \in Range(dict) \X Vals /\ arg # Idle /\ moving = Idle /\ ~Wild(arg[1])
      /\ closing = Idle /\ size \in Nat /\ Len(entries) = size
      /\ entries \in Seq(Entry)
  BY DEF Replace, Called, IInv, Typed, Closed
<1>2. arg[1] \in Range(dict) /\ arg[2] \in Vals /\ arg[1] \in Keys
  BY <1>1, KeysTyped DEF IInv
<1>3. e \in 1..size /\ HeldBy(arg[1]) = {e}
  BY <1>1, <1>2, FindHeld DEF Replace, NULL
<1>4. entries' = [entries EXCEPT ![e].val = arg[2]]
  BY DEF Replace
<1> HIDE DEF e
<1>5. /\ UNCHANGED <<table, size, allocated, moving, closing, dict>> /\ arg' = Idle
  BY DEF Replace
<1>6. \A x \in 1..size : entries[x] \in Entry
  BY <1>1, KeysTyped DEF IInv
<1>7. ASSUME NEW x \in 1..size
      PROVE  /\ entries'[x].key = entries[x].key /\ entries'[x].next = entries[x].next
             /\ entries'[x].val = IF x = e THEN arg[2] ELSE entries[x].val
             /\ entries'[x] \in Entry
  BY <1>1, <1>2, <1>3, <1>4, <1>6 DEF Entry
<1>8. entries' \in Seq(Entry) /\ Len(entries') = size
  <2>1. \A x \in 1..size : entries'[x] \in Entry
    BY <1>7
  <2>2. DOMAIN entries = 1..size /\ entries = [x \in 1..size |-> entries[x]]
    BY <1>1
  <2>3. entries' \in [1..size -> Entry]
    BY <1>4, <2>1, <2>2
  <2> QED
    BY <1>1, <2>3
<1>9. Typed'
  BY <1>1, <1>5, <1>8 DEF IInv, Typed, Entry
<1>10. ASSUME NEW x \in 1..size PROVE Place(x)' = Place(x)
  BY <1>5, <1>7 DEF Place, Index
<1>11. Distinct'
  BY <1>1, <1>5, <1>7, <1>8 DEF IInv, Distinct, Wild, Index
<1>12. Linked'
  <2>0. LinkedIn(table, allocated)
    BY <1>1 DEF IInv, Linked
  <2>1. table \in [0..allocated - 1 -> 0..size]
    BY <2>0 DEF LinkedIn
  <2>2. ASSUME NEW b \in 0..allocated - 1, table[b] # NULL PROVE (Place(table[b]) = b)'
    <3>1. table[b] \in 0..size /\ Place(table[b]) = b
      BY <2>0, <2>1, <2>2 DEF LinkedIn
    <3>2. table[b] \in 1..size
      BY <1>1, <2>2, <3>1 DEF NULL
    <3> QED
      BY <1>5, <1>7, <3>1, <3>2 DEF Place, Index
  <2>3. ASSUME NEW x \in 1..size
        PROVE  /\ Place(x)' \in 0..allocated - 1 /\ x <= table[Place(x)']
               /\ entries'[x].next \in 0..x - 1
               /\ (entries[x].next # NULL => Place(entries[x].next) = Place(x))'
               /\ \A y \in 1..x - 1 : Place(y)' = Place(x)' => y <= entries'[x].next
    <3>1. /\ Place(x) \in 0..allocated - 1 /\ x <= table[Place(x)]
          /\ entries[x].next \in 0..x - 1
          /\ entries[x].next # NULL => Place(entries[x].next) = Place(x)
          /\ \A y \in 1..x - 1 : Place(y) = Place(x) => y <= entries[x].next
      BY <1>1 DEF IInv, Linked, LinkedIn
    <3>2. (entries[x].next # NULL => Place(entries[x].next) = Place(x))'
      <4>1. entries[x].next # NULL => entries[x].next \in 1..size
        BY <1>1, <3>1 DEF NULL
      <4> QED
        BY <1>5, <1>7, <3>1, <4>1 DEF Place, Index, NULL
    <3>3. \A y \in 1..x - 1 : y \in 1..size
      BY <1>1
    <3> QED
      BY <1>7, <1>10, <3>1, <3>2, <3>3
  <2> QED
    BY <1>1, <1>5, <2>1, <2>2, <2>3 DEF Linked, LinkedIn
<1>13. Copied' /\ Closed'
  BY <1>1, <1>5 DEF Copied, Closed
<1>14. Held' = [Held EXCEPT ![arg[1]] = arg[2]]
  <2>1. ASSUME NEW key PROVE HeldBy(key)' = HeldBy(key)
    BY <1>5, <1>7 DEF HeldBy
  <2>2. ASSUME NEW key \in Keys
        PROVE  Held'[key] = IF key = arg[1] THEN arg[2] ELSE Held[key]
    <3>0. Held'[key] = IF HeldBy(key) = {} THEN NONE
                       ELSE entries'[CHOOSE x \in HeldBy(key) : TRUE].val
      <4>1. HeldBy(key)' = HeldBy(key)
        BY <2>1
      <4> QED
        BY <4>1 DEF Held
    <3>1. CASE key = arg[1]
      <4>1. (CHOOSE x \in {e} : TRUE) = e
        OBVIOUS
      <4>2. Held'[key] = entries'[CHOOSE x \in {e} : TRUE].val
        BY <1>3, <3>0, <3>1
      <4> QED
        BY <1>3, <1>7, <3>1, <4>1, <4>2
    <3>2. CASE key # arg[1] /\ HeldBy(key) # {}
      <4> DEFINE x == CHOOSE x \in HeldBy(key) : TRUE
      <4>1. x \in HeldBy(key)
        BY <3>2
      <4>2. x \in 1..size /\ x # e
        <5>1. x \in 1..size /\ entries[x].key = key
          BY <4>1 DEF HeldBy
        <5>2. entries[e].key = arg[1]
          BY <1>3 DEF HeldBy
        <5> QED
          BY <3>2, <5>1, <5>2
      <4>3. Held[key] = entries[x].val /\ Held'[key] = entries'[x].val
        BY <3>0, <3>2 DEF Held
      <4> HIDE DEF x
      <4> QED
        BY <1>7, <3>2, <4>2, <4>3
    <3>3. CASE key # arg[1] /\ HeldBy(key) = {}
      BY <3>0, <3>3 DEF Held
    <3> QED
      BY <3>1, <3>2, <3>3
  <2>3. /\ DOMAIN Held = Keys /\ DOMAIN Held' = Keys
        /\ Held = [key \in Keys |-> Held[key]] /\ Held' = [key \in Keys |-> Held'[key]]
    BY DEF Held
  <2> QED
    BY <2>2, <2>3
<1>15. Ordered' /\ Asked' /\ Sized'
  BY <1>1, <1>5, <1>7, <1>8 DEF IInv, Ordered, Asked, Sized
<1> QED
  BY <1>1, <1>5, <1>9, <1>11, <1>12, <1>13, <1>14, <1>15 DEF IInv, Returns

\* The end of map_put, in front of the chain of any table that holds the others.
LEMMA LinkKeeps ==
    ASSUME IInv, NEW t, LinkedIn(t, allocated),
           NEW made, made \in Seq(Entry), Len(made) = size + 1,
           \A x \in 1..size : made[x] = entries[x],
           made[size + 1].key = arg[1], made[size + 1].val = arg[2],
           arg \in Range(dict) \X Vals, arg # Idle, ~Wild(arg[1]), HeldBy(arg[1]) = {},
           size + 1 \in 1..Len(dict), arg[1] = dict[size + 1],
           allocated = MinSize => size + 1 <= Filling,
           Link(made, t, Index(arg[1])),
           UNCHANGED <<allocated, closing, dict>>, closing = Idle
    PROVE  IInv' /\ Returns
<1> DEFINE b == Index(arg[1])
<1>0. PICK n : n = size + 1
  OBVIOUS
<1>1. /\ n \in Nat \ {0} /\ n = size + 1
      /\ arg[1] \in Range(dict) /\ arg[2] \in Vals /\ arg[1] \in Keys /\ size \in Nat
      /\ b \in 0..allocated - 1 /\ allocated \in Nat \ {0}
  BY <1>0, KeysTyped DEF IInv, Typed, Wild
<1>2. t \in [0..allocated - 1 -> 0..size] /\ t[b] \in 0..size
  BY <1>1 DEF LinkedIn
<1>3. /\ entries' = [made EXCEPT ![n].next = t[b]]
      /\ table' = [t EXCEPT ![b] = n]
      /\ size' = n /\ arg' = Idle /\ moving' = Idle
  BY <1>0 DEF Link
<1>4. /\ made[n].key = arg[1] /\ made[n].val = arg[2] /\ DOMAIN made = 1..n
      /\ \A x \in 1..n : made[x] \in Entry
  BY <1>0
<1>5. ASSUME NEW x \in 1..size PROVE entries'[x] = entries[x]
  BY <1>1, <1>3
<1>6. /\ entries'[n].key = arg[1] /\ entries'[n].val = arg[2] /\ entries'[n].next = t[b]
      /\ entries'[n] \in Entry
  <2>1. made[n] \in Entry /\ t[b] \in Nat /\ n \in DOMAIN made
    BY <1>1, <1>2, <1>4
  <2> DEFINE e == [made[n] EXCEPT !.next = t[b]]
  <2>2. entries'[n] = e
    BY <1>3, <2>1
  <2> HIDE DEF b
  <2>3. e \in Entry /\ e.key = made[n].key /\ e.val = made[n].val /\ e.next = t[b]
    BY <2>1 DEF Entry
  <2> QED
    BY <1>4, <2>2, <2>3
<1>7. entries' \in Seq(Entry) /\ Len(entries') = n
  <2>1. \A x \in 1..n : entries'[x] \in Entry
    BY <1>1, <1>3, <1>4, <1>6
  <2>2. DOMAIN entries' = 1..n /\ entries' = [x \in 1..n |-> entries'[x]]
    BY <1>3, <1>4
  <2>3. entries' \in [1..n -> Entry] /\ n \in Nat
    BY <1>1, <2>1, <2>2
  <2> QED
    BY <2>3
<1>8. ASSUME NEW x \in 1..size PROVE Place(x)' = Place(x)
  BY <1>5 DEF Place, Index
<1>9. Place(n)' = b
  BY <1>6 DEF Place, Index
<1>10. Typed'
  BY <1>1, <1>3, <1>7 DEF IInv, Typed, Entry
<1>11. Distinct'
  <2>1. \A x \in 1..n : x \in 1..size \/ x = n
    BY <1>1
  <2>2. \A x \in 1..size : x \in 1..Len(entries) /\ entries[x].key # arg[1]
    BY DEF IInv, Typed, HeldBy
  <2>3. ASSUME NEW x \in 1..n PROVE ~Wild(entries'[x].key)
    BY <1>5, <1>6, <2>1, <2>2, <2>3 DEF IInv, Distinct
  <2>4. ASSUME NEW x \in 1..n, NEW y \in 1..n, entries'[x].key = entries'[y].key
        PROVE  x = y
    BY <1>5, <1>6, <2>1, <2>2, <2>4 DEF IInv, Distinct
  <2> QED
    BY <1>7, <2>3, <2>4 DEF Distinct, Wild, Index
<1>12. Linked'
  <2> DEFINE u == [t EXCEPT ![b] = n]
  <2>1. u \in [0..allocated - 1 -> 0..n]
    BY <1>1, <1>2
  <2>2. \A d \in 0..allocated - 1 : u[d] = IF d = b THEN n ELSE t[d]
    BY <1>2
  <2>3. ASSUME NEW d \in 0..allocated - 1, u[d] # NULL
        PROVE  \A x \in 1..n : x = u[d] => Place(x)' = d
    <3>1. CASE d = b
      BY <1>9, <2>2, <3>1
    <3>2. CASE d # b
      <4>1. u[d] = t[d] /\ t[d] \in 1..size /\ Place(t[d]) = d
        BY <1>2, <2>2, <2>3, <3>2 DEF LinkedIn, NULL
      <4> QED
        BY <1>8, <4>1
    <3> QED
      BY <3>1, <3>2
  <2>4. ASSUME NEW x \in 1..n
        PROVE  /\ Place(x)' \in 0..allocated - 1 /\ x <= u[Place(x)']
               /\ entries'[x].next \in 0..x - 1
               /\ entries'[x].next # NULL =>
                    \A y \in 1..n : y = entries'[x].next => Place(y)' = Place(x)'
               /\ \A y \in 1..x - 1 : Place(y)' = Place(x)' => y <= entries'[x].next
    <3>1. CASE x = n
      <4>1. Place(x)' = b /\ entries'[x].next = t[b] /\ u[b] = n
        BY <1>1, <1>6, <1>9, <2>2, <3>1
      <4>2. t[b] \in 0..x - 1 /\ \A y \in 1..x - 1 : y \in 1..size
        BY <1>1, <1>2, <3>1
      <4>3. ASSUME t[b] # NULL, NEW y \in 1..n, y = t[b] PROVE Place(y)' = b
        <5>1. y \in 1..size /\ Place(y) = b
          BY <1>1, <1>2, <4>3 DEF LinkedIn, NULL
        <5> QED
          BY <1>8, <5>1
      <4>4. ASSUME NEW y \in 1..x - 1, Place(y)' = b PROVE y <= t[b]
        BY <1>8, <4>2, <4>4 DEF LinkedIn
      <4> QED
        BY <1>1, <3>1, <4>1, <4>2, <4>3, <4>4
    <3>2. CASE x # n
      <4>1. x \in 1..size /\ Place(x)' = Place(x) /\ entries'[x].next = entries[x].next
        BY <1>1, <1>5, <1>8, <3>2
      <4>2. /\ Place(x) \in 0..allocated - 1 /\ x <= t[Place(x)]
            /\ entries[x].next \in 0..x - 1
            /\ entries[x].next # NULL => Place(entries[x].next) = Place(x)
            /\ \A y \in 1..x - 1 : Place(y) = Place(x) => y <= entries[x].next
        BY <4>1 DEF LinkedIn
      <4>3. x <= u[Place(x)]
        BY <1>1, <2>2, <4>1, <4>2
      <4>4. \A y \in 1..x - 1 : y \in 1..size
        BY <1>1, <4>1
      <4>5. ASSUME entries[x].next # NULL, NEW y \in 1..n, y = entries[x].next
            PROVE Place(y)' = Place(x)
        <5>1. y \in 1..size
          BY <1>1, <4>1, <4>2, <4>5, SMTT(30)
        <5> QED
          BY <1>8, <4>2, <4>5, <5>1
      <4> QED
        BY <1>8, <4>1, <4>2, <4>3, <4>4, <4>5
    <3> QED
      BY <3>1, <3>2
  <2>5. ASSUME NEW d \in 0..allocated - 1, u[d] # NULL PROVE (Place(table[d]) = d)'
    <3>1. u[d] \in 1..n
      BY <1>1, <2>1, <2>5 DEF NULL
    <3> QED
      BY <1>3, <2>3, <2>5, <3>1 DEF Place, Index
  <2>6. ASSUME NEW x \in 1..n PROVE (entries[x].next # NULL => Place(entries[x].next) = Place(x))'
    <3>1. entries'[x].next # NULL => entries'[x].next \in 1..n
      BY <1>1, <2>4, SMTT(30) DEF NULL
    <3> QED
      BY <2>4, <3>1 DEF Place, Index, NULL
  <2> HIDE DEF u
  <2>7. table' = u /\ size' = n /\ moving' = Idle /\ allocated' = allocated
    BY <1>3 DEF u
  <2> QED
    BY <2>1, <2>4, <2>5, <2>6, <2>7 DEF Linked, LinkedIn
<1>13. Copied' /\ Closed' /\ Asked' /\ Sized'
  BY <1>1, <1>3 DEF IInv, Copied, Closed, Asked, Sized
<1>14. Held' = [Held EXCEPT ![arg[1]] = arg[2]]
  <2>1. \A key : HeldBy(key)' = IF key = arg[1] THEN {n} ELSE HeldBy(key)
    <3>1. ASSUME NEW key, key # arg[1] PROVE HeldBy(key)' = HeldBy(key)
      <4>1. HeldBy(key)' = {x \in 1..n : entries'[x].key = key}
        BY <1>3 DEF HeldBy
      <4>2. \A x \in 1..n : x \in 1..size \/ x = n
        BY <1>1
      <4>3. \A x \in 1..size : x \in 1..n
        BY <1>1
      <4>4. \A x \in 1..n : entries'[x].key = key => x \in 1..size
        BY <1>6, <3>1, <4>2
      <4>5. \A x : x \in HeldBy(key)' <=> x \in HeldBy(key)
        BY <1>5, <4>1, <4>3, <4>4 DEF HeldBy
      <4> QED
        BY <4>5
    <3>3. \A x \in 1..n : entries'[x].key = arg[1] <=> x = n
      <4>1. \A x \in 1..n : x \in 1..size \/ x = n
        BY <1>1
      <4>2. \A x \in 1..size : entries'[x].key # arg[1]
        BY <1>5 DEF HeldBy
      <4>3. n \notin 1..size
        BY <1>1
      <4> QED
        BY <1>6, <4>1, <4>2, <4>3
    <3>4. ASSUME NEW key, key = arg[1] PROVE HeldBy(key)' = {n}
      <4>1. HeldBy(key)' = {x \in 1..n : entries'[x].key = key}
        BY <1>3 DEF HeldBy
      <4>2. n \in 1..n
        BY <1>1
      <4> QED
        BY <3>3, <3>4, <4>1, <4>2
    <3> QED
      BY <3>1, <3>4
  <2>2. ASSUME NEW key \in Keys
        PROVE  Held'[key] = IF key = arg[1] THEN arg[2] ELSE Held[key]
    <3>1. CASE key = arg[1]
      <4>1. HeldBy(key)' = {n} /\ (CHOOSE x \in {n} : TRUE) = n
        BY <2>1, <3>1
      <4>2. Held'[key] = entries'[CHOOSE x \in {n} : TRUE].val
        BY <4>1 DEF Held
      <4> QED
        BY <1>6, <3>1, <4>1, <4>2
    <3>2. CASE key # arg[1]
      <4>1. HeldBy(key)' = HeldBy(key)
        BY <2>1, <3>2
      <4>2. Held'[key] = IF HeldBy(key) = {} THEN NONE
                         ELSE entries'[CHOOSE x \in HeldBy(key) : TRUE].val
        BY <4>1 DEF Held
      <4>3. HeldBy(key) # {} => (CHOOSE x \in HeldBy(key) : TRUE) \in 1..size
        BY HeldOnce DEF HeldBy
      <4> QED
        BY <1>5, <3>2, <4>2, <4>3 DEF Held
    <3> QED
      BY <3>1, <3>2
  <2>3. /\ DOMAIN Held = Keys /\ DOMAIN Held' = Keys
        /\ Held = [key \in Keys |-> Held[key]] /\ Held' = [key \in Keys |-> Held'[key]]
    BY DEF Held
  <2> QED
    BY <2>2, <2>3
<1>15. Ordered'
  <2>1. ASSUME NEW x \in 1..n PROVE entries'[x].key = dict[x]
    <3>1. CASE x = n
      BY <1>1, <1>6, <3>1
    <3>2. CASE x # n
      <4>1. x \in 1..size /\ x \in 1..Len(entries)
        BY <1>1, <3>2 DEF IInv, Typed
      <4> QED
        BY <1>5, <4>1 DEF IInv, Ordered
    <3> QED
      BY <3>1, <3>2
  <2>2. n <= Len(dict)
    BY <1>1, NamesTyped DEF IInv
  <2> QED
    BY <1>7, <2>1, <2>2 DEF Ordered
<1> QED
  BY <1>3, <1>10, <1>11, <1>12, <1>13, <1>14, <1>15 DEF IInv, Returns

LEMMA InsertKeeps ==
    ASSUME IInv, Insert
    PROVE  IInv' /\ Returns
<1>1. /\ arg \in Range(dict) \X Vals /\ arg # Idle /\ moving = Idle /\ ~Wild(arg[1])
      /\ closing = Idle /\ size \in Nat /\ Len(entries) = size
      /\ entries \in Seq(Entry) /\ arg[1] \in Range(dict) /\ arg[2] \in Vals
      /\ arg[1] \in Keys
  BY KeysTyped DEF Insert, Absent, Called, IInv, Typed, Closed
<1>2. HeldBy(arg[1]) = {}
  BY <1>1, FindHeld DEF Insert, Absent
<1>3. LinkedIn(table, allocated)
  BY <1>1 DEF IInv, Linked
<1> DEFINE new == [key |-> arg[1], val |-> arg[2], next |-> NULL]
           made == Append(entries, new)
<1>4. new \in Entry /\ new.key = arg[1] /\ new.val = arg[2]
  BY <1>1 DEF Entry, NULL
<1> HIDE DEF new
<1>5. /\ made \in Seq(Entry) /\ Len(made) = size + 1
      /\ made[size + 1] = new /\ \A x \in 1..size : made[x] = entries[x]
  BY <1>1, <1>4
<1>6. Link(made, table, Index(arg[1]))
  BY DEF Insert, WithNew, new
<1> HIDE DEF made
<1>7. UNCHANGED <<allocated, closing, dict>>
  BY DEF Insert
<1>8. made[size + 1].key = arg[1] /\ made[size + 1].val = arg[2]
  BY <1>4, <1>5
<1>9. size + 1 \in 1..Len(dict) /\ arg[1] = dict[size + 1]
  BY NextName DEF Insert
<1>10. allocated = MinSize => size + 1 <= Filling
  <2>1. ~(4 * size >= 3 * allocated)
    BY DEF Insert, Full
  <2> QED
    BY <1>1, <2>1, SizesTyped
<1> QED
  BY <1>1, <1>2, <1>3, <1>5, <1>6, <1>7, <1>8, <1>9, <1>10, LinkKeeps

\* While the table grows, nothing happens to what is held.
Grows == Held' = Held /\ arg' = arg /\ Contents' = Contents

LEMMA NotIdle ==
    \A n, i, e, x, h : [new_table |-> n, i |-> i, e |-> e, index |-> x, before |-> h] # Idle
BY DEF Idle

LEMMA StartResizeKeeps ==
    ASSUME IInv, StartResize
    PROVE  IInv' /\ Grows
<1>1. /\ arg \in Range(dict) \X Vals /\ arg # Idle /\ moving = Idle /\ ~Wild(arg[1])
      /\ closing = Idle /\ size \in Nat /\ Len(entries) = size
      /\ entries \in Seq(Entry) /\ arg[1] \in Range(dict) /\ arg[2] \in Vals
      /\ arg[1] \in Keys
  BY KeysTyped DEF StartResize, Absent, Called, IInv, Typed, Closed
<1>2. HeldBy(arg[1]) = {}
  BY <1>1, FindHeld DEF StartResize, Absent
<1>3. /\ Scattered(dict) /\ allocated = MinSize /\ allocated' = Grown /\ size = Filling
      /\ size + 1 \in 1..Len(dict) /\ arg[1] = dict[size + 1]
  BY GrowsOnce DEF StartResize, Grown
<1>4. /\ Grown \in Nat \ {0} /\ Grown >= MinSize /\ MinSize \in Nat \ {0}
      /\ UNCHANGED <<table, size, arg, closing, dict>>
  BY SizesTyped DEF StartResize
<1> DEFINE new == [key |-> arg[1], val |-> arg[2], next |-> NULL]
<1>5. new \in Entry /\ new.key = arg[1] /\ new.val = arg[2]
  BY <1>1 DEF Entry, NULL
<1>6. entries' = Append(entries, new)
  BY DEF StartResize, WithNew
<1> HIDE DEF new
<1>7. /\ entries' \in Seq(Entry) /\ Len(entries') = size + 1
      /\ entries'[size + 1] = new /\ \A x \in 1..size : entries'[x] = entries[x]
  BY <1>1, <1>5, <1>6
<1>8. Index(arg[1]) = IndexIn(arg[1], Grown)
  BY <1>3 DEF Scattered, Index
<1>9. Held' = Held
  BY <1>4, <1>7, HeldSame
<1> DEFINE fresh == Buckets(Grown)
<1>10. moving' = [new_table |-> fresh, i |-> 0, e |-> table[0],
                  index |-> Index(arg[1]), before |-> Held]
  <2>1. Contents = Held
    BY ContentsHeld DEF Keeps
  <2> QED
    BY <1>3, <2>1 DEF StartResize
<1>11. fresh \in [0..Grown - 1 -> 0..size] /\ \A b \in 0..Grown - 1 : fresh[b] = NULL
  BY <1>1 DEF Buckets, NULL
<1> HIDE DEF fresh
<1>12. moving' # Idle
  BY <1>10, NotIdle
<1>13. /\ table \in [0..MinSize - 1 -> 0..size] /\ table[0] \in 0..size
       /\ Index(arg[1]) \in 0..MinSize - 1
  <2>1. table \in [0..MinSize - 1 -> 0..size]
    BY <1>1, <1>3 DEF IInv, Linked, LinkedIn
  <2>2. Index(arg[1]) \in 0..MinSize - 1
    BY <1>1, <1>3, KeysTyped DEF IInv, Wild
  <2> QED
    BY <1>4, <2>1, <2>2
<1>14. Typed'
  BY <1>1, <1>4, <1>7, <1>12 DEF IInv, Typed, Entry
<1>15. Ordered' /\ Asked' /\ Sized'
  <2>1. Len(dict) \in Nat /\ size + 1 <= Len(dict)
    BY <1>3, NamesTyped DEF IInv
  <2>2. ASSUME NEW x \in 1..size + 1 PROVE entries'[x].key = dict[x]
    <3>1. CASE x = size + 1
      BY <1>3, <1>5, <1>7, <3>1
    <3>2. CASE x # size + 1
      <4>1. x \in 1..size /\ x \in 1..Len(entries)
        BY <1>1, <3>2
      <4> QED
        BY <1>7, <4>1 DEF IInv, Ordered
    <3> QED
      BY <3>1, <3>2
  <2>3. Ordered'
    BY <1>4, <1>7, <2>1, <2>2 DEF Ordered
  <2>4. Asked'
    BY <1>4 DEF IInv, Asked
  <2>5. Sized'
    BY <1>1, <1>3, <1>4 DEF Sized
  <2> QED
    BY <2>3, <2>4, <2>5
<1>16. Distinct'
  <2>1. \A x, y \in 1..size + 1 : entries'[x].key = entries'[y].key => x = y
    <3>1. ASSUME NEW x \in 1..size + 1 PROVE entries'[x].key = dict[x] /\ x \in 1..Len(dict)
      BY <1>4, <1>7, <1>15, NamesTyped DEF Ordered, IInv
    <3> QED
      BY <3>1, NamesTyped DEF IInv
  <2>2. ASSUME NEW x \in 1..size + 1 PROVE ~(IndexIn(entries'[x].key, Grown) < 0)
    <3>1. CASE x = size + 1
      BY <1>5, <1>7, <1>8, <1>13, <3>1
    <3>2. CASE x # size + 1
      <4>1. x \in 1..size
        BY <1>1, <3>2
      <4>2. IndexIn(entries[x].key, Grown) \in 0..Grown - 1
        BY <1>3, <4>1, SizesTyped, Apart DEF IInv
      <4> QED
        BY <1>4, <1>7, <4>1, <4>2
    <3> QED
      BY <3>1, <3>2
  <2> QED
    BY <1>3, <1>7, <2>1, <2>2 DEF Distinct, Wild, Index
<1>17. Linked'
  BY <1>12 DEF Linked
<1>18. OldTable /\ OldTable'
  <2>1. /\ \A b \in 0..MinSize - 1 : table[b] # NULL => OldPlace(table[b]) = b
        /\ \A x \in 1..size :
              /\ OldPlace(x) \in 0..MinSize - 1 /\ x <= table[OldPlace(x)]
              /\ entries[x].next \in 0..x - 1
              /\ entries[x].next # NULL => OldPlace(entries[x].next) = OldPlace(x)
    BY <1>1, <1>3 DEF IInv, Linked, LinkedIn, Place, OldPlace, Index
  <2>2. \A x, y \in 1..size : OldPlace(x) = OldPlace(y) => x = y
    BY <1>3, SizesTyped, Apart DEF IInv
  <2>3. ASSUME NEW x \in 1..size PROVE table[OldPlace(x)] = x
    <3> DEFINE b == OldPlace(x)
               y == table[b]
    <3>1. b \in 0..MinSize - 1 /\ x <= y
      BY <2>1
    <3>2. y \in 1..size /\ y # NULL
      BY <1>1, <1>13, <3>1 DEF NULL
    <3>3. OldPlace(y) = b
      BY <2>1, <3>1, <3>2
    <3> QED
      BY <2>2, <3>2, <3>3
  <2>4. ASSUME NEW x \in 1..size PROVE entries[x].next = NULL
    <3> DEFINE y == entries[x].next
    <3>1. y \in 0..x - 1 /\ (y # NULL => OldPlace(y) = OldPlace(x))
      BY <2>1
    <3>2. y # NULL => y \in 1..size /\ y # x
      BY <1>1, <3>1 DEF NULL
    <3> HIDE DEF y
    <3>3. y = NULL
      BY <2>2, <3>1, <3>2
    <3> QED
      BY <3>3 DEF y
  <2>5. OldTable
    BY <1>13, <2>1, <2>3, <2>4 DEF OldTable
  <2>6. ASSUME NEW x \in 1..size
        PROVE  OldPlace(x)' = OldPlace(x) /\ entries'[x].next = entries[x].next
    BY <1>7 DEF OldPlace
  <2>7. ASSUME NEW b \in 0..MinSize - 1, table[b] # NULL PROVE (OldPlace(table[b]) = b)'
    <3>1. table[b] \in 1..size
      BY <1>1, <1>13, <2>7 DEF NULL
    <3>2. entries'[table[b]] = entries[table[b]]
      BY <1>7, <3>1
    <3> QED
      BY <1>4, <2>1, <2>7, <3>2 DEF OldPlace
  <2>8. OldTable'
    BY <1>4, <1>13, <2>1, <2>3, <2>4, <2>6, <2>7 DEF OldTable
  <2> QED
    BY <2>5, <2>8
<1>19. Copied'
  <2>1. moving' \in [new_table : [0..Grown - 1 -> 0..size], i : 0..MinSize - 1,
                     e : 0..size, index : 0..MinSize - 1, before : {Held}]
    BY <1>4, <1>10, <1>11, <1>13
  <2>2. moving'.index = Index(arg[1])'
    BY <1>3, <1>4, <1>8, <1>10 DEF Index
  <2>3. moving'.e = table[0] /\ moving'.i = 0 /\ moving'.new_table = fresh
    BY <1>10
  <2>4. ASSUME NEW x \in 1..size PROVE ~Passed(x)'
    <3>1. OldPlace(x)' \in 0..MinSize - 1 /\ table[OldPlace(x)'] = x
      BY <1>4, <1>18 DEF OldTable
    <3>2. x # NULL
      BY <1>1 DEF NULL
    <3> QED
      BY <1>4, <2>3, <3>1, <3>2 DEF Passed
  <2>5. entries'[size' + 1] = [key |-> arg'[1], val |-> arg'[2], next |-> NULL]
    BY <1>4, <1>7 DEF new
  <2>6. Scattered(dict)'
    BY <1>3, <1>4 DEF Scattered
  <2>7. moving'.e \in {NULL, table'[moving'.i]}
    BY <1>4, <2>3
  <2>8. \A b \in 0..Grown - 1 : moving'.new_table[b] = NULL
    BY <1>11, <2>3
  <2> QED
    BY <1>1, <1>3, <1>4, <1>9, <1>18, <2>1, <2>2, <2>4, <2>5, <2>6, <2>7, <2>8 DEF Copied
<1>20. Contents' = Contents
  <2>1. moving'.before = Held
    BY <1>10
  <2>2. Contents' = moving'.before
    BY <1>12 DEF Contents
  <2> QED
    BY <2>1, <2>2, ContentsHeld DEF Keeps
<1> QED
  BY <1>1, <1>4, <1>9, <1>14, <1>15, <1>16, <1>17, <1>19, <1>20 DEF IInv, Grows, Closed

\* What stands still while the loop of the resize runs.
Loops == UNCHANGED <<entries, table, size, allocated, arg, closing, dict>>

LEMMA LoopKeeps ==
    ASSUME IInv, moving # Idle, Loops, moving' # Idle, moving'.before = Held
    PROVE  /\ Typed' /\ Ordered' /\ Asked' /\ Sized' /\ Distinct' /\ Linked'
           /\ OldTable' /\ Closed' /\ Grows
<1>1. closing = Idle /\ moving.before = Held /\ OldTable
  BY DEF IInv, Copied
<1>2. Held' = Held
  BY HeldSame DEF Loops
<1>3. Typed'
  BY DEF IInv, Typed, Entry, Loops
<1>4. Ordered' /\ Asked' /\ Sized'
  BY DEF IInv, Ordered, Asked, Sized, Loops
<1>5. Distinct' /\ Linked'
  BY DEF IInv, Distinct, Linked, Wild, Index, Loops
<1>6. OldTable'
  BY <1>1 DEF OldTable, OldPlace, Loops
<1>7. Contents' = Contents
  BY <1>1 DEF Contents
<1> QED
  BY <1>1, <1>2, <1>3, <1>4, <1>5, <1>6, <1>7 DEF Closed, Grows, Loops

LEMMA MoveEntryKeeps ==
    ASSUME IInv, MoveEntry
    PROVE  IInv' /\ Grows
<1> DEFINE e == moving.e
           i == moving.i
           t == moving.new_table
           j == Place(e)
<1>1. /\ moving # Idle /\ e # NULL /\ Scattered(dict) /\ allocated = Grown
      /\ size = Filling /\ closing = Idle /\ arg # Idle /\ moving.before = Held
      /\ OldTable /\ moving.index = Index(arg[1])
      /\ entries[size + 1] = [key |-> arg[1], val |-> arg[2], next |-> NULL]
      /\ moving \in [new_table : [0..Grown - 1 -> 0..size], i : 0..MinSize - 1,
                     e : 0..size, index : 0..MinSize - 1, before : {Held}]
      /\ UNCHANGED <<table, size, allocated, arg, closing, dict>>
  BY DEF MoveEntry, IInv, Copied
<1>2. /\ t \in [0..Grown - 1 -> 0..size] /\ i \in 0..MinSize - 1 /\ e \in 1..size
      /\ size \in Nat /\ Len(entries) = size + 1
  <2>1. t \in [0..Grown - 1 -> 0..size] /\ i \in 0..MinSize - 1 /\ e \in 0..size
    BY <1>1
  <2>2. size \in Nat /\ Len(entries) = size + 1
    BY <1>1 DEF IInv, Typed
  <2> QED
    BY <1>1, <2>1, <2>2 DEF NULL
<1>3. /\ e = table[i] /\ OldPlace(e) = i
      /\ \A x \in 1..size : Passed(x) <=> OldPlace(x) < i
      /\ \A x \in 1..size : OldPlace(x) \in Int
  <2>1. e = table[i]
    BY <1>1 DEF IInv, Copied
  <2> QED
    BY <1>1, <1>2, <2>1 DEF OldTable, Passed
<1>4. /\ \A x, y \in 1..size : OldPlace(x) = OldPlace(y) => x = y
      /\ \A x, y \in 1..size : Place(x) = Place(y) => x = y
      /\ \A x \in 1..size : Place(x) \in 0..Grown - 1
  BY <1>1, <1>2, Apart DEF IInv, Place, Index
<1>5. j \in 0..Grown - 1 /\ t[j] = NULL
  <2>1. j \in 0..Grown - 1
    BY <1>2, <1>4
  <2>2. ASSUME t[j] # NULL PROVE FALSE
    <3>1. t[j] \in 1..size
      <4> HIDE DEF t, j
      <4>1. t[j] \in 0..size
        BY <1>2, <2>1
      <4> QED
        BY <1>2, <2>2, <4>1 DEF NULL
    <3>2. Passed(t[j]) /\ Place(t[j]) = j
      BY <1>1, <2>1, <2>2 DEF IInv, Copied
    <3>3. t[j] = e
      BY <1>2, <1>4, <3>1, <3>2
    <3> QED
      BY <1>2, <1>3, <3>2, <3>3
  <2> QED
    BY <2>1, <2>2
<1>6. /\ entries' = [entries EXCEPT ![e].next = NULL]
      /\ moving' = [moving EXCEPT !.new_table[j] = e, !.e = NULL]
  BY <1>5 DEF MoveEntry, Place
<1>7. entries' = entries
  <2>0. e \in 1..Len(entries)
    BY <1>2
  <2>1. entries[e].next = NULL /\ entries[e] \in Entry
    BY <1>1, <1>2, <2>0, KeysTyped DEF IInv, OldTable
  <2>2. [entries[e] EXCEPT !.next = NULL] = entries[e]
    BY <2>1 DEF Entry
  <2>3. entries = [x \in 1..Len(entries) |-> entries[x]]
    BY DEF IInv, Typed
  <2> QED
    BY <1>2, <1>6, <2>2, <2>3
<1> HIDE DEF e, i, t, j
<1> DEFINE u == [t EXCEPT ![j] = e]
<1>8. moving' = [new_table |-> u, i |-> i, e |-> NULL,
                 index |-> moving.index, before |-> Held]
  BY <1>1, <1>6 DEF t, i
<1>9. u \in [0..Grown - 1 -> 0..size] /\ \A b \in 0..Grown - 1 : u[b] = IF b = j THEN e ELSE t[b]
  BY <1>2, <1>5
<1> HIDE DEF u
<1>10. moving' # Idle /\ moving'.e = NULL /\ moving'.i = i /\ moving'.new_table = u
       /\ moving'.before = Held /\ moving'.index = moving.index
  BY <1>8, NotIdle
<1>11. Loops
  BY <1>1, <1>7 DEF Loops
<1>12. /\ Typed' /\ Ordered' /\ Asked' /\ Sized' /\ Distinct' /\ Linked'
       /\ OldTable' /\ Closed' /\ Grows
  BY <1>1, <1>10, <1>11, LoopKeeps
<1>13. Copied'
  <2>1. moving' \in [new_table : [0..Grown - 1 -> 0..size], i : 0..MinSize - 1,
                     e : 0..size, index : 0..MinSize - 1, before : {Held}]
    <3>1. moving.index \in 0..MinSize - 1 /\ NULL \in 0..size
      BY <1>1, <1>2 DEF NULL
    <3> QED
      BY <1>2, <1>8, <1>9, <3>1
  <2>2. moving'.index = Index(arg[1])'
    BY <1>1, <1>10 DEF Index
  <2>3. ASSUME NEW x \in 1..size
        PROVE  /\ Place(x)' = Place(x)
               /\ Passed(x)' <=> Passed(x) \/ x = e
    <3>1. Place(x)' = Place(x) /\ OldPlace(x)' = OldPlace(x)
      BY <1>1, <1>7 DEF Place, OldPlace, Index
    <3>2. Passed(x)' <=> OldPlace(x) < i \/ OldPlace(x) = i
      BY <1>10, <3>1 DEF Passed
    <3>3. OldPlace(x) = i <=> x = e
      BY <1>2, <1>3, <1>4
    <3> QED
      BY <1>3, <3>1, <3>2, <3>3
  <2>4. ASSUME NEW x \in 1..size, Passed(x)' PROVE u[Place(x)'] = x
    <3>1. CASE x = e
      BY <1>5, <1>9, <2>3, <3>1 DEF j
    <3>2. CASE x # e
      <4>1. Passed(x) /\ t[Place(x)] = x
        BY <1>1, <2>3, <2>4, <3>2 DEF IInv, Copied, t
      <4>2. Place(x) # j /\ Place(x) \in 0..Grown - 1
        BY <1>2, <1>4, <3>2 DEF j
      <4> QED
        BY <1>9, <2>3, <4>1, <4>2
    <3> QED
      BY <3>1, <3>2
  <2>5. ASSUME NEW b \in 0..Grown - 1, u[b] # NULL
        PROVE  u[b] \in 1..size /\ \A x \in 1..size : x = u[b] => Passed(x)' /\ Place(x)' = b
    <3>1. u[b] \in 1..size
      BY <1>2, <1>9, <2>5 DEF NULL
    <3>2. CASE b = j
      BY <1>9, <2>3, <3>1, <3>2 DEF j
    <3>3. CASE b # j
      <4>1. u[b] = t[b]
        BY <1>9, <3>3
      <4>2. Passed(t[b]) /\ Place(t[b]) = b
        BY <1>1, <2>5, <4>1 DEF IInv, Copied, t
      <4> QED
        BY <2>3, <3>1, <4>1, <4>2
    <3> QED
      BY <3>1, <3>2, <3>3
  <2>6. ASSUME NEW b \in 0..Grown - 1, u[b] # NULL
        PROVE  (Passed(moving.new_table[b]) /\ Place(moving.new_table[b]) = b)'
    <3>1. PICK x \in 1..size : x = u[b]
      BY <2>5, <2>6
    <3>2. Passed(x)' /\ Place(x)' = b
      BY <2>5, <2>6, <3>1
    <3> QED
      BY <1>10, <3>1, <3>2 DEF Passed, Place, OldPlace
  <2>7. Scattered(dict)'
    BY <1>1 DEF Scattered
  <2>8. entries'[size' + 1] = [key |-> arg'[1], val |-> arg'[2], next |-> NULL]
    BY <1>1, <1>7
  <2> QED
    BY <1>1, <1>10, <1>12, <2>1, <2>2, <2>4, <2>6, <2>7, <2>8 DEF Copied, Grows
<1> QED
  BY <1>1, <1>12, <1>13 DEF IInv

LEMMA NextBucketKeeps ==
    ASSUME IInv, NextBucket
    PROVE  IInv' /\ Grows
<1> DEFINE i == moving.i
           t == moving.new_table
<1>1. /\ moving # Idle /\ moving.e = NULL /\ Scattered(dict) /\ allocated = Grown
      /\ size = Filling /\ closing = Idle /\ arg # Idle /\ moving.before = Held
      /\ OldTable /\ moving.index = Index(arg[1])
      /\ entries[size + 1] = [key |-> arg[1], val |-> arg[2], next |-> NULL]
      /\ moving \in [new_table : [0..Grown - 1 -> 0..size], i : 0..MinSize - 1,
                     e : 0..size, index : 0..MinSize - 1, before : {Held}]
      /\ Loops
      /\ i + 1 \in DOMAIN table
      /\ moving' = [moving EXCEPT !.i = i + 1, !.e = table[i + 1]]
  BY DEF NextBucket, AtLastBucket, Loops, IInv, Copied
<1>2. table \in [0..MinSize - 1 -> 0..size] /\ size \in Nat
  BY <1>1 DEF IInv, OldTable, Typed
<1>3. i \in 0..MinSize - 1 /\ i + 1 \in 0..MinSize - 1 /\ table[i + 1] \in 0..size
  BY <1>1, <1>2, MinSizeAssumption
<1> HIDE DEF i, t
<1>4. moving' = [new_table |-> t, i |-> i + 1, e |-> table[i + 1],
                 index |-> moving.index, before |-> Held]
  BY <1>1 DEF t
<1>5. /\ moving' # Idle /\ moving'.before = Held /\ moving'.index = moving.index
      /\ moving'.e = table[i + 1] /\ moving'.i = i + 1 /\ moving'.new_table = t
  BY <1>4, NotIdle
<1>6. /\ Typed' /\ Ordered' /\ Asked' /\ Sized' /\ Distinct' /\ Linked'
      /\ OldTable' /\ Closed' /\ Grows
  BY <1>1, <1>5, LoopKeeps
<1>7. Copied'
  <2>1. moving' \in [new_table : [0..Grown - 1 -> 0..size], i : 0..MinSize - 1,
                     e : 0..size, index : 0..MinSize - 1, before : {Held}]
    <3>1. moving.index \in 0..MinSize - 1 /\ t \in [0..Grown - 1 -> 0..size]
      BY <1>1 DEF t
    <3> QED
      BY <1>3, <1>4, <3>1
  <2>2. moving'.index = Index(arg[1])'
    BY <1>1, <1>5 DEF Index, Loops
  <2>3. \A x : Place(x)' = Place(x) /\ OldPlace(x)' = OldPlace(x)
    BY <1>1 DEF Place, OldPlace, Index, Loops
  <2>4. ASSUME NEW x \in 1..size PROVE Passed(x)' <=> Passed(x)
    <3>1. Passed(x)' <=> OldPlace(x) < i + 1 \/ (OldPlace(x) = i + 1 /\ table[i + 1] = NULL)
      BY <1>5, <2>3 DEF Passed
    <3>2. Passed(x) <=> OldPlace(x) < i \/ OldPlace(x) = i
      BY <1>1 DEF Passed, i
    <3>3. OldPlace(x) \in 0..MinSize - 1 /\ table[OldPlace(x)] = x /\ x # NULL
      BY <1>1, <1>2 DEF OldTable, NULL
    <3>4. ~(OldPlace(x) = i + 1 /\ table[i + 1] = NULL)
      BY <3>3
    <3>5. OldPlace(x) < i + 1 <=> OldPlace(x) < i \/ OldPlace(x) = i
      BY <1>3, <3>3
    <3> QED
      BY <3>1, <3>2, <3>4, <3>5
  <2>5. ASSUME NEW x \in 1..size, Passed(x)' PROVE t[Place(x)'] = x
    BY <1>1, <2>3, <2>4, <2>5 DEF IInv, Copied, t
  <2>6. ASSUME NEW b \in 0..Grown - 1, t[b] # NULL
        PROVE  (Passed(moving.new_table[b]) /\ Place(moving.new_table[b]) = b)'
    <3>1. t[b] \in 1..size
      <4>1. t \in [0..Grown - 1 -> 0..size]
        BY <1>1 DEF t
      <4>2. t[b] \in 0..size
        BY <4>1
      <4> QED
        BY <1>2, <2>6, <4>2 DEF NULL
    <3>2. Passed(t[b]) /\ Place(t[b]) = b
      BY <1>1, <2>6 DEF IInv, Copied, t
    <3>3. PICK x \in 1..size : x = t[b]
      BY <3>1
    <3>4. Passed(x)' /\ Place(x)' = b
      BY <2>3, <2>4, <3>2, <3>3
    <3> QED
      BY <1>5, <3>3, <3>4 DEF Passed, Place, OldPlace
  <2>7. Scattered(dict)'
    BY <1>1 DEF Scattered, Loops
  <2>8. entries'[size' + 1] = [key |-> arg'[1], val |-> arg'[2], next |-> NULL]
    BY <1>1 DEF Loops
  <2>9. moving'.e \in {NULL, table'[moving'.i]}
    BY <1>1, <1>5 DEF Loops
  <2> QED
    BY <1>1, <1>5, <1>6, <2>1, <2>2, <2>5, <2>6, <2>7, <2>8, <2>9 DEF Copied, Grows, Loops
<1> QED
  BY <1>1, <1>6, <1>7 DEF IInv, Loops

LEMMA EndResizeKeeps ==
    ASSUME IInv, EndResize
    PROVE  IInv' /\ Returns
<1> DEFINE i == moving.i
           t == moving.new_table
<1>1. /\ moving # Idle /\ moving.e = NULL /\ Scattered(dict) /\ allocated = Grown
      /\ size = Filling /\ closing = Idle /\ arg # Idle /\ OldTable
      /\ entries[size + 1] = [key |-> arg[1], val |-> arg[2], next |-> NULL]
      /\ moving \in [new_table : [0..Grown - 1 -> 0..size], i : 0..MinSize - 1,
                     e : 0..size, index : 0..MinSize - 1, before : {Held}]
      /\ moving.index = Index(arg[1])
      /\ UNCHANGED <<allocated, closing, dict>>
      /\ i + 1 \notin DOMAIN table
  BY DEF EndResize, AtLastBucket, IInv, Copied
<1>2. /\ table \in [0..MinSize - 1 -> 0..size] /\ size \in Nat
      /\ entries \in Seq(Entry) /\ Len(entries) = size + 1 /\ arg \in Range(dict) \X Vals
      /\ Grown \in Nat /\ Grown >= MinSize
  BY <1>1, SizesTyped DEF IInv, OldTable, Typed
<1>3. i = MinSize - 1 /\ t \in [0..Grown - 1 -> 0..size]
      /\ Index(arg[1]) \in 0..MinSize - 1
  <2>1. i \in 0..MinSize - 1 /\ t \in [0..Grown - 1 -> 0..size] /\ Index(arg[1]) \in 0..MinSize - 1
    BY <1>1
  <2>2. i + 1 \notin 0..MinSize - 1
    BY <1>1, <1>2
  <2> HIDE DEF i
  <2> QED
    BY <2>1, <2>2, MinSizeAssumption
<1>4. /\ \A x \in 1..size : t[Place(x)] = x
      /\ \A b \in 0..Grown - 1 : t[b] # NULL => Place(t[b]) = b
  <2>1. ASSUME NEW x \in 1..size PROVE Passed(x)
    <3>1. OldPlace(x) \in 0..MinSize - 1
      BY <1>1 DEF OldTable
    <3>2. OldPlace(x) < i \/ OldPlace(x) = i
      BY <1>3, <3>1, MinSizeAssumption
    <3> QED
      BY <1>1, <3>2 DEF Passed
  <2> QED
    BY <1>1, <2>1 DEF IInv, Copied
<1> HIDE DEF t, i
<1>5. LinkedIn(t, allocated)
  <2>1. /\ \A x, y \in 1..size : Place(x) = Place(y) => x = y
        /\ \A x \in 1..size : Place(x) \in 0..Grown - 1
    BY <1>1, <1>2, Apart DEF IInv, Place, Index
  <2>2. ASSUME NEW x \in 1..size
        PROVE  /\ Place(x) \in 0..Grown - 1 /\ x <= t[Place(x)]
               /\ entries[x].next \in 0..x - 1 /\ entries[x].next = NULL
               /\ \A y \in 1..x - 1 : Place(y) # Place(x)
    <3>1. entries[x].next = NULL /\ NULL \in 0..x - 1
      BY <1>1, <1>2 DEF OldTable, NULL
    <3>2. ASSUME NEW y \in 1..x - 1 PROVE Place(y) # Place(x)
      <4>1. y \in 1..size /\ y # x
        BY <1>2
      <4> QED
        BY <2>1, <4>1
    <3>3. x <= t[Place(x)]
      BY <1>4
    <3> QED
      BY <2>1, <3>1, <3>2, <3>3
  <2> QED
    BY <1>1, <1>3, <1>4, <2>2 DEF LinkedIn
<1>6. entries[size + 1].key = arg[1] /\ entries[size + 1].val = arg[2]
  BY <1>1
<1>7. size + 1 \in 1..Len(dict) /\ arg[1] = dict[size + 1]
  <2>1. size + 1 \in 1..Len(entries)
    BY <1>2
  <2> QED
    BY <1>2, <1>6, <2>1, NamesTyped DEF IInv, Ordered
<1>8. HeldBy(arg[1]) = {}
  <2>1. ASSUME NEW x \in 1..size, entries[x].key = arg[1] PROVE FALSE
    <3>1. x \in 1..Len(entries) /\ size + 1 \in 1..Len(entries) /\ x # size + 1
      BY <1>2
    <3> QED
      BY <1>6, <2>1, <3>1 DEF IInv, Distinct
  <2> QED
    BY <2>1 DEF HeldBy
<1>9. ~Wild(arg[1])
  BY <1>3, MinSizeAssumption DEF Wild
<1>10. allocated # MinSize
  <2>1. 4 * (Len(dict) - 1) < 3 * Grown
    BY <1>1 DEF Scattered
  <2>2. Len(dict) \in Nat /\ size + 1 <= Len(dict)
    BY <1>7, NamesTyped DEF IInv
  <2> QED
    BY <1>1, <1>2, <2>1, <2>2, SizesTyped
<1>11. Link(entries, t, Index(arg[1]))
  BY <1>1 DEF EndResize, t
<1> QED
  BY <1>1, <1>2, <1>5, <1>6, <1>7, <1>8, <1>9, <1>10, <1>11, LinkKeeps

\* What one step does, to the invariant and to what is held.
LEMMA StepKeeps ==
    ASSUME IInv, [Next]_vars
    PROVE  IInv' /\ [M!Next]_<<Contents, arg>>
<1>1. ASSUME NEW key \in Keys, NEW val \in Vals, CallPut(key, val)
      PROVE  IInv' /\ M!Call(key, val)
  <2>1. Contents' = Contents
    BY <1>1, TableKept DEF CallPut, SameTable
  <2> QED
    BY <1>1, <2>1, CallPutKeeps DEF CallPut, M!Call, Idle
<1>2. ASSUME IInv', Returns PROVE M!Return
  <2>1. Contents = Held /\ Contents' = Held'
    <3>1. Keeps /\ (IInv => Keeps)'
      BY ContentsHeld, PTL
    <3> QED
      BY <1>2, <3>1 DEF Keeps
  <2> QED
    BY <1>2, <2>1 DEF Returns, M!Return, Idle
<1>3. CASE Replace
  BY <1>2, <1>3, ReplaceKeeps DEF M!Next
<1>4. CASE Insert
  BY <1>2, <1>4, InsertKeeps DEF M!Next
<1>5. CASE StartResize
  BY <1>5, StartResizeKeeps DEF Grows
<1>6. CASE MoveEntry
  BY <1>6, MoveEntryKeeps DEF Grows
<1>7. CASE NextBucket
  BY <1>7, NextBucketKeeps DEF Grows
<1>8. CASE EndResize
  BY <1>2, <1>8, EndResizeKeeps DEF M!Next
<1>9. CASE Destruct
  <2>1. Contents' = Contents /\ arg' = arg
    BY <1>9, TableKept DEF Destruct, SameTable
  <2> QED
    BY <1>9, <2>1, DestructKeeps
<1>10. CASE FreeEntry
  <2>1. Contents' = Contents /\ arg' = arg
    BY <1>10, TableKept DEF FreeEntry, SameTable
  <2> QED
    BY <1>10, <2>1, FreeEntryKeeps
<1>11. CASE FreeBucket
  <2>1. Contents' = Contents /\ arg' = arg
    BY <1>11, TableKept DEF FreeBucket, SameTable
  <2> QED
    BY <1>11, <2>1, FreeBucketKeeps
<1>12. CASE UNCHANGED vars
  <2>1. SameTable /\ arg' = arg /\ closing' = closing
    BY <1>12 DEF vars, SameTable
  <2>2. Ordered' /\ Sized' /\ Distinct' /\ Linked' /\ Held' = Held /\ Contents' = Contents
    BY <2>1, TableKept
  <2>3. Typed'
    BY <2>1 DEF IInv, Typed, Entry, SameTable
  <2>4. Copied'
    BY <2>1, <2>2
       DEF IInv, Copied, OldTable, OldPlace, Passed, Place, SameTable, Index
  <2>5. Closed'
    BY <2>1 DEF IInv, Closed, SameTable, Place, Index, Gone, Dropped
  <2>6. Asked'
    BY <2>1 DEF IInv, Asked, SameTable
  <2> QED
    BY <2>1, <2>2, <2>3, <2>4, <2>5, <2>6 DEF IInv, SameTable
<1>13. CASE \E key \in Keys, val \in Vals : CallPut(key, val)
  BY <1>1, <1>13 DEF M!Next
<1> QED
  BY <1>3, <1>4, <1>5, <1>6, <1>7, <1>8, <1>9, <1>10, <1>11, <1>12, <1>13
     DEF Next, PutStep, DestructStep

LEMMA InitKeeps ==
    ASSUME Init, Tame(dict)
    PROVE  IInv /\ M!Init
<1>1. /\ entries = <<>> /\ size = 0 /\ arg = Idle /\ moving = Idle
      /\ table = Buckets(MinSize) /\ allocated = MinSize /\ closing = Idle
      /\ dict \in Dictionaries
  BY DEF Init
<1>2. Len(entries) = 0 /\ entries \in Seq(Entry) /\ MinSize \in Nat
  BY <1>1, MinSizeAssumption
<1>3. IInv
  <2>1. Typed
    BY <1>1, <1>2 DEF Typed
  <2>2. Distinct /\ Copied /\ Closed
    BY <1>1, <1>2 DEF Distinct, Copied, Closed
  <2>3. Linked
    BY <1>1, <1>2 DEF Linked, LinkedIn, Buckets, NULL
  <2>4. Ordered /\ Asked /\ Sized
    BY <1>1, <1>2, <2>1, NamesTyped, SizesTyped DEF Ordered, Asked, Sized
  <2> QED
    BY <2>1, <2>2, <2>3, <2>4 DEF IInv
<1>4. Held = [key \in Keys |-> NONE]
  BY <1>1 DEF Held, HeldBy
<1> QED
  BY <1>1, <1>3, <1>4, ContentsHeld DEF M!Init, Keeps, Idle

-----------------------------------------------------------------------------
(* The results. *)

TameInv == Tame(dict) => IInv

LEMMA Invariance == Spec => []TameInv
<1>1. Init => TameInv
  BY InitKeeps DEF TameInv
<1>2. TameInv /\ [Next]_vars => TameInv'
  <2> SUFFICES ASSUME TameInv, [Next]_vars, Tame(dict)' PROVE IInv'
    BY DEF TameInv
  <2>1. dict' = dict
    BY DEF Next, PutStep, DestructStep, CallPut, Replace, Insert, StartResize,
           MoveEntry, NextBucket, EndResize, Destruct, FreeEntry, FreeBucket, vars
  <2>2. Tame(dict)
    BY <2>1 DEF Tame, Few, Scattered
  <2> QED
    BY <2>2, StepKeeps DEF TameInv
<1> QED
  BY <1>1, <1>2, PTL DEF Spec

\* A map whose names are few or settled keeps the promise of a table of names:
\* every map_put is one of its returns, or stutters (map_put and map_get).
THEOREM KeepsPromise == Spec /\ Tame(dict) => IsAMap
<1>1. Init /\ Tame(dict) => M!Init
  BY InitKeeps
<1>2. TameInv /\ Tame(dict) /\ [Next]_vars => [M!Next]_<<Contents, arg>> /\ Tame(dict)'
  <2> SUFFICES ASSUME TameInv, Tame(dict), [Next]_vars
               PROVE  [M!Next]_<<Contents, arg>> /\ Tame(dict)'
    OBVIOUS
  <2> QED
    BY StepKeeps DEF TameInv, IInv
<1>3. Spec => []TameInv
  BY Invariance
<1>4. Spec /\ Tame(dict) => M!Init /\ [][M!Next]_<<Contents, arg>>
  BY <1>1, <1>2, <1>3, PTL DEF Spec
<1> QED
  BY <1>4 DEF IsAMap, M!Spec, M!vars

\* Its entries are counted, and each of them is in one place of one chain
\* whenever no map_put runs.
THEOREM OncePlaced == Spec => [](Tame(dict) => EveryEntryOnce)
<1>1. TameInv => (Tame(dict) => EveryEntryOnce)
  BY EntriesOnce DEF TameInv
<1> QED
  BY <1>1, Invariance, PTL

\* Its destructor drops each of them once.
THEOREM OnceDestructed == Spec => [](Tame(dict) => DestructedOnce)
<1>1. TameInv => (Tame(dict) => DestructedOnce)
  BY AllDropped DEF TameInv
<1> QED
  BY <1>1, Invariance, PTL

\* No link leaves its entries, and the table has the size the map says.
THEOREM TypeCorrect == Spec => [](Tame(dict) => TypeOK)
<1>1. TameInv => (Tame(dict) => TypeOK)
  <2> SUFFICES ASSUME IInv PROVE TypeOK
    BY DEF TameInv
  <2>1. size \in Nat /\ size <= Len(entries) /\ Len(entries) \in Nat
    BY DEF IInv, Typed
  <2>2. ASSUME NEW e \in 1..Len(entries)
        PROVE  /\ entries[e].key \in Keys /\ entries[e].val \in Vals
               /\ entries[e].next \in 0..Len(entries)
    <3>1. entries[e].key \in Keys /\ entries[e].val \in Vals
      BY KeysTyped DEF IInv, Entry
    <3>2. CASE moving = Idle
      <4>1. e \in 1..size
        BY <3>2 DEF IInv, Typed
      <4>2. entries[e].next \in 0..e - 1
        BY <3>2, <4>1 DEF IInv, Linked, LinkedIn
      <4> QED
        BY <2>1, <3>1, <4>2
    <3>3. CASE moving # Idle
      <4>1. e \in 1..size \/ e = size + 1
        BY <2>1, <3>3 DEF IInv, Typed
      <4>2. entries[e].next = NULL
        BY <3>3, <4>1 DEF IInv, Copied, OldTable
      <4> QED
        BY <2>1, <3>1, <4>2 DEF NULL
    <3> QED
      BY <3>2, <3>3
  <2>3. ASSUME NEW b \in DOMAIN table PROVE table[b] \in 0..Len(entries)
    <3>1. table[b] \in 0..size
      BY DEF IInv, Linked, LinkedIn, Copied, OldTable
    <3> QED
      BY <2>1, <3>1
  <2>4. DOMAIN (IF moving = Idle THEN table ELSE moving.new_table) = 0..allocated - 1
    <3>1. CASE moving = Idle
      BY <3>1 DEF IInv, Linked, LinkedIn
    <3>2. CASE moving # Idle
      <4>1. moving.new_table \in [0..allocated - 1 -> 0..size]
        BY <3>2 DEF IInv, Copied
      <4> QED
        BY <3>2, <4>1
    <3> QED
      BY <3>1, <3>2
  <2> QED
    BY <2>2, <2>3, <2>4 DEF TypeOK, IInv, Typed
<1> QED
  BY <1>1, Invariance, PTL

-----------------------------------------------------------------------------
(* What holds of every choice of names, those included whose maps lose     *)
(* entries or never return.                                                *)

Roomy == dict \in Dictionaries /\ allocated \in Nat \ {0}

LEMMA AlwaysRoomy == Spec => []Roomy
<1>1. Init => Roomy
  BY MinSizeAssumption DEF Init, Roomy
<1>2. Roomy /\ [Next]_vars => Roomy'
  <2> SUFFICES ASSUME Roomy, [Next]_vars PROVE Roomy'
    OBVIOUS
  <2>1. CASE StartResize
    <3>1. (3 * allocated) \div 2 \in Nat \ {0}
      BY DEF Roomy
    <3> QED
      BY <2>1, <3>1 DEF Roomy, StartResize
  <2>2. CASE UNCHANGED <<allocated, dict>>
    BY <2>2 DEF Roomy
  <2> QED
    BY <2>1, <2>2 DEF Next, PutStep, DestructStep, CallPut, Replace, Insert,
           MoveEntry, NextBucket, EndResize, Destruct, FreeEntry, FreeBucket, vars
<1> QED
  BY <1>1, <1>2, PTL DEF Spec

\* A name too short for its characters to add up to more than a long holds is
\* never looked up in front of the table, whatever the table's size.
THEOREM ShortNamesFound == Spec => []ShortNamesInside
<1>1. Roomy => ShortNamesInside
  <2> SUFFICES ASSUME Roomy, NEW key \in Range(dict), Short(key)
               PROVE  Index(key) \in 0..allocated - 1
    BY DEF ShortNamesInside
  <2>1. key \in Keys
    BY DEF Roomy, Keys
  <2>2. Hash(key) >= 0
    BY <2>1, ShortHash
  <2> QED
    BY <2>1, <2>2, IndexInType DEF Roomy, Index
<1> QED
  BY <1>1, AlwaysRoomy, PTL
=============================================================================
