--------------------------- MODULE ListObjectProofs ---------------------------
(***************************************************************************)
(* Proofs about ListObject: for every set of items and every size, a list  *)
(* gives back every item that has been in its table since it was put in.   *)
(***************************************************************************)
EXTENDS ListObject, SharedLemmas, SequenceTheorems, FiniteSetTheorems, TLAPS

\* Where the elements are after one was put in.
Shifted(t, s, i, x) ==
    \A j \in 1..Len(s) + 1 :
        t[j] = IF j <= i THEN s[j] ELSE IF j = i + 1 THEN x ELSE s[j - 1]

LEMMA InsertedSeq ==
    ASSUME NEW S, NEW s \in Seq(S), NEW i \in 0..Len(s), NEW x \in S
    PROVE  /\ PutIn(s, i, x) \in Seq(S) /\ Len(PutIn(s, i, x)) = Len(s) + 1
           /\ Shifted(PutIn(s, i, x), s, i, x)
<1> DEFINE a == SubSeq(s, 1, i)
           b == SubSeq(s, i + 1, Len(s))
           c == a \o <<x>>
<1>1. a \in Seq(S) /\ Len(a) = i /\ \A j \in 1..i : a[j] = s[j]
  <2>1. \A j \in 1..i : s[j] \in S
    OBVIOUS
  <2> QED
    BY <2>1, SubSeqProperties
<1>2. b \in Seq(S) /\ Len(b) = Len(s) - i /\ \A j \in 1..Len(s) - i : b[j] = s[j + i]
  <2>1. \A j \in i + 1..Len(s) : s[j] \in S
    OBVIOUS
  <2> QED
    BY <2>1, SubSeqProperties
<1> HIDE DEF a, b
<1>3. c \in Seq(S) /\ Len(c) = i + 1 /\ c[i + 1] = x /\ \A j \in 1..i : c[j] = s[j]
  BY <1>1
<1> HIDE DEF c
<1> DEFINE t == c \o b
<1>4. t \in Seq(S) /\ Len(t) = Len(s) + 1
  <2>1. t \in Seq(S) /\ Len(t) = Len(c) + Len(b)
    BY <1>2, <1>3, ConcatProperties
  <2>2. (i + 1) + (Len(s) - i) = Len(s) + 1
    OBVIOUS
  <2> QED
    BY <1>2, <1>3, <2>1, <2>2
<1>5. \A j \in 1..Len(c) + Len(b) : t[j] = IF j <= Len(c) THEN c[j] ELSE b[j - Len(c)]
  BY <1>2, <1>3, ConcatProperties
<1> HIDE DEF t
<1>6. \A j \in 1..Len(s) + 1 :
         t[j] = IF j <= i THEN s[j] ELSE IF j = i + 1 THEN x ELSE s[j - 1]
  <2> SUFFICES ASSUME NEW j \in 1..Len(s) + 1
               PROVE  t[j] = IF j <= i THEN s[j] ELSE IF j = i + 1 THEN x ELSE s[j - 1]
    OBVIOUS
  <2>1. j \in 1..Len(c) + Len(b)
    BY <1>2, <1>3
  <2>2. CASE j <= i
    <3>1. t[j] = c[j] /\ j \in 1..i
      BY <1>3, <1>5, <2>1, <2>2
    <3> QED
      BY <1>3, <2>2, <3>1
  <2>3. CASE j = i + 1
    <3>1. t[j] = c[j]
      BY <1>3, <1>5, <2>1, <2>3
    <3> QED
      BY <1>3, <2>3, <3>1
  <2>4. CASE j > i + 1
    <3>1. t[j] = b[j - (i + 1)] /\ j - (i + 1) \in 1..Len(s) - i
      BY <1>3, <1>5, <2>1, <2>4
    <3>2. b[j - (i + 1)] = s[(j - (i + 1)) + i] /\ (j - (i + 1)) + i = j - 1
      BY <1>2, <3>1
    <3>3. ~(j <= i) /\ j # i + 1
      BY <2>4
    <3> QED
      BY <3>1, <3>2, <3>3
  <2> QED
    BY <2>2, <2>3, <2>4
<1>7. t = PutIn(s, i, x)
  BY DEF a, b, c, t, PutIn
<1>8. Shifted(t, s, i, x)
  BY <1>6, Zenon DEF Shifted
<1> QED
  BY <1>4, <1>7, <1>8

\* Where the elements are after the last was taken out.
LEMMA ShortenedSeq ==
    ASSUME NEW S, NEW s \in Seq(S), NEW i \in 0..Len(s) - 1
    PROVE  /\ TakenOut(s, i) \in Seq(S) /\ Len(TakenOut(s, i)) = Len(s) - 1
           /\ i = Len(s) - 1 => \A j \in 1..Len(s) - 1 : TakenOut(s, i)[j] = s[j]
<1> DEFINE a == SubSeq(s, 1, i)
           b == SubSeq(s, i + 2, Len(s))
<1>1. a \in Seq(S) /\ Len(a) = i /\ \A j \in 1..i : a[j] = s[j]
  <2>1. \A j \in 1..i : s[j] \in S
    OBVIOUS
  <2> QED
    BY <2>1, SubSeqProperties
<1>2. b \in Seq(S) /\ Len(b) = Len(s) - (i + 1)
  <2>1. \A j \in i + 2..Len(s) : s[j] \in S
    OBVIOUS
  <2> QED
    BY <2>1, SubSeqProperties
<1> HIDE DEF a, b
<1> DEFINE t == a \o b
<1>3. t \in Seq(S) /\ Len(t) = Len(a) + Len(b)
      /\ \A j \in 1..Len(a) + Len(b) : t[j] = IF j <= Len(a) THEN a[j] ELSE b[j - Len(a)]
  BY <1>1, <1>2, ConcatProperties
<1> HIDE DEF t
<1>4. Len(t) = Len(s) - 1
  BY <1>1, <1>2, <1>3
<1>5. i = Len(s) - 1 => \A j \in 1..Len(s) - 1 : t[j] = s[j]
  BY <1>1, <1>2, <1>3
<1> QED
  BY <1>3, <1>4, <1>5 DEF a, b, t, TakenOut

-----------------------------------------------------------------------------
(* The inductive invariant.                                                *)

Typed ==
    /\ size \in 0..MaxItems /\ allocated \in Nat /\ allocated >= DefaultSize
    /\ table \in [0..MaxItems -> Items \cup {NULL, JUNK}]
    /\ overrun \in BOOLEAN /\ seq \in Seq(Items) /\ size = Len(seq)
    /\ sure \in Seq(Items \cup {JUNK}) /\ size = Len(sure)
    /\ removed \in {"none", "last", "inner"}

\* What has always been in the table still is, and without an overrun that is
\* every item.
Stored ==
    removed # "inner" =>
        /\ \A i \in 0..size - 1 :
               \/ sure[i + 1] = JUNK
               \/ i < allocated /\ table[i] = seq[i + 1]
        /\ ~overrun => sure = seq

IInv == Typed /\ Stored /\ RoomForDefault

\* A new list is empty and has room for LIST_DEFAULT_SIZE items.
LEMMA InitIInv == Init => IInv
<1> SUFFICES ASSUME Init PROVE IInv
  OBVIOUS
<1> USE SizeAssumption, MaxItemsAssumption
<1>1. allocated \in Nat /\ allocated >= DefaultSize
  BY DEF Init, Larger
<1> QED
  BY <1>1 DEF Init, IInv, Typed, Stored, RoomForDefault

\* Growing never makes the table smaller.
LEMMA CapacityGrows ==
    ASSUME Typed
    PROVE  Capacity \in Nat /\ Capacity >= allocated
BY SizeAssumption DEF Typed, Capacity, MustGrow

\* list_insert: the table may grow, the items behind the new one move, and those
\* that leave the table are not sure any more.
LEMMA InsertIInv ==
    ASSUME IInv, NEW i \in 0..MaxItems, NEW x \in Items, Insert(i, x)
    PROVE  IInv'
<1> USE SizeAssumption, MaxItemsAssumption DEF IInv
<1>1. PICK kept \in BOOLEAN : table' = Inserted(Ensured(kept), i, x)
  BY DEF Insert
<1> DEFINE e == Ensured(kept)
<1>2. /\ live /\ i <= size /\ size < MaxItems /\ allocated' = Capacity
      /\ size' = size + 1 /\ overrun' = (overrun \/ size >= Capacity)
      /\ seq' = PutIn(seq, i, x) /\ sure' = InRoom(PutIn(sure, i, x))
      /\ removed' = removed
  BY DEF Insert
<1>3. /\ e \in [0..MaxItems -> Items \cup {NULL, JUNK}]
      /\ \A j \in 0..MaxItems : j < allocated => e[j] = table[j]
  BY DEF Ensured, Typed
<1>4. /\ DOMAIN table' = 0..MaxItems
      /\ \A j \in 0..MaxItems :
            table'[j] = IF j = i THEN x ELSE IF i < j /\ j <= size THEN e[j - 1] ELSE e[j]
  BY <1>1, <1>3 DEF Inserted
<1>5. /\ seq' \in Seq(Items) /\ Len(seq') = size + 1
      /\ \A j \in 1..size + 1 :
            seq'[j] = IF j <= i THEN seq[j] ELSE IF j = i + 1 THEN x ELSE seq[j - 1]
  <2>1. i \in 0..Len(seq) /\ seq \in Seq(Items)
    BY <1>2 DEF Typed
  <2>2. seq' = PutIn(seq, i, x)
    BY <1>2
  <2> QED
    <3>1. /\ PutIn(seq, i, x) \in Seq(Items) /\ Len(PutIn(seq, i, x)) = Len(seq) + 1
          /\ Shifted(PutIn(seq, i, x), seq, i, x)
      BY <2>1, InsertedSeq
    <3>2. size = Len(seq)
      BY DEF Typed
    <3> QED
      BY <2>2, <3>1, <3>2, Zenon DEF Shifted
<1> DEFINE q == PutIn(sure, i, x)
<1>9. /\ q \in Seq(Items \cup {JUNK}) /\ Len(q) = size + 1
      /\ \A j \in 1..size + 1 :
            q[j] = IF j <= i THEN sure[j] ELSE IF j = i + 1 THEN x ELSE sure[j - 1]
  <2>1. i \in 0..Len(sure) /\ sure \in Seq(Items \cup {JUNK}) /\ size = Len(sure)
    BY <1>2 DEF Typed
  <2>2. /\ PutIn(sure, i, x) \in Seq(Items \cup {JUNK})
        /\ Len(PutIn(sure, i, x)) = Len(sure) + 1
        /\ Shifted(PutIn(sure, i, x), sure, i, x)
    BY <2>1, InsertedSeq
  <2> QED
    BY <2>1, <2>2, Zenon DEF Shifted
<1> HIDE DEF q
<1>10. /\ sure' \in Seq(Items \cup {JUNK}) /\ Len(sure') = size + 1
       /\ \A j \in 1..size + 1 : sure'[j] = IF j <= Capacity THEN q[j] ELSE JUNK
  <2>1. sure' = [j \in 1..Len(q) |-> IF j <= Capacity THEN q[j] ELSE JUNK]
    BY <1>2 DEF InRoom, q
  <2>2. size + 1 \in Nat /\ Len(q) = size + 1
    BY <1>9 DEF Typed
  <2>3. \A j \in 1..size + 1 : q[j] \in Items \cup {JUNK}
    BY <1>9, <2>2
  <2>4. sure' \in [1..size + 1 -> Items \cup {JUNK}]
    BY <2>1, <2>2, <2>3
  <2>5. sure' \in Seq(Items \cup {JUNK})
    BY <2>2, <2>4, IsASeq
  <2> QED
    BY <2>1, <2>2, <2>4, <2>5
<1>6. Typed'
  <2>1. table' \in [0..MaxItems -> Items \cup {NULL, JUNK}]
    <3>1. \A j \in 0..MaxItems : i < j => j - 1 \in 0..MaxItems
      OBVIOUS
    <3> QED
      BY <1>1, <1>3, <3>1 DEF Inserted
  <2>2. /\ size' \in 0..MaxItems /\ size' = Len(seq') /\ size' = Len(sure')
        /\ allocated' \in Nat /\ allocated' >= DefaultSize
    <3>1. Capacity \in Nat /\ Capacity >= allocated
      BY CapacityGrows
    <3>2. size \in 0..MaxItems /\ allocated \in Nat /\ allocated >= DefaultSize
      BY DEF Typed
    <3>3. size' = size + 1 /\ size < MaxItems /\ allocated' = Capacity
      BY <1>2
    <3>4. Len(seq') = size' /\ Len(sure') = size'
      BY <1>5, <1>10, <3>3
    <3> QED
      BY <3>1, <3>2, <3>3, <3>4
  <2> QED
    BY <1>2, <1>5, <1>10, <2>1, <2>2 DEF Typed
<1>7. RoomForDefault'
  BY <1>2, CapacityGrows DEF RoomForDefault, Typed
<1>8. Stored'
  <2> SUFFICES ASSUME removed # "inner"
               PROVE  /\ \A j \in 0..size : sure'[j + 1] # JUNK =>
                             j < Capacity /\ table'[j] = seq'[j + 1]
                      /\ ~overrun /\ size < Capacity => sure' = seq'
    <3>1. Capacity \in Nat /\ size \in Nat
      BY CapacityGrows DEF Typed
    <3>2. ~overrun' => ~overrun /\ size < Capacity
      <4>1. size < Capacity \/ size >= Capacity
        BY <3>1
      <4> QED
        BY <1>2, <4>1, Zenon
    <3>3. size' - 1 = size /\ allocated' = Capacity
      BY <1>2, <3>1
    <3> QED
      BY <1>2, <3>2, <3>3 DEF Stored
  <2>1. /\ \A j \in 0..size - 1 :
              sure[j + 1] # JUNK => j < allocated /\ table[j] = seq[j + 1]
        /\ ~overrun => sure = seq
    BY DEF Stored
  <2>2. ASSUME ~overrun, size < Capacity PROVE sure' = seq'
    <3>1. q = seq'
      BY <1>2, <2>1, <2>2 DEF q
    <3>2. \A j \in 1..Len(q) : j <= Capacity
      BY <1>9, <2>2, CapacityGrows DEF Typed
    <3>3. sure' = [j \in 1..Len(q) |-> q[j]]
      BY <1>2, <3>2 DEF InRoom, q
    <3> QED
      BY <1>9, <3>1, <3>3
  <2>3. ASSUME NEW j \in 0..size, sure'[j + 1] # JUNK
        PROVE  j < Capacity /\ table'[j] = seq'[j + 1]
    <3>1. /\ j \in 0..MaxItems /\ j + 1 \in 1..size + 1 /\ j <= size
          /\ allocated \in Nat /\ size \in Nat
      BY DEF Typed
    <3>5. q[j + 1] # JUNK /\ j + 1 <= Capacity
      BY <1>10, <2>3, <3>1
    <3>6. j < Capacity
      BY <3>1, <3>5, CapacityGrows
    <3>2. CASE j < i
      <4>1. seq'[j + 1] = seq[j + 1]
        BY <1>5, <3>1, <3>2
      <4>4. sure[j + 1] # JUNK /\ j \in 0..size - 1
        <5>1. q[j + 1] = sure[j + 1]
          BY <1>9, <3>1, <3>2
        <5> QED
          BY <1>2, <3>1, <3>2, <3>5, <5>1
      <4>2. table'[j] = e[j] /\ j < allocated /\ table[j] = seq[j + 1]
        BY <1>2, <1>4, <2>1, <3>1, <3>2, <4>4
      <4>3. table'[j] = table[j]
        BY <1>3, <3>1, <4>2
      <4> QED
        BY <3>6, <4>1, <4>2, <4>3
    <3>3. CASE j = i
      <4>1. ~(j + 1 <= i) /\ j + 1 = i + 1
        BY <3>3
      <4>2. seq'[j + 1] = x
        BY <1>5, <3>1, <4>1
      <4> QED
        BY <1>4, <3>3, <3>6, <4>2
    <3>4. CASE j > i
      <4>1. j - 1 \in 0..size - 1 /\ j - 1 \in 0..MaxItems
            /\ (j - 1) + 1 = j /\ (j + 1) - 1 = j
        BY <3>1, <3>4
      <4>5. sure[(j - 1) + 1] # JUNK
        <5>1. ~(j + 1 <= i) /\ j + 1 # i + 1
          BY <3>1, <3>4
        <5>2. q[j + 1] = sure[(j + 1) - 1]
          BY <1>9, <3>1, <5>1
        <5> QED
          BY <3>5, <4>1, <5>2
      <4>2. /\ table'[j] = e[j - 1] /\ j - 1 < allocated
            /\ table[j - 1] = seq[(j - 1) + 1]
        BY <1>4, <2>1, <3>1, <3>4, <4>1, <4>5
      <4>3. e[j - 1] = table[j - 1]
        BY <1>3, <4>1, <4>2
      <4>4. seq'[j + 1] = seq[(j + 1) - 1]
        <5>1. ~(j + 1 <= i) /\ j + 1 # i + 1
          BY <3>1, <3>4
        <5> QED
          BY <1>5, <3>1, <5>1
      <4> QED
        BY <3>6, <4>1, <4>2, <4>3, <4>4
    <3> QED
      BY <3>2, <3>3, <3>4
  <2> QED
    BY <2>2, <2>3
<1> QED
  BY <1>6, <1>7, <1>8

\* list_remove: the last item goes without a trace, any other spoils the rest.
LEMMA RemoveIInv ==
    ASSUME IInv, NEW i \in 0..MaxItems, Remove(i)
    PROVE  IInv'
<1> USE SizeAssumption, MaxItemsAssumption DEF IInv
<1>1. /\ i < size /\ size' = size - 1 /\ UNCHANGED <<allocated, live, held>>
      /\ overrun' = (overrun \/ (i < size - 1 /\ size >= allocated))
      /\ removed' = IF i = size - 1 /\ removed # "inner" THEN "last" ELSE "inner"
      /\ table' = [j \in DOMAIN table |->
                      IF i <= j /\ j < size - 1 THEN table[j + 2] ELSE table[j]]
  BY DEF Remove
<1>2. /\ seq' \in Seq(Items) /\ Len(seq') = size - 1
      /\ i = size - 1 => \A j \in 1..size - 1 : seq'[j] = seq[j]
  <2>1. i \in 0..Len(seq) - 1 /\ seq \in Seq(Items)
    BY <1>1 DEF Typed
  <2>2. seq' = TakenOut(seq, i)
    BY DEF Remove
  <2> QED
    BY <2>1, <2>2, ShortenedSeq DEF Typed
<1>6. /\ sure' \in Seq(Items \cup {JUNK}) /\ Len(sure') = size - 1
      /\ i = size - 1 => \A j \in 1..size - 1 : sure'[j] = sure[j]
  <2>1. i \in 0..Len(sure) - 1 /\ sure \in Seq(Items \cup {JUNK})
    BY <1>1 DEF Typed
  <2>2. sure' = TakenOut(sure, i)
    BY DEF Remove
  <2> QED
    BY <2>1, <2>2, ShortenedSeq DEF Typed
<1>3. Typed'
  <2>1. table' \in [0..MaxItems -> Items \cup {NULL, JUNK}]
    <3>1. \A j \in 0..MaxItems : i <= j /\ j < size - 1 => j + 2 \in 0..MaxItems
      BY DEF Typed
    <3> QED
      BY <1>1, <3>1 DEF Typed
  <2>2. overrun' \in BOOLEAN
    BY <1>1
  <2> QED
    BY <1>1, <1>2, <1>6, <2>1, <2>2 DEF Typed
<1>4. RoomForDefault'
  BY <1>1 DEF RoomForDefault
<1>5. Stored'
  <2> SUFFICES ASSUME removed' # "inner"
               PROVE  /\ \A j \in 0..size' - 1 : sure'[j + 1] # JUNK =>
                             j < allocated' /\ table'[j] = seq'[j + 1]
                      /\ ~overrun' => sure' = seq'
    BY DEF Stored
  <2>1. i = size - 1 /\ removed # "inner" /\ (~overrun' => ~overrun)
    BY <1>1, Zenon
  <2>2. /\ \A j \in 0..size - 1 :
              sure[j + 1] # JUNK => j < allocated /\ table[j] = seq[j + 1]
        /\ ~overrun => sure = seq
    BY <2>1 DEF Stored
  <2>3. \A j \in 0..size - 2 : table'[j] = table[j]
    BY <1>1, <2>1 DEF Typed
  <2>4. \A j \in 0..size - 2 : seq'[j + 1] = seq[j + 1] /\ sure'[j + 1] = sure[j + 1]
    BY <1>2, <1>6, <2>1 DEF Typed
  <2>5. size' = size - 1 /\ size' - 1 = size - 2 /\ allocated' = allocated
        /\ size \in Nat /\ allocated \in Nat
    BY <1>1 DEF Typed
  <2>6. ~overrun' => sure' = seq'
    BY <2>1, <2>2 DEF Remove
  <2> QED
    BY <2>2, <2>3, <2>4, <2>5, <2>6
<1> QED
  BY <1>3, <1>4, <1>5

\* Every step preserves the invariant.
LEMMA NextIInv == IInv /\ [Next]_vars => IInv'
<1> SUFFICES ASSUME IInv, [Next]_vars PROVE IInv'
  OBVIOUS
<1>1. CASE UNCHANGED vars
  BY <1>1 DEF vars, IInv, Typed, Stored, RoomForDefault
<1>2. ASSUME NEW i \in 0..MaxItems, Remove(i) PROVE IInv'
  BY <1>2, RemoveIInv
<1>3. ASSUME NEW i \in 0..MaxItems, NEW x \in Items, Insert(i, x) PROVE IInv'
  BY <1>3, InsertIInv
<1>4. CASE OthersWrite
  <2>1. /\ UNCHANGED <<size, allocated, overrun, live, seq, sure, held, removed>>
        /\ table' = [i \in DOMAIN table |-> IF i >= allocated THEN JUNK ELSE table[i]]
    BY <1>4 DEF OthersWrite
  <2>2. Typed' /\ RoomForDefault'
    BY <2>1 DEF IInv, Typed, RoomForDefault
  <2>3. Stored'
    <3>1. \A i \in 0..MaxItems : i < allocated => table'[i] = table[i]
      BY <2>1 DEF IInv, Typed
    <3>2. \A i \in 0..size - 1 : i \in 0..MaxItems
      BY MaxItemsAssumption DEF IInv, Typed
    <3> QED
      BY <2>1, <3>1, <3>2 DEF IInv, Stored
  <2> QED
    BY <2>2, <2>3 DEF IInv
<1>5. CASE Destruct
  BY <1>5 DEF Destruct, IInv, Typed, Stored, RoomForDefault
<1> QED
  BY <1>1, <1>2, <1>3, <1>4, <1>5 DEF Next

\* The invariant holds in every reachable state.
THEOREM Invariance == Spec => []IInv
BY InitIInv, NextIInv, PTL DEF Spec

-----------------------------------------------------------------------------
\* The counters stay in range, and the table never gets smaller than
\* LIST_DEFAULT_SIZE.
THEOREM TypeCorrect == Spec => []TypeOK
<1>1. IInv => TypeOK
  BY DEF IInv, Typed, TypeOK
<1> QED
  BY <1>1, Invariance, PTL

\* No access is behind the table of a list of LIST_DEFAULT_SIZE items or less.
THEOREM DefaultHasRoom == Spec => []RoomForDefault
<1>1. IInv => RoomForDefault
  BY DEF IInv
<1> QED
  BY <1>1, Invariance, PTL

\* A list gives back, by index and by value, every item that has been in its
\* table since it was put in, however often the table has grown.
THEOREM ListKeepsItems == Spec => []KeepsItems
<1>1. IInv => KeepsItems
  <2> SUFFICES ASSUME IInv, removed # "inner" PROVE KeepsItems
    BY DEF KeepsItems
  <2>1. /\ size = Len(seq) /\ size \in Nat /\ seq \in Seq(Items)
        /\ \A i \in 0..size - 1 : sure[i + 1] # JUNK => table[i] = seq[i + 1]
        /\ ~overrun => sure = seq
    BY MaxItemsAssumption DEF IInv, Typed, Stored
  <2>2. ASSUME NEW x
        PROVE  /\ Find(x) >= 0 => Find(x) \in 0..size - 1 /\ table[Find(x)] = x
               /\ \A i \in 0..size - 1 : table[i] = x => Find(x) \in 0..i
    <3> DEFINE hits == {i \in 0..size - 1 : table[i] = x}
               h == CHOOSE i \in hits : \A j \in hits : i <= j
    <3>2. CASE hits = {}
      <4>1. Find(x) = -1
        BY <3>2 DEF Find
      <4> QED
        BY <3>2, <4>1
    <3>3. CASE hits # {}
      <4>1. h \in hits /\ \A j \in hits : h <= j
        <5>1. \E i \in hits : \A j \in hits : i <= j
          <6>1. hits \subseteq Nat
            BY <2>1
          <6> QED
            BY <3>3, <6>1, Smallest
        <5> QED
          BY <5>1
      <4>2. Find(x) = h
        BY <3>3 DEF Find
      <4> HIDE DEF h
      <4>3. h \in 0..size - 1 /\ table[h] = x
        BY <4>1
      <4>4. ASSUME NEW i \in 0..size - 1, table[i] = x PROVE h \in 0..i
        BY <2>1, <4>1, <4>3, <4>4
      <4> QED
        BY <4>2, <4>3, <4>4
    <3> QED
      BY <3>2, <3>3
  <2>3. ASSUME NEW i \in 0..size - 1, sure[i + 1] # JUNK
        PROVE  Get(i) = seq[i + 1] /\ Find(seq[i + 1]) \in 0..i
    <3>1. table[i] = seq[i + 1] /\ ~(i >= size)
      BY <2>1, <2>3
    <3> QED
      BY <2>2, <3>1 DEF Get
  <2>4. ASSUME NEW x \in Items, Find(x) >= 0, sure[Find(x) + 1] # JUNK
        PROVE  seq[Find(x) + 1] = x
    BY <2>1, <2>2, <2>4
  <2> QED
    BY <2>1, <2>3, <2>4 DEF KeepsItems
<1> QED
  BY <1>1, Invariance, PTL

-----------------------------------------------------------------------------
(* The references of a list.                                               *)

\* Where an object stands in a sequence.
Spots(s, x) == {j \in 1..Len(s) : s[j] = x}

\* There are finitely many places.
LEMMA SpotsFinite ==
    ASSUME NEW S, NEW s \in Seq(S), NEW x
    PROVE  IsFiniteSet(Spots(s, x)) /\ Cardinality(Spots(s, x)) \in Nat
<1>1. Len(s) \in Nat /\ 1 \in Int /\ Len(s) \in Int
  BY LenProperties
<1>2. IsFiniteSet(1..Len(s))
  BY <1>1, FS_Interval
<1>3. Spots(s, x) \in SUBSET (1..Len(s))
  BY DEF Spots
<1>4. IsFiniteSet(Spots(s, x))
  BY <1>2, <1>3, FS_Subset
<1> QED
  BY <1>4, FS_CardinalityType

\* One more place for the object that was put in, as many for every other.
LEMMA SpotsInserted ==
    ASSUME NEW S, NEW s \in Seq(S), NEW i \in 0..Len(s), NEW x \in S, NEW y \in S
    PROVE  Cardinality(Spots(PutIn(s, i, x), y)) =
              IF x = y THEN Cardinality(Spots(s, y)) + 1
              ELSE Cardinality(Spots(s, y))
<1> DEFINE t == PutIn(s, i, x)
<1>1. /\ t \in Seq(S) /\ Len(t) = Len(s) + 1 /\ Len(s) \in Nat
      /\ \A j \in 1..Len(s) + 1 :
            t[j] = IF j <= i THEN s[j] ELSE IF j = i + 1 THEN x ELSE s[j - 1]
  <2>1. Len(s) \in Nat
    BY LenProperties
  <2>2. t \in Seq(S) /\ Len(t) = Len(s) + 1 /\ Shifted(t, s, i, x)
    BY InsertedSeq
  <2> QED
    BY <2>1, <2>2, Zenon DEF Shifted
<1> DEFINE P == Spots(s, y)
           Q == Spots(t, y) \ {i + 1}
           f == [j \in P |-> IF j <= i THEN j ELSE j + 1]
<1> HIDE DEF t
<1>2. \A j : j \in P <=> j \in 1..Len(s) /\ s[j] = y
  BY DEF Spots
<1>3. \A j : j \in Q <=> j \in 1..Len(s) + 1 /\ t[j] = y /\ j # i + 1
  BY <1>1 DEF Spots
<1> HIDE DEF P, Q
<1>4. f \in Bijection(P, Q)
  <2>1. \A j \in P : f[j] \in Q
    <3> SUFFICES ASSUME NEW j \in P PROVE f[j] \in Q
      OBVIOUS
    <3>1. j \in 1..Len(s) /\ s[j] = y
      BY <1>2
    <3>2. CASE j <= i
      <4>1. f[j] = j /\ j \in 1..Len(s) + 1 /\ j # i + 1 /\ t[j] = s[j]
        BY <1>1, <3>1, <3>2
      <4> QED
        BY <1>3, <3>1, <4>1
    <3>3. CASE ~(j <= i)
      <4>1. f[j] = j + 1 /\ j + 1 \in 1..Len(s) + 1 /\ j + 1 # i + 1
            /\ ~(j + 1 <= i) /\ (j + 1) - 1 = j
        BY <1>1, <3>1, <3>3
      <4>2. t[j + 1] = s[(j + 1) - 1]
        BY <1>1, <4>1
      <4> QED
        BY <1>3, <3>1, <4>1, <4>2
    <3> QED
      BY <3>2, <3>3
  <2>2. \A j, k \in P : f[j] = f[k] => j = k
    <3>1. \A j \in P : j \in Nat
      BY <1>1, <1>2
    <3> QED
      BY <3>1
  <2>3. \A k \in Q : \E j \in P : f[j] = k
    <3> SUFFICES ASSUME NEW k \in Q PROVE \E j \in P : f[j] = k
      OBVIOUS
    <3>1. k \in 1..Len(s) + 1 /\ t[k] = y /\ k # i + 1
      BY <1>3
    <3>2. CASE k <= i
      <4>1. k \in 1..Len(s) /\ s[k] = y
        BY <1>1, <3>1, <3>2
      <4> QED
        BY <1>2, <3>2, <4>1
    <3>3. CASE ~(k <= i)
      <4>1. k - 1 \in 1..Len(s) /\ ~(k - 1 <= i) /\ (k - 1) + 1 = k
        BY <1>1, <3>1, <3>3
      <4>2. s[k - 1] = y
        BY <1>1, <3>1, <3>3
      <4>3. k - 1 \in P
        BY <1>2, <4>1, <4>2
      <4>4. f[k - 1] = k
        BY <4>1, <4>3
      <4> QED
        BY <4>3, <4>4
    <3> QED
      BY <3>2, <3>3
  <2>4. f \in [P -> Q]
    BY <2>1
  <2> HIDE DEF f
  <2> QED
    BY <2>2, <2>3, <2>4 DEF Bijection, Injection, Surjection, IsInjective
<1>5. IsFiniteSet(P) /\ Cardinality(P) \in Nat
  BY SpotsFinite DEF P
<1>6. IsFiniteSet(Q) /\ Cardinality(Q) = Cardinality(P)
  BY <1>4, <1>5, FS_Bijection DEF ExistsBijection
<1>7. i + 1 \in 1..Len(s) + 1 /\ t[i + 1] = x
  BY <1>1
<1>8. i + 1 \notin Q
  BY <1>3
<1>9. CASE x = y
  <2>1. Spots(t, y) = Q \cup {i + 1}
    BY <1>1, <1>7, <1>9 DEF Spots, Q
  <2>2. Cardinality(Spots(t, y)) = Cardinality(Q) + 1
    BY <1>6, <1>8, <2>1, FS_AddElement
  <2> QED
    BY <1>6, <1>9, <2>2 DEF t, P
<1>10. CASE x # y
  <2>1. Spots(t, y) = Q
    BY <1>7, <1>10 DEF Spots, Q
  <2> QED
    BY <1>6, <1>10, <2>1 DEF t, P
<1> QED
  BY <1>9, <1>10

\* The cells of a table that hold an object are as many as its places.
LEMMA SpotsInTable ==
    ASSUME NEW S, NEW s \in Seq(S), NEW x, NEW t,
           \A i \in 0..Len(s) - 1 : t[i] = s[i + 1]
    PROVE  Cardinality({i \in 0..Len(s) - 1 : t[i] = x}) = Cardinality(Spots(s, x))
<1> DEFINE P == Spots(s, x)
           Q == {i \in 0..Len(s) - 1 : t[i] = x}
           f == [j \in P |-> j - 1]
<1>1. Len(s) \in Nat
  BY LenProperties
<1>2. \A j : j \in P <=> j \in 1..Len(s) /\ s[j] = x
  BY DEF Spots
<1>3. \A j : j \in Q <=> j \in 0..Len(s) - 1 /\ s[j + 1] = x
  OBVIOUS
<1> HIDE DEF P, Q
<1>4. f \in [P -> Q]
  <2> SUFFICES ASSUME NEW j \in P PROVE j - 1 \in Q
    OBVIOUS
  <2>1. j \in 1..Len(s) /\ s[j] = x
    BY <1>2
  <2>2. j - 1 \in 0..Len(s) - 1 /\ (j - 1) + 1 = j
    BY <1>1, <2>1
  <2> QED
    BY <1>3, <2>1, <2>2
<1>5. \A j, k \in P : f[j] = f[k] => j = k
  <2>1. \A j \in P : j \in Nat
    BY <1>1, <1>2
  <2> QED
    BY <2>1
<1>6. \A k \in Q : \E j \in P : f[j] = k
  <2> SUFFICES ASSUME NEW k \in Q PROVE \E j \in P : f[j] = k
    OBVIOUS
  <2>1. k \in 0..Len(s) - 1 /\ s[k + 1] = x
    BY <1>3
  <2>2. k + 1 \in 1..Len(s) /\ (k + 1) - 1 = k
    BY <1>1, <2>1
  <2>3. k + 1 \in P
    BY <1>2, <2>1, <2>2
  <2> QED
    BY <2>2, <2>3
<1> HIDE DEF f
<1>7. f \in Bijection(P, Q)
  BY <1>4, <1>5, <1>6 DEF Bijection, Injection, Surjection, IsInjective
<1>8. IsFiniteSet(P)
  BY SpotsFinite DEF P
<1> QED
  BY <1>7, <1>8, FS_Bijection DEF ExistsBijection, P, Q

\* The counts and the references of a list nothing was removed from.
Counted ==
    /\ live \in BOOLEAN /\ held \in [Items -> Int]
    /\ removed = "none" =>
        /\ live => \A x \in Items : held[x] = Cardinality(Spots(seq, x))
        /\ ~live /\ ~overrun => \A x \in Items : held[x] = 0

\* Every insertion counts the item, and the destructor drops what it finds.
LEMMA NextCounted == IInv /\ Counted /\ [Next]_vars => Counted'
<1> SUFFICES ASSUME IInv, Counted, [Next]_vars PROVE Counted'
  OBVIOUS
<1>1. CASE UNCHANGED vars
  BY <1>1 DEF vars, Counted
<1>2. ASSUME NEW i \in 0..MaxItems, Remove(i) PROVE Counted'
  <2>1. UNCHANGED <<live, held>> /\ removed' # "none"
    BY <1>2 DEF Remove
  <2> QED
    BY <2>1 DEF Counted
<1>3. ASSUME NEW i \in 0..MaxItems, NEW x \in Items, Insert(i, x) PROVE Counted'
  <2>1. /\ live /\ i <= size /\ live' = live /\ removed' = removed
        /\ seq' = PutIn(seq, i, x) /\ held' = [held EXCEPT ![x] = @ + 1]
    BY <1>3 DEF Insert
  <2>2. seq \in Seq(Items) /\ i \in 0..Len(seq)
    BY <2>1 DEF IInv, Typed
  <2>3. held' \in [Items -> Int]
    BY <2>1 DEF Counted
  <2>4. ASSUME removed = "none", NEW y \in Items
        PROVE  held'[y] = Cardinality(Spots(seq', y))
    <3>1. held[y] = Cardinality(Spots(seq, y))
      BY <2>1, <2>4 DEF Counted
    <3>2. held'[y] = IF x = y THEN held[y] + 1 ELSE held[y]
      BY <2>1 DEF Counted
    <3>3. Cardinality(Spots(seq', y)) =
              IF x = y THEN Cardinality(Spots(seq, y)) + 1
              ELSE Cardinality(Spots(seq, y))
      BY <2>1, <2>2, SpotsInserted
    <3> QED
      BY <3>1, <3>2, <3>3
  <2> QED
    BY <2>1, <2>3, <2>4 DEF Counted
<1>4. CASE OthersWrite
  BY <1>4 DEF OthersWrite, Counted
<1>5. CASE Destruct
  <2>1. /\ live /\ ~live' /\ live' \in BOOLEAN
        /\ UNCHANGED <<table, size, overrun, seq, removed>>
        /\ held' = [x \in Items |->
                      held[x] - Cardinality({i \in 0..size - 1 : table[i] = x})]
    BY <1>5 DEF Destruct
  <2>2. seq \in Seq(Items) /\ size = Len(seq) /\ size \in Nat
    BY MaxItemsAssumption DEF IInv, Typed
  <2>3. \A x \in Items : Cardinality({i \in 0..size - 1 : table[i] = x}) \in Nat
    <3> SUFFICES ASSUME NEW x \in Items
                 PROVE  Cardinality({i \in 0..size - 1 : table[i] = x}) \in Nat
      OBVIOUS
    <3>1. IsFiniteSet(0..size - 1)
      BY <2>2, FS_Interval
    <3>2. IsFiniteSet({i \in 0..size - 1 : table[i] = x})
      BY <3>1, FS_Subset
    <3> QED
      BY <3>2, FS_CardinalityType
  <2>4. held' \in [Items -> Int]
    BY <2>1, <2>3 DEF Counted
  <2>5. ASSUME removed = "none", ~overrun, NEW x \in Items PROVE held'[x] = 0
    <3>1. \A i \in 0..Len(seq) - 1 : table[i] = seq[i + 1]
      <4>1. sure = seq
        BY <2>5 DEF IInv, Stored
      <4>2. \A i \in 0..size - 1 : sure[i + 1] # JUNK
        BY <2>2, <4>1, ItemsAssumption
      <4> QED
        BY <2>2, <2>5, <4>2 DEF IInv, Stored
    <3>2. Cardinality({i \in 0..size - 1 : table[i] = x}) = Cardinality(Spots(seq, x))
      BY <2>2, <3>1, SpotsInTable
    <3>3. held[x] = Cardinality(Spots(seq, x))
      BY <2>1, <2>5 DEF Counted
    <3>4. Cardinality(Spots(seq, x)) \in Nat
      BY <2>2, SpotsFinite
    <3> QED
      BY <2>1, <3>2, <3>3, <3>4
  <2> QED
    BY <2>1, <2>4, <2>5 DEF Counted
<1> QED
  BY <1>1, <1>2, <1>3, <1>4, <1>5 DEF Next

\* An empty list holds nothing.
LEMMA InitCounted == Init => Counted
<1> SUFFICES ASSUME Init PROVE Counted
  OBVIOUS
<1>1. /\ live = TRUE /\ seq = <<>> /\ held = [x \in Items |-> 0]
  BY DEF Init
<1>2. ASSUME NEW x \in Items PROVE Cardinality(Spots(seq, x)) = 0
  <2>1. Spots(seq, x) = {}
    BY <1>1 DEF Spots
  <2> QED
    BY <2>1, FS_EmptySet
<1> QED
  BY <1>1, <1>2 DEF Counted

\* A list nothing was removed from holds one reference for each item, and its
\* destructor drops them all, as long as the table was not overrun.
THEOREM ListReturnsReferences == Spec => []ReferencesReturned
<1>1. IInv /\ Counted => ReferencesReturned
  BY DEF Counted, ReferencesReturned, Spots
<1>2. Spec => []Counted
  BY InitCounted, NextCounted, Invariance, PTL DEF Spec
<1> QED
  BY <1>1, <1>2, Invariance, PTL
=============================================================================
