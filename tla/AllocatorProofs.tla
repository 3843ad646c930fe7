---------------------------- MODULE AllocatorProofs ----------------------------
(***************************************************************************)
(* Proofs about Allocator: for every page size, a block of at least one    *)
(* byte has one holder, the list through the blocks is sound whatever the  *)
(* callers write, and no block is lost.                                    *)
(***************************************************************************)
EXTENDS Allocator, SequenceTheorems, TLAPS

\* The two classes are 0, the request of no bytes, and 1.
LEMMA TwoClasses ==
    /\ Classes = {0, 1} /\ \A s \in Sizes : SIZE2INDEX(s) \in {0, 1}
    /\ Pages = {0, 1}
<1>1. \A s \in 0..8 : (s + 7) \div 8 \in {0, 1}
  BY SMT
<1>2. (0 + 7) \div 8 = 0 /\ (1 + 7) \div 8 = 1
  BY SMT
<1>3. 0 \in 0..8 /\ 1 \in 0..8
  OBVIOUS
<1> QED
  BY <1>1, <1>2, <1>3 DEF Classes, Sizes, SIZE2INDEX, MAX_BLOCK_SIZE, Pages

\* The empty sequence is the one without elements.
LEMMA EmptyIff == ASSUME NEW S, NEW s \in Seq(S) PROVE s = <<>> <=> Len(s) = 0
  BY EmptySeq

\* What is left of a list without its head.
LEMMA TailFacts ==
    ASSUME NEW S, NEW s \in Seq(S), s # <<>>
    PROVE  /\ Tail(s) \in Seq(S) /\ Len(s) \in Nat
           /\ Len(Tail(s)) = Len(s) - 1
           /\ \A i \in 1..Len(s) - 1 : Tail(s)[i] = s[i + 1]
           /\ Tail(s) = <<>> <=> Len(s) = 1
<1>1. \A t \in Seq(S) : t = <<>> <=> Len(t) = 0
  BY EmptyIff
<1>2. Tail(s) \in Seq(S) /\ Len(Tail(s)) = Len(s) - 1 /\ Len(s) \in Nat
  OBVIOUS
<1>3. \A i \in 1..Len(s) - 1 : Tail(s)[i] = s[i + 1]
  OBVIOUS
<1>4. Tail(s) = <<>> <=> Len(Tail(s)) = 0
  BY <1>1, <1>2, Zenon
<1> QED
  BY <1>2, <1>3, <1>4

\* A list with a new head.
LEMMA ConsFacts ==
    ASSUME NEW S, NEW s \in Seq(S), NEW x \in S
    PROVE  /\ <<x>> \o s \in Seq(S) /\ Len(s) \in Nat /\ <<x>> \o s # <<>>
           /\ Len(<<x>> \o s) = Len(s) + 1
           /\ (<<x>> \o s)[1] = x
           /\ \A i \in 1..Len(s) : (<<x>> \o s)[i + 1] = s[i]
           /\ \A i \in 1..Len(s) + 1 :
                 i # 1 => i - 1 \in 1..Len(s) /\ (<<x>> \o s)[i] = s[i - 1]
<1>1. /\ <<x>> \o s \in Seq(S) /\ Len(s) \in Nat
      /\ Len(<<x>> \o s) = Len(s) + 1
  OBVIOUS
<1>2. /\ (<<x>> \o s)[1] = x
      /\ \A i \in 1..Len(s) : (<<x>> \o s)[i + 1] = s[i]
      /\ \A i \in 1..Len(s) + 1 :
            i # 1 => i - 1 \in 1..Len(s) /\ (<<x>> \o s)[i] = s[i - 1]
  OBVIOUS
<1>3. \A t \in Seq(S) : t = <<>> <=> Len(t) = 0
  BY EmptyIff
<1>4. Len(s) + 1 # 0
  BY <1>1
<1>5. <<x>> \o s # <<>>
  BY <1>1, <1>3, <1>4, Zenon
<1> QED
  BY <1>1, <1>2, <1>5

-----------------------------------------------------------------------------
(* The inductive invariant.                                                *)

\* A page has one class at most, and pages are taken in order.
PagesGiven ==
    /\ bucketlist \in [Classes -> Pages \cup {NULL}]
    /\ available_bucket_index =
          (IF bucketlist[0] = NULL THEN 0 ELSE 1) + (IF bucketlist[1] = NULL THEN 0 ELSE 1)
    /\ \A i \in Classes :
          bucketlist[i] # NULL => bucketlist[i] < available_bucket_index
    /\ bucketlist[0] # NULL => bucketlist[0] # bucketlist[1]

\* The fields have their types.
Typed ==
    /\ bucket \in [Pages -> [freelist : Addresses \cup {NULL},
                             offset : 0..PageSize, max_offset : 0..PageSize]]
    /\ DOMAIN memory = Addresses
    /\ held \in [Addresses -> Nat]
    /\ result \in {NULL, NONE} \cup Blocks(0) \cup Blocks(1)

\* A page of class 0 has one pointer, and its list has no other.
Pointer(p) == <<p, Header>>
ZeroClass ==
    LET p == bucketlist[0]
    IN  p # NULL =>
            /\ bucket[p].freelist \in {NULL, Pointer(p)}
            /\ memory[Pointer(p)] \in {NULL, Pointer(p)}
            /\ bucket[p].offset = Header /\ bucket[p].max_offset = PageSize
            /\ \A a \in Addresses : a[1] = p /\ held[a] > 0 => a = Pointer(p)

\* Pages without a class are not touched.
Untouched ==
    \A p \in Pages :
        (\A i \in Classes : bucketlist[i] # p) =>
            /\ bucket[p].freelist = NULL
            /\ \A a \in Addresses : a[1] = p => held[a] = 0 /\ memory[a] = NULL

\* The list of class 1 is the list of the freed blocks.
Listed ==
    /\ bucketlist[1] = NULL => freed = <<>>
    /\ bucketlist[1] # NULL =>
        /\ freed \in Seq(Blocks(bucketlist[1]))
        /\ bucket[bucketlist[1]].freelist = IF freed = <<>> THEN NULL ELSE freed[1]
        /\ \A i \in 1..Len(freed) :
              /\ held[freed[i]] = 0
              /\ memory[freed[i]] = IF i = Len(freed) THEN NULL ELSE freed[i + 1]
        /\ \A i, j \in 1..Len(freed) : freed[i] = freed[j] => i = j

\* A block of class 1 below the offset is held or freed, one above is neither.
Accounted ==
    LET p == bucketlist[1]
    IN  p # NULL =>
            /\ bucket[p].offset > Header /\ bucket[p].max_offset = PageSize
            /\ \A a \in Addresses :
                  a[1] = p =>
                    /\ held[a] \in {0, 1}
                    /\ held[a] = 1 => a[2] >= Header /\ a[2] < bucket[p].offset
                    /\ held[a] = 0 /\ a[2] >= Header /\ a[2] < bucket[p].offset
                         => \E i \in 1..Len(freed) : freed[i] = a
            /\ \A i \in 1..Len(freed) : freed[i][2] < bucket[p].offset

\* NULL was returned with the page at its end and nothing on the list.
Refused ==
    result = NULL =>
        /\ bucketlist[1] # NULL
        /\ freed = <<>> /\ bucket[bucketlist[1]].offset = PageSize

IInv ==
    /\ PagesGiven /\ Typed /\ ZeroClass /\ Untouched
    /\ Listed /\ Accounted /\ Refused

-----------------------------------------------------------------------------
\* At first no class has a page and nobody holds a block.
LEMMA InitIInv == Init => IInv
<1> SUFFICES ASSUME Init PROVE IInv
  OBVIOUS
<1> USE SizesAssumption, PointersAssumption, TwoClasses
<1>1. PagesGiven
  BY DEF Init, PagesGiven
<1>2. Typed
  BY DEF Init, Typed
<1>3. ZeroClass /\ Untouched
  BY DEF Init, ZeroClass, Untouched
<1>4. Listed /\ Accounted /\ Refused
  BY DEF Init, Listed, Accounted, Refused
<1> QED
  BY <1>1, <1>2, <1>3, <1>4 DEF IInv

\* What every step starts from.
LEMMA Known ==
    ASSUME IInv
    PROVE  /\ bucketlist[0] \in {0, 1, NULL} /\ bucketlist[1] \in {0, 1, NULL}
           /\ NULL \notin {0, 1} /\ NULL \notin Addresses
           /\ \A p \in Pages, o \in Header..PageSize - 1 :
                 <<p, o>> \in Addresses /\ <<p, o>> \in Blocks(p)
           /\ \A p \in Pages : Blocks(p) \subseteq Addresses
           /\ \A a \in Addresses :
                 a = <<a[1], a[2]>> /\ a[1] \in Pages /\ a[2] \in 0..PageSize - 1
BY TwoClasses, SizesAssumption, PointersAssumption
   DEF IInv, PagesGiven, Addresses, Blocks

\* The blocks on the list of class 1.
LEMMA ListedBlocks ==
    ASSUME Listed, bucketlist[1] # NULL
    PROVE  \A i \in 1..Len(freed) :
              /\ held[freed[i]] = 0 /\ freed[i] \in Blocks(bucketlist[1])
              /\ memory[freed[i]] = IF i = Len(freed) THEN NULL ELSE freed[i + 1]
<1>1. freed \in Seq(Blocks(bucketlist[1]))
  BY DEF Listed
<1>2. \A i \in 1..Len(freed) : freed[i] \in Blocks(bucketlist[1])
  BY <1>1
<1>3. \A i \in 1..Len(freed) :
         /\ held[freed[i]] = 0
         /\ memory[freed[i]] = IF i = Len(freed) THEN NULL ELSE freed[i + 1]
  BY Zenon DEF Listed
<1> QED
  BY <1>2, <1>3, Zenon

\* The list of class 1 is as it was, when its bucket and its blocks are.
LEMMA SameList ==
    ASSUME Listed, bucketlist'[1] = bucketlist[1], freed' = freed,
           bucketlist[1] # NULL => bucket'[bucketlist[1]] = bucket[bucketlist[1]],
           bucketlist[1] # NULL =>
              \A a \in Blocks(bucketlist[1]) :
                 held'[a] = held[a] /\ memory'[a] = memory[a]
    PROVE  Listed'
<1>1. CASE bucketlist[1] = NULL
  BY <1>1 DEF Listed
<1>2. CASE bucketlist[1] # NULL
  <2>1. \A i \in 1..Len(freed) : freed[i] \in Blocks(bucketlist[1])
    BY <1>2 DEF Listed
  <2>2. \A i \in 1..Len(freed) :
           /\ held'[freed[i]] = 0
           /\ memory'[freed[i]] = IF i = Len(freed) THEN NULL ELSE freed[i + 1]
    BY <1>2, <2>1 DEF Listed
  <2>3. /\ freed \in Seq(Blocks(bucketlist[1]))
        /\ bucket'[bucketlist[1]].freelist = IF freed = <<>> THEN NULL ELSE freed[1]
        /\ \A i, j \in 1..Len(freed) : freed[i] = freed[j] => i = j
    BY <1>2 DEF Listed
  <2> QED
    BY <1>2, <2>2, <2>3, ZenonT(40) DEF Listed, Blocks
<1> QED
  BY <1>1, <1>2

\* The first request of no bytes.
LEMMA NewBucketZero ==
    ASSUME IInv, NewBucket(0)
    PROVE  IInv'
<1> USE TwoClasses, Known, SizesAssumption, PointersAssumption DEF IInv
<1> DEFINE q == available_bucket_index
<1>1. /\ q \in Pages /\ \A i \in Classes : bucketlist[i] # q
      /\ bucketlist' = [bucketlist EXCEPT ![0] = q] /\ bucketlist[0] = NULL
      /\ bucket' = [bucket EXCEPT ![q] =
            [freelist |-> NULL, offset |-> Header, max_offset |-> PageSize]]
      /\ result' = Pointer(q) /\ held' = [held EXCEPT ![Pointer(q)] = @ + 1]
      /\ Pointer(q) \in Addresses /\ Pointer(q) \in Blocks(q)
      /\ UNCHANGED <<memory, freed>> /\ available_bucket_index' = q + 1
  <2>1. q \in Pages /\ \A i \in Classes : bucketlist[i] # q
    BY DEF NewBucket, PagesGiven
  <2>2. Header + 0 = Header
    OBVIOUS
  <2>3. bucket' = [bucket EXCEPT ![q] =
           [freelist |-> NULL, offset |-> Header + 0, max_offset |-> PageSize]]
    BY DEF NewBucket
  <2>4. Pointer(q) \in Addresses /\ Pointer(q) \in Blocks(q)
    BY <2>1 DEF Pointer
  <2>5. result' = Pointer(q) /\ held' = [held EXCEPT ![Pointer(q)] = @ + 1]
    BY DEF NewBucket, Return, Pointer
  <2>6. /\ bucketlist' = [bucketlist EXCEPT ![0] = q] /\ bucketlist[0] = NULL
        /\ UNCHANGED <<memory, freed>> /\ available_bucket_index' = q + 1
    BY DEF NewBucket
  <2> QED
    BY <2>1, <2>2, <2>3, <2>4, <2>5, <2>6
<1>2. PagesGiven'
  BY <1>1 DEF PagesGiven
<1>3. Typed'
  BY <1>1 DEF Typed
<1>4. ZeroClass'
  BY <1>1 DEF ZeroClass, Untouched, Typed, Pointer, PagesGiven
<1>5. Untouched'
  BY <1>1 DEF Untouched, Typed, Pointer, PagesGiven
<1>6. \A a \in Addresses : a[1] # q => held'[a] = held[a]
  BY <1>1 DEF Typed, Pointer
<1>7. bucketlist[1]' = bucketlist[1]
      /\ (bucketlist[1] # NULL => bucket'[bucketlist[1]] = bucket[bucketlist[1]])
  BY <1>1 DEF PagesGiven, Typed
<1>8. Listed'
  <2>1. bucketlist[1] # NULL =>
           \A a \in Blocks(bucketlist[1]) : held'[a] = held[a] /\ memory'[a] = memory[a]
    BY <1>1, <1>6 DEF Blocks, Addresses
  <2> QED
    BY <1>1, <1>7, <2>1, SameList
<1>9. Accounted'
  BY <1>1, <1>6, <1>7 DEF Accounted
<1>10. Refused'
  BY <1>1 DEF Refused
<1> QED
  BY <1>2, <1>3, <1>4, <1>5, <1>8, <1>9, <1>10

\* The first request of at least one byte.
LEMMA NewBucketOne ==
    ASSUME IInv, NewBucket(1)
    PROVE  IInv'
<1> USE TwoClasses, Known, SizesAssumption, PointersAssumption DEF IInv
<1> DEFINE q == available_bucket_index
<1>1. /\ q \in Pages /\ \A i \in Classes : bucketlist[i] # q
      /\ bucketlist' = [bucketlist EXCEPT ![1] = q] /\ bucketlist[1] = NULL
      /\ bucket' = [bucket EXCEPT ![q] =
            [freelist |-> NULL, offset |-> Header + 1, max_offset |-> PageSize]]
      /\ result' = Pointer(q) /\ held' = [held EXCEPT ![Pointer(q)] = @ + 1]
      /\ Pointer(q) \in Addresses /\ Pointer(q) \in Blocks(q)
      /\ UNCHANGED <<memory, freed>> /\ available_bucket_index' = q + 1
  BY DEF NewBucket, Return, PagesGiven, Pointer
<1>2. PagesGiven'
  BY <1>1 DEF PagesGiven
<1>3. Typed'
  BY <1>1 DEF Typed
<1>4. \A a \in Addresses : a[1] # q => held'[a] = held[a]
  BY <1>1 DEF Typed, Pointer
<1>5. bucketlist[0]' = bucketlist[0]
      /\ (bucketlist[0] # NULL => bucket'[bucketlist[0]] = bucket[bucketlist[0]])
  BY <1>1 DEF PagesGiven, Typed
<1>6. ZeroClass'
  BY <1>1, <1>4, <1>5 DEF ZeroClass, Pointer
<1>7. Untouched'
  BY <1>1 DEF Untouched, Typed, Pointer, PagesGiven
<1>8. Listed'
  BY <1>1, SMTT(30) DEF Listed, Typed, PagesGiven
<1>9. Accounted'
  <2>1. freed = <<>> /\ Len(freed) = 0 /\ bucketlist'[1] = q
    BY <1>1, EmptyIff DEF Listed, PagesGiven
  <2>2. bucket'[q].offset = Header + 1 /\ bucket'[q].max_offset = PageSize
    BY <1>1 DEF Typed
  <2>3. ASSUME NEW a \in Addresses, a[1] = q
        PROVE  held'[a] = IF a = Pointer(q) THEN 1 ELSE 0
    BY <1>1, <2>3 DEF Untouched, Typed
  <2>4. ASSUME NEW a \in Addresses, a[1] = q
        PROVE  a = Pointer(q) <=> a[2] >= Header /\ a[2] < Header + 1
    BY <2>4 DEF Pointer
  <2> QED
    BY <1>1, <2>1, <2>2, <2>3, <2>4 DEF Accounted
<1>10. Refused'
  BY <1>1 DEF Refused
<1> QED
  BY <1>2, <1>3, <1>6, <1>7, <1>8, <1>9, <1>10

\* What the steps after the first request of a class have in common: only the
\* page p and its blocks change.
LEMMA SamePages ==
    ASSUME IInv, NEW c \in {0, 1}, bucketlist[c] # NULL,
           UNCHANGED <<bucketlist, available_bucket_index>>
    PROVE  /\ PagesGiven' /\ bucketlist[c] \in Pages
           /\ bucketlist[1 - c] # bucketlist[c]
BY TwoClasses, Known DEF IInv, PagesGiven

\* The other class is as it was, when neither its bucket nor its blocks change.
LEMMA OtherClass ==
    ASSUME IInv, NEW c \in {0, 1}, bucketlist[c] # NULL,
           UNCHANGED <<bucketlist, available_bucket_index>>,
           \A p \in Pages : p # bucketlist[c] => bucket'[p] = bucket[p],
           \A a \in Addresses :
              a[1] # bucketlist[c] => held'[a] = held[a] /\ memory'[a] = memory[a],
           c = 0 => freed' = freed
    PROVE  /\ Untouched'
           /\ c = 0 => Listed' /\ Accounted'
           /\ c = 1 => ZeroClass'
<1> USE TwoClasses, Known, SamePages, SizesAssumption DEF IInv
<1>1. Untouched'
  BY DEF Untouched
<1>2. CASE c = 0
  <2>1. Listed'
    <3>1. bucketlist[1] # NULL => bucket'[bucketlist[1]] = bucket[bucketlist[1]]
      BY <1>2
    <3>2. ASSUME bucketlist[1] # NULL, NEW a \in Blocks(bucketlist[1])
          PROVE  held'[a] = held[a] /\ memory'[a] = memory[a]
      <4>1. a \in Addresses
        BY <3>2
      <4>2. a[1] = bucketlist[1]
        BY <3>2 DEF Blocks
      <4> QED
        BY <1>2, <4>1, <4>2
    <3>3. freed' = freed
      BY <1>2
    <3> QED
      BY <3>1, <3>2, <3>3, SameList
  <2>2. Accounted'
    BY <1>2, SMTT(30) DEF Accounted
  <2> QED
    BY <1>1, <1>2, <2>1, <2>2
<1>3. CASE c = 1
  BY <1>1, <1>3 DEF ZeroClass, Pointer
<1> QED
  BY <1>2, <1>3

\* A new head of the list of a page, or a new offset.
LEMMA FreelistTyped ==
    ASSUME Typed, NEW p \in Pages, NEW x \in Addresses \cup {NULL}, NEW y \in 0..PageSize
    PROVE  {[bucket EXCEPT ![p].freelist = x], [bucket EXCEPT ![p].offset = y]}
              \subseteq [Pages -> [freelist : Addresses \cup {NULL},
                                   offset : 0..PageSize, max_offset : 0..PageSize]]
BY DEF Typed

\* A pointer to no bytes is taken from the list or from the page.
LEMMA RequestZero ==
    ASSUME IInv, PopFree(0) \/ Cut(0) \/ Refuse(0)
    PROVE  IInv'
<1> USE TwoClasses, Known, SizesAssumption, PointersAssumption DEF IInv
<1> DEFINE p == bucketlist[0]
<1>1. p # NULL /\ p \in Pages /\ p # bucketlist[1]
  BY SamePages DEF PopFree, Cut, Refuse, PagesGiven
<1>2. ~Refuse(0)
  BY <1>1 DEF Refuse, Full, ZeroClass
<1>3. /\ UNCHANGED <<bucketlist, available_bucket_index, memory, freed>>
      /\ result' = Pointer(p) /\ held' = [held EXCEPT ![Pointer(p)] = @ + 1]
      /\ Pointer(p) \in Addresses /\ Pointer(p) \in Blocks(p)
      /\ bucket' = bucket \/ bucket' = [bucket EXCEPT ![p].freelist = memory[Pointer(p)]]
  <2>1. CASE PopFree(0)
    <3>1. bucket[p].freelist = Pointer(p)
      BY <1>1, <2>1 DEF PopFree, ZeroClass
    <3>2. Pointer(p) \in Addresses /\ Pointer(p) \in Blocks(p)
      BY <1>1 DEF Pointer
    <3> QED
      BY <1>1, <2>1, <3>1, <3>2 DEF PopFree, Return
  <2>2. CASE Cut(0)
    <3>4. Pointer(p) \in Addresses /\ Pointer(p) \in Blocks(p)
      BY <1>1 DEF Pointer
    <3>1. Return(<<p, bucket[p].offset>>) /\ bucket[p].offset = Header
      BY <1>1, <2>2 DEF Cut, ZeroClass
    <3>2. bucket' = [bucket EXCEPT ![p].offset = @ + 0]
      BY <1>1, <2>2 DEF Cut
    <3>3. bucket' = bucket
      BY <1>1, <3>1, <3>2 DEF Typed
    <3> QED
      BY <1>1, <2>2, <3>1, <3>3, <3>4 DEF Cut, Return, Pointer
  <2> QED
    BY <1>2, <2>1, <2>2
<1>4. PagesGiven'
  BY <1>1, <1>3, SamePages
<1>5. Typed'
  BY <1>1, <1>3 DEF Typed, ZeroClass
<1>6. /\ \A q \in Pages : q # p => bucket'[q] = bucket[q]
      /\ \A a \in Addresses : a[1] # p => held'[a] = held[a] /\ memory'[a] = memory[a]
  BY <1>1, <1>3 DEF Typed, Pointer
<1>7. Untouched' /\ Listed' /\ Accounted'
  BY <1>1, <1>3, <1>6, OtherClass
<1>8. ZeroClass'
  BY <1>1, <1>3 DEF ZeroClass, Typed
<1>9. Refused'
  BY <1>3 DEF Refused
<1> QED
  BY <1>4, <1>5, <1>7, <1>8, <1>9

\* A block is taken from the list.
LEMMA PopFreeOne ==
    ASSUME IInv, PopFree(1)
    PROVE  IInv'
<1> USE DEF IInv
<1> DEFINE p == bucketlist[1]
           b == freed[1]
<1>1. p # NULL /\ p \in Pages /\ p # bucketlist[0]
  BY SamePages, TwoClasses, Known, SizesAssumption, PointersAssumption DEF PopFree, PagesGiven
<1>2. /\ freed \in Seq(Blocks(p)) /\ freed # <<>> /\ b = bucket[p].freelist
      /\ b \in Blocks(p) /\ b \in Addresses /\ b[1] = p
      /\ 1 \in 1..Len(freed) /\ held[b] = 0
  BY <1>1, TwoClasses, Known, SizesAssumption, PointersAssumption, SMTT(30)
     DEF PopFree, Listed, Blocks
<1>3. /\ UNCHANGED <<bucketlist, available_bucket_index, memory>>
      /\ result' = b /\ held' = [held EXCEPT ![b] = @ + 1]
      /\ bucket' = [bucket EXCEPT ![p].freelist = memory[b]]
      /\ freed' = Tail(freed)
  BY <1>1, <1>2, TwoClasses, Known, SizesAssumption, PointersAssumption DEF PopFree, Return
<1>4. /\ Tail(freed) \in Seq(Blocks(p)) /\ Len(Tail(freed)) = Len(freed) - 1
      /\ \A i \in 1..Len(freed) - 1 : Tail(freed)[i] = freed[i + 1]
      /\ Len(freed) \in Nat
      /\ Tail(freed) = <<>> <=> Len(freed) = 1
  BY <1>2, TailFacts, TwoClasses, Known, SizesAssumption, PointersAssumption
<1>15. /\ freed' \in Seq(Blocks(p)) /\ Len(freed') = Len(freed) - 1
       /\ \A i \in 1..Len(freed) - 1 : freed'[i] = freed[i + 1]
       /\ freed' = <<>> <=> Len(freed) = 1
       /\ Len(freed) \in Nat
  BY <1>3, <1>4, Zenon
<1>5. memory[b] = IF Tail(freed) = <<>> THEN NULL ELSE Tail(freed)[1]
  <2> USE TwoClasses, Known, SizesAssumption, PointersAssumption
  <2>1. memory[b] = IF 1 = Len(freed) THEN NULL ELSE freed[1 + 1]
    BY <1>1, <1>2 DEF Listed
  <2>2. CASE Len(freed) = 1
    <3>1. Tail(freed) = <<>>
      BY <1>4, <2>2
    <3> QED
      BY <2>1, <2>2, <3>1
  <2>3. CASE Len(freed) # 1
    <3>1. 1 \in 1..Len(freed) - 1
      BY <1>2, <1>4, <2>3
    <3>2. Tail(freed)[1] = freed[1 + 1]
      BY <1>4, <3>1
    <3>3. Tail(freed) # <<>>
      BY <1>4, <2>3
    <3> QED
      BY <2>1, <2>3, <3>2, <3>3
  <2> QED
    BY <2>2, <2>3
<1>6. memory[b] \in Addresses \cup {NULL}
  <2> USE TwoClasses, Known, SizesAssumption, PointersAssumption
  <2>1. Tail(freed) # <<>> => 1 \in 1..Len(Tail(freed))
    BY <1>4
  <2>2. Tail(freed) # <<>> => Tail(freed)[1] \in Blocks(p)
    BY <1>4, <2>1
  <2> QED
    BY <1>1, <1>5, <2>2
<1>7. PagesGiven'
  BY <1>1, <1>3, SamePages, TwoClasses, Known, SizesAssumption, PointersAssumption
<1>8. Typed'
  <2> USE TwoClasses, Known, SizesAssumption, PointersAssumption
  <2>1. b \in Blocks(0) \cup Blocks(1)
    BY <1>1, <1>2
  <2>2. bucket' \in [Pages -> [freelist : Addresses \cup {NULL},
                              offset : 0..PageSize, max_offset : 0..PageSize]]
    <3>1. 0 \in 0..PageSize
      OBVIOUS
    <3> QED
      BY <1>1, <1>3, <1>6, <3>1, FreelistTyped
  <2>3. held' \in [Addresses -> Nat]
    BY <1>2, <1>3 DEF Typed
  <2> QED
    BY <1>3, <2>1, <2>2, <2>3 DEF Typed
<1>9. /\ \A q \in Pages : q # p => bucket'[q] = bucket[q]
      /\ \A a \in Addresses : a # b => held'[a] = held[a]
      /\ \A a \in Addresses : a[1] # p => held'[a] = held[a] /\ memory'[a] = memory[a]
      /\ held'[b] = 1 /\ bucket'[p].freelist = memory[b]
      /\ bucket'[p].offset = bucket[p].offset
      /\ bucket'[p].max_offset = bucket[p].max_offset
      /\ bucketlist' = bucketlist
  <2> USE TwoClasses, Known, SizesAssumption, PointersAssumption
  <2>1. /\ \A a \in Addresses : a # b => held'[a] = held[a]
        /\ \A a \in Addresses : a[1] # p => held'[a] = held[a] /\ memory'[a] = memory[a]
        /\ held'[b] = 1
    BY <1>1, <1>2, <1>3 DEF Typed
  <2>2. /\ \A q \in Pages : q # p => bucket'[q] = bucket[q]
        /\ bucket'[p].freelist = memory[b]
        /\ bucket'[p].offset = bucket[p].offset
        /\ bucket'[p].max_offset = bucket[p].max_offset
    BY <1>1, <1>3 DEF Typed
  <2> QED
    BY <1>3, <2>1, <2>2
<1>10. Untouched' /\ ZeroClass'
  BY <1>1, <1>3, <1>9, OtherClass, TwoClasses, Known, SizesAssumption, PointersAssumption
<1>11. \A i \in 1..Len(freed') : freed'[i] = freed[i + 1] /\ i + 1 \in 1..Len(freed)
                                 /\ freed[i + 1] # b /\ freed[i + 1] \in Addresses
  <2> USE TwoClasses, Known, SizesAssumption, PointersAssumption
  <2> SUFFICES ASSUME NEW i \in 1..Len(freed')
               PROVE  /\ freed'[i] = freed[i + 1] /\ i + 1 \in 1..Len(freed)
                      /\ freed[i + 1] # b /\ freed[i + 1] \in Addresses
    OBVIOUS
  <2>1. i \in 1..Len(freed) - 1 /\ i + 1 \in 1..Len(freed) /\ i + 1 # 1
    BY <1>15
  <2>2. freed[i + 1] # b
    BY <1>1, <1>2, <2>1 DEF Listed
  <2>3. freed[i + 1] \in Blocks(p)
    BY <1>1, <2>1, ListedBlocks, Zenon
  <2>4. freed[i + 1] \in Addresses
    BY <1>1, <2>3
  <2>5. freed'[i] = freed[i + 1]
    BY <1>15, <2>1
  <2> QED
    BY <2>1, <2>2, <2>4, <2>5
<1>12. Listed'
  <2>1. bucket'[p].freelist = IF freed' = <<>> THEN NULL ELSE freed'[1]
    BY <1>3, <1>5, <1>9
  <2>2. \A i \in 1..Len(freed') :
           /\ held'[freed'[i]] = 0
           /\ memory'[freed'[i]] = IF i = Len(freed') THEN NULL ELSE freed'[i + 1]
    <3> SUFFICES ASSUME NEW i \in 1..Len(freed')
                 PROVE  /\ held'[freed'[i]] = 0
                        /\ memory'[freed'[i]] =
                              IF i = Len(freed') THEN NULL ELSE freed'[i + 1]
      OBVIOUS
    <3>1. i + 1 = Len(freed) <=> i = Len(freed')
      BY <1>15
    <3>2. i # Len(freed') => freed'[i + 1] = freed[i + 1 + 1]
      BY <1>15, <1>11
    <3>3. /\ held[freed[i + 1]] = 0
          /\ memory[freed[i + 1]] =
                IF i + 1 = Len(freed) THEN NULL ELSE freed[i + 1 + 1]
      BY <1>1, <1>11, ListedBlocks, Zenon
    <3> QED
      BY <1>3, <1>9, <1>11, <3>1, <3>2, <3>3
  <2>3. ASSUME NEW i \in 1..Len(freed'), NEW j \in 1..Len(freed'), freed'[i] = freed'[j]
        PROVE  i = j
    <3>1. /\ i + 1 \in 1..Len(freed) /\ j + 1 \in 1..Len(freed)
          /\ freed[i + 1] = freed[j + 1]
      BY <1>11, <2>3
    <3>2. i + 1 = j + 1
      BY <1>1, <3>1, Zenon DEF Listed
    <3> QED
      BY <3>2
  <2> QED
    BY <1>1, <1>9, <1>15, <2>1, <2>2, <2>3 DEF Listed
<1>13. Accounted'
  <2>1. \A a \in Addresses :
           a[1] = p => /\ held'[a] \in {0, 1}
                       /\ held'[a] = 1 => a[2] >= Header /\ a[2] < bucket[p].offset
    <3>1. b[2] >= Header
      BY <1>2 DEF Blocks
    <3>2. b[2] < bucket[p].offset
      BY <1>1, <1>2 DEF Accounted
    <3> QED
      BY <1>1, <1>2, <1>9, <3>1, <3>2 DEF Accounted
  <2>2. ASSUME NEW a \in Addresses, a[1] = p, held'[a] = 0, a[2] >= Header,
               a[2] < bucket[p].offset
        PROVE  \E i \in 1..Len(freed') : freed'[i] = a
    <3>1. a # b /\ held[a] = 0
      BY <1>9, <2>2
    <3>2. PICK i \in 1..Len(freed) : freed[i] = a
      BY <1>1, <2>2, <3>1 DEF Accounted
    <3>3. i # 1
      BY <3>1, <3>2
    <3>4. i - 1 \in 1..Len(freed) - 1 /\ (i - 1) + 1 = i
      BY <1>15, <3>2, <3>3
    <3>5. freed'[i - 1] = freed[(i - 1) + 1] /\ i - 1 \in 1..Len(freed')
      BY <1>15, <3>4
    <3> QED
      BY <3>2, <3>4, <3>5
  <2>3. ASSUME NEW i \in 1..Len(freed') PROVE freed'[i][2] < bucket[p].offset
    BY <1>1, <1>11, Zenon DEF Accounted
  <2> QED
    BY <1>1, <1>3, <1>9, <2>1, <2>2, <2>3 DEF Accounted
<1>14. Refused'
  BY <1>2, <1>3, TwoClasses, Known, SizesAssumption, PointersAssumption DEF Refused
<1> QED
  BY <1>7, <1>8, <1>10, <1>12, <1>13, <1>14

\* The next block is cut from the page.
LEMMA CutOne ==
    ASSUME IInv, Cut(1)
    PROVE  IInv'
<1> USE TwoClasses, Known, SizesAssumption, PointersAssumption DEF IInv
<1> DEFINE p == bucketlist[1]
           o == bucket[p].offset
           b == <<p, o>>
<1>1. p # NULL /\ p \in Pages /\ p # bucketlist[0]
  BY SamePages DEF Cut, PagesGiven
<1>2. o \in Header + 1..PageSize - 1 /\ bucket[p].max_offset = PageSize
  BY <1>1, SMTT(30) DEF Cut, Accounted, Typed
<1>3. b \in Addresses /\ b \in Blocks(p) /\ b[1] = p /\ b[2] = o
  BY <1>1, <1>2
<1>4. freed = <<>>
  <2>1. freed # <<>> => freed[1] \in Blocks(p)
    BY <1>1, EmptySeq DEF Listed
  <2> QED
    BY <1>1, <2>1 DEF Listed, Cut
<1>5. /\ UNCHANGED <<bucketlist, available_bucket_index, memory, freed>>
      /\ result' = b /\ held' = [held EXCEPT ![b] = @ + 1]
      /\ bucket' = [bucket EXCEPT ![p].offset = @ + 1]
  BY <1>1 DEF Cut, Return
<1>6. held[b] = 0
  BY <1>1, <1>3 DEF Accounted
<1>7. PagesGiven'
  BY <1>1, <1>5, SamePages
<1>8. /\ \A q \in Pages : q # p => bucket'[q] = bucket[q]
      /\ \A a \in Addresses : a # b => held'[a] = held[a]
      /\ \A a \in Addresses : a[1] # p => held'[a] = held[a] /\ memory'[a] = memory[a]
      /\ held'[b] = 1 /\ bucket'[p].freelist = bucket[p].freelist
      /\ bucket'[p].offset = o + 1
      /\ bucket'[p].max_offset = bucket[p].max_offset
      /\ bucketlist' = bucketlist /\ freed' = freed
  BY <1>1, <1>3, <1>5, <1>6 DEF Typed
<1>9. Typed'
  <2>1. b \in Blocks(0) \cup Blocks(1)
    BY <1>1, <1>3
  <2>2. bucket' \in [Pages -> [freelist : Addresses \cup {NULL},
                              offset : 0..PageSize, max_offset : 0..PageSize]]
    <3>1. o + 1 \in 0..PageSize /\ bucket' = [bucket EXCEPT ![p].offset = o + 1]
      BY <1>2, <1>5
    <3> QED
      BY <1>1, <3>1, FreelistTyped
  <2>3. held' \in [Addresses -> Nat]
    BY <1>3, <1>5 DEF Typed
  <2> QED
    BY <1>5, <2>1, <2>2, <2>3 DEF Typed
<1>10. Untouched' /\ ZeroClass'
  BY <1>1, <1>5, <1>8, OtherClass
<1>11. Listed'
  BY <1>1, <1>4, <1>8, EmptySeq DEF Listed
<1>12. Accounted'
  <2> SUFFICES ASSUME NEW a \in Addresses, a[1] = p
               PROVE  /\ held'[a] \in {0, 1}
                      /\ held'[a] = 1 => a[2] >= Header /\ a[2] < o + 1
                      /\ held'[a] = 0 /\ a[2] >= Header /\ a[2] < o + 1
                           => \E i \in 1..Len(freed) : freed[i] = a
    BY <1>1, <1>2, <1>4, <1>8, SMTT(30) DEF Accounted
  <2>1. CASE a = b
    BY <1>2, <1>3, <1>8, <2>1
  <2>2. CASE a # b
    <3>1. a[2] # o
      BY <1>1, <2>2
    <3>2. held'[a] = held[a] /\ a[2] \in 0..PageSize - 1
      BY <1>8, <2>2
    <3> QED
      BY <1>1, <1>2, <3>1, <3>2, SMTT(30) DEF Accounted
  <2> QED
    BY <2>1, <2>2
<1>13. Refused'
  BY <1>3, <1>5 DEF Refused
<1> QED
  BY <1>7, <1>9, <1>10, <1>11, <1>12, <1>13

\* A full page refuses.
LEMMA RefuseOne ==
    ASSUME IInv, Refuse(1)
    PROVE  IInv'
<1> USE TwoClasses, Known, SizesAssumption, PointersAssumption DEF IInv
<1> DEFINE p == bucketlist[1]
<1>1. p # NULL /\ p \in Pages /\ p # bucketlist[0]
  BY SamePages DEF Refuse, PagesGiven
<1>2. UNCHANGED <<bucketlist, available_bucket_index, bucket, memory, held, freed>>
      /\ result' = NULL
  BY DEF Refuse
<1>3. PagesGiven' /\ Typed' /\ ZeroClass' /\ Untouched' /\ Listed' /\ Accounted'
  BY <1>2 DEF PagesGiven, Typed, ZeroClass, Untouched, Listed, Accounted, Blocks
<1>4. freed = <<>>
  <2>1. freed # <<>> => freed[1] \in Blocks(p)
    BY <1>1, EmptySeq DEF Listed
  <2> QED
    BY <1>1, <2>1 DEF Listed, Refuse, Full
<1>5. bucket[p].offset = PageSize
  BY <1>1 DEF Refuse, Full, Accounted, Typed
<1>6. Refused'
  BY <1>1, <1>2, <1>4, <1>5 DEF Refused
<1> QED
  BY <1>3, <1>6

\* A pointer of no bytes is given back.
LEMMA FreeZero ==
    ASSUME IInv, NEW a \in Addresses, r_free(a), a[1] = bucketlist[0]
    PROVE  IInv'
<1> USE TwoClasses, Known, SizesAssumption, PointersAssumption DEF IInv
<1> DEFINE p == bucketlist[0]
<1>1. p # NULL /\ p \in Pages /\ p # bucketlist[1] /\ a = Pointer(p) /\ held[a] > 0
  BY SamePages DEF r_free, PagesGiven, ZeroClass
<1>2. /\ UNCHANGED <<bucketlist, available_bucket_index, freed>> /\ result' = NONE
      /\ memory' = [memory EXCEPT ![a] = bucket[p].freelist]
      /\ held' = [held EXCEPT ![a] = @ - 1]
      /\ bucket' = [bucket EXCEPT ![p].freelist = a]
  BY <1>1 DEF r_free
<1>3. PagesGiven'
  BY <1>1, <1>2, SamePages
<1>4. Typed'
  <2>1. bucket' \in [Pages -> [freelist : Addresses \cup {NULL},
                              offset : 0..PageSize, max_offset : 0..PageSize]]
    <3>1. 0 \in 0..PageSize
      OBVIOUS
    <3> QED
      BY <1>1, <1>2, <3>1, FreelistTyped
  <2>2. held' \in [Addresses -> Nat]
    BY <1>1, <1>2 DEF Typed
  <2> QED
    BY <1>2, <2>1, <2>2 DEF Typed
<1>5. /\ \A q \in Pages : q # p => bucket'[q] = bucket[q]
      /\ \A c \in Addresses : c[1] # p => held'[c] = held[c] /\ memory'[c] = memory[c]
  BY <1>1, <1>2 DEF Typed
<1>6. Untouched' /\ Listed' /\ Accounted'
  BY <1>1, <1>2, <1>5, OtherClass
<1>7. ZeroClass'
  <2>1. \A c \in Addresses : c # a => held'[c] = held[c]
    BY <1>1, <1>2 DEF Typed
  <2>2. memory'[a] \in {NULL, a} /\ bucket'[p].freelist = a
        /\ bucket'[p].offset = Header /\ bucket'[p].max_offset = PageSize
    BY <1>1, <1>2 DEF ZeroClass, Typed
  <2> QED
    BY <1>1, <1>2, <2>1, <2>2 DEF ZeroClass, Pointer
<1>8. Refused'
  BY <1>2 DEF Refused
<1> QED
  BY <1>3, <1>4, <1>6, <1>7, <1>8

\* A block is given back.
LEMMA FreeOne ==
    ASSUME IInv, NEW a \in Addresses, r_free(a), a[1] = bucketlist[1]
    PROVE  IInv'
<1> USE DEF IInv
<1> DEFINE p == bucketlist[1]
<1>1. p # NULL /\ p \in Pages /\ p # bucketlist[0] /\ held[a] = 1
  BY SamePages, TwoClasses, Known, SizesAssumption, PointersAssumption
     DEF r_free, PagesGiven, Accounted
<1>2. /\ UNCHANGED <<bucketlist, available_bucket_index>> /\ result' = NONE
      /\ memory' = [memory EXCEPT ![a] = bucket[p].freelist]
      /\ held' = [held EXCEPT ![a] = @ - 1]
      /\ bucket' = [bucket EXCEPT ![p].freelist = a]
      /\ freed' = <<a>> \o freed
  BY <1>1, TwoClasses, Known, SizesAssumption, PointersAssumption DEF r_free
<1>3. a \in Blocks(p) /\ a[2] < bucket[p].offset
  <2> USE TwoClasses, Known, SizesAssumption, PointersAssumption
  <2>1. a[2] >= Header /\ a[2] < bucket[p].offset
    BY <1>1 DEF Accounted
  <2> QED
    BY <1>1, <2>1
<1>4. /\ freed' \in Seq(Blocks(p)) /\ Len(freed) \in Nat /\ freed' # <<>>
      /\ Len(freed') = Len(freed) + 1
      /\ freed'[1] = a
      /\ \A i \in 1..Len(freed) : freed'[i + 1] = freed[i]
      /\ \A i \in 1..Len(freed) + 1 :
            i # 1 => i - 1 \in 1..Len(freed) /\ freed'[i] = freed[i - 1]
  <2>1. freed \in Seq(Blocks(p))
    BY <1>1 DEF Listed
  <2> DEFINE t == <<a>> \o freed
  <2>2. /\ t \in Seq(Blocks(p)) /\ Len(freed) \in Nat /\ t # <<>>
        /\ Len(t) = Len(freed) + 1 /\ t[1] = a
        /\ \A i \in 1..Len(freed) : t[i + 1] = freed[i]
        /\ \A i \in 1..Len(freed) + 1 :
              i # 1 => i - 1 \in 1..Len(freed) /\ t[i] = freed[i - 1]
    BY <1>3, <2>1, ConsFacts
  <2>3. freed' = t
    BY <1>2
  <2> HIDE DEF t
  <2> QED
    BY <2>2, <2>3
<1>5. PagesGiven'
  BY <1>1, <1>2, SamePages, TwoClasses, Known, SizesAssumption, PointersAssumption
<1>6. Typed'
  <2> USE TwoClasses, Known, SizesAssumption, PointersAssumption
  <2>1. bucket' \in [Pages -> [freelist : Addresses \cup {NULL},
                              offset : 0..PageSize, max_offset : 0..PageSize]]
    <3>1. 0 \in 0..PageSize
      OBVIOUS
    <3> QED
      BY <1>1, <1>2, <3>1, FreelistTyped
  <2>2. held' \in [Addresses -> Nat]
    BY <1>1, <1>2 DEF Typed
  <2> QED
    BY <1>2, <2>1, <2>2 DEF Typed
<1>7. /\ \A q \in Pages : q # p => bucket'[q] = bucket[q]
      /\ \A c \in Addresses : c # a => held'[c] = held[c] /\ memory'[c] = memory[c]
      /\ \A c \in Addresses : c[1] # p => held'[c] = held[c] /\ memory'[c] = memory[c]
      /\ held'[a] = 0 /\ memory'[a] = bucket[p].freelist
      /\ bucket'[p].freelist = a /\ bucketlist' = bucketlist
      /\ bucket'[p].offset = bucket[p].offset
      /\ bucket'[p].max_offset = bucket[p].max_offset
  BY <1>1, <1>2, TwoClasses, Known, SizesAssumption, PointersAssumption DEF Typed
<1>8. Untouched' /\ ZeroClass'
  BY <1>1, <1>2, <1>7, OtherClass, TwoClasses, Known, SizesAssumption, PointersAssumption
<1>9. \A i \in 1..Len(freed) :
         /\ freed[i] # a /\ freed[i] \in Addresses
         /\ held[freed[i]] = 0
         /\ memory[freed[i]] = IF i = Len(freed) THEN NULL ELSE freed[i + 1]
  <2> USE TwoClasses, Known, SizesAssumption, PointersAssumption
  <2>1. \A i \in 1..Len(freed) :
           /\ held[freed[i]] = 0 /\ freed[i] \in Blocks(p)
           /\ memory[freed[i]] = IF i = Len(freed) THEN NULL ELSE freed[i + 1]
    BY <1>1, ListedBlocks, Zenon
  <2> QED
    BY <1>1, <2>1
<1>10. \A i \in 1..Len(freed') :
          /\ held'[freed'[i]] = 0
          /\ memory'[freed'[i]] = IF i = Len(freed') THEN NULL ELSE freed'[i + 1]
  <2> SUFFICES ASSUME NEW i \in 1..Len(freed) + 1
               PROVE  /\ held'[freed'[i]] = 0
                      /\ memory'[freed'[i]] =
                            IF i = Len(freed) + 1 THEN NULL ELSE freed'[i + 1]
    BY <1>4
  <2>1. CASE i = 1
    <3>1. bucket[p].freelist = IF freed = <<>> THEN NULL ELSE freed[1]
      BY <1>1 DEF Listed
    <3>2. freed = <<>> <=> Len(freed) = 0
      BY <1>1, EmptyIff DEF Listed
    <3>3. Len(freed) # 0 => freed'[1 + 1] = freed[1]
      BY <1>4
    <3> QED
      BY <1>4, <1>7, <2>1, <3>1, <3>2, <3>3
  <2>2. CASE i # 1
    <3>1. i - 1 \in 1..Len(freed) /\ freed'[i] = freed[i - 1] /\ (i - 1) + 1 = i
      BY <1>4, <2>2
    <3>2. /\ held'[freed'[i]] = 0
          /\ memory'[freed'[i]] = IF i - 1 = Len(freed) THEN NULL ELSE freed[(i - 1) + 1]
      <4>1. /\ freed[i - 1] # a /\ freed[i - 1] \in Addresses
            /\ held[freed[i - 1]] = 0
            /\ memory[freed[i - 1]] =
                  IF i - 1 = Len(freed) THEN NULL ELSE freed[(i - 1) + 1]
        BY <1>9, <3>1
      <4> QED
        BY <1>7, <3>1, <4>1
    <3>3. i - 1 = Len(freed) <=> i = Len(freed) + 1
      BY <1>4
    <3>4. i # Len(freed) + 1 => freed'[i + 1] = freed[i]
      BY <1>4
    <3> QED
      BY <3>1, <3>2, <3>3, <3>4
  <2> QED
    BY <2>1, <2>2
<1>11. \A i, j \in 1..Len(freed') : freed'[i] = freed'[j] => i = j
  <2> SUFFICES ASSUME NEW i \in 1..Len(freed) + 1, NEW j \in 1..Len(freed) + 1,
                      freed'[i] = freed'[j]
               PROVE  i = j
    BY <1>4
  <2>1. CASE i = 1 \/ j = 1
    BY <1>4, <1>9, <2>1
  <2>2. CASE i # 1 /\ j # 1
    <3>1. /\ i - 1 \in 1..Len(freed) /\ j - 1 \in 1..Len(freed)
          /\ freed[i - 1] = freed[j - 1]
      BY <1>4, <2>2
    <3>2. i - 1 = j - 1
      BY <1>1, <3>1 DEF Listed
    <3> QED
      BY <1>4, <3>2
  <2> QED
    BY <2>1, <2>2
<1>12. Listed'
  BY <1>1, <1>4, <1>7, <1>10, <1>11, TwoClasses, Known DEF Listed
<1>13. Accounted'
  <2>1. \A c \in Addresses :
           c[1] = p => /\ held'[c] \in {0, 1}
                       /\ held'[c] = 1 => c[2] >= Header /\ c[2] < bucket[p].offset
    BY <1>1, <1>7 DEF Accounted
  <2>2. ASSUME NEW c \in Addresses, c[1] = p, held'[c] = 0, c[2] >= Header,
               c[2] < bucket[p].offset
        PROVE  \E i \in 1..Len(freed') : freed'[i] = c
    <3>1. CASE c = a
      <4>1. 1 \in 1..Len(freed')
        BY <1>4
      <4> QED
        BY <1>4, <3>1, <4>1
    <3>2. CASE c # a
      <4>1. PICK i \in 1..Len(freed) : freed[i] = c
        BY <1>1, <1>7, <2>2, <3>2 DEF Accounted
      <4>2. i + 1 \in 1..Len(freed')
        BY <1>4
      <4>3. i + 1 \in 1..Len(freed') /\ freed'[i + 1] = c
        BY <1>4, <4>1, <4>2
      <4> QED
        BY <4>3
    <3> QED
      BY <3>1, <3>2
  <2>3. \A i \in 1..Len(freed') : freed'[i][2] < bucket[p].offset
    <3> SUFFICES ASSUME NEW i \in 1..Len(freed) + 1
                 PROVE  freed'[i][2] < bucket[p].offset
      BY <1>4
    <3>1. \A j \in 1..Len(freed) : freed[j][2] < bucket[p].offset
      BY <1>1 DEF Accounted
    <3> QED
      BY <1>3, <1>4, <3>1
  <2>4. bucket[p].offset > Header /\ bucket[p].max_offset = PageSize
    BY <1>1 DEF Accounted
  <2> QED
    BY <1>1, <1>7, <2>1, <2>2, <2>3, <2>4 DEF Accounted
<1>14. Refused'
  BY <1>2, TwoClasses, Known, SizesAssumption, PointersAssumption DEF Refused
<1> QED
  BY <1>5, <1>6, <1>8, <1>12, <1>13, <1>14

\* A caller writes into its block: no block on the list is held.
LEMMA WriteIInv ==
    ASSUME IInv, NEW a \in Addresses, Write(a)
    PROVE  IInv'
<1> USE TwoClasses, Known, SizesAssumption, PointersAssumption DEF IInv
<1> DEFINE p == bucketlist[1]
<1>1. p # NULL /\ p \in Pages /\ p # bucketlist[0] /\ held[a] > 0 /\ a[1] = p
      /\ UNCHANGED <<bucketlist, available_bucket_index, bucket, result, held, freed>>
      /\ memory' = [memory EXCEPT ![a] = DATA]
  BY SamePages DEF Write, PagesGiven
<1>2. /\ \A c \in Addresses : c # a => memory'[c] = memory[c]
      /\ DOMAIN memory' = Addresses
  BY <1>1 DEF Typed
<1>3. PagesGiven' /\ Typed' /\ Accounted' /\ Refused'
  BY <1>1, <1>2 DEF PagesGiven, Typed, Accounted, Refused, Blocks
<1>4. \A c \in Addresses : c[1] # p => held'[c] = held[c] /\ memory'[c] = memory[c]
  BY <1>1, <1>2
<1>5. Untouched' /\ ZeroClass'
  BY <1>1, <1>4, OtherClass
<1>6. Listed'
  <2>1. \A i \in 1..Len(freed) :
           /\ freed[i] # a /\ freed[i] \in Addresses
           /\ held[freed[i]] = 0
           /\ memory[freed[i]] = IF i = Len(freed) THEN NULL ELSE freed[i + 1]
    <3>1. \A i \in 1..Len(freed) :
             /\ held[freed[i]] = 0 /\ freed[i] \in Blocks(p)
             /\ memory[freed[i]] = IF i = Len(freed) THEN NULL ELSE freed[i + 1]
      BY <1>1, ListedBlocks, Zenon
    <3> QED
      BY <1>1, <3>1
  <2>2. \A i \in 1..Len(freed) :
           memory'[freed[i]] = IF i = Len(freed) THEN NULL ELSE freed[i + 1]
    BY <1>2, <2>1
  <2> QED
    BY <1>1, <2>2 DEF Listed
<1> QED
  BY <1>3, <1>5, <1>6

\* Every step preserves the invariant.
LEMMA NextIInv == IInv /\ [Next]_vars => IInv'
<1> SUFFICES ASSUME IInv, [Next]_vars PROVE IInv'
  OBVIOUS
<1>1. CASE UNCHANGED vars
  BY <1>1 DEF vars, IInv, PagesGiven, Typed, ZeroClass, Untouched, Listed,
              Accounted, Refused, Blocks
<1>2. ASSUME NEW s \in Sizes, r_malloc(s) PROVE IInv'
  <2>1. PICK i \in {0, 1} : NewBucket(i) \/ PopFree(i) \/ Cut(i) \/ Refuse(i)
    BY <1>2, TwoClasses DEF r_malloc
  <2>2. CASE i = 0
    BY <2>1, <2>2, NewBucketZero, RequestZero
  <2>3. CASE i = 1
    BY <2>1, <2>3, NewBucketOne, PopFreeOne, CutOne, RefuseOne
  <2> QED
    BY <2>2, <2>3
<1>3. ASSUME NEW a \in Addresses, r_free(a) PROVE IInv'
  <2>1. a[1] = bucketlist[0] \/ a[1] = bucketlist[1]
    <3>1. a[1] \in Pages /\ held[a] > 0
      BY <1>3, Known DEF r_free
    <3>2. ~\A i \in Classes : bucketlist[i] # a[1]
      BY <3>1 DEF IInv, Untouched
    <3> QED
      BY <3>2, TwoClasses
  <2> QED
    BY <1>3, <2>1, FreeZero, FreeOne
<1>4. ASSUME NEW a \in Addresses, Write(a) PROVE IInv'
  BY <1>4, WriteIInv
<1> QED
  BY <1>1, <1>2, <1>3, <1>4 DEF Next

\* The invariant holds in every reachable state.
THEOREM Invariance == Spec => []IInv
BY InitIInv, NextIInv, PTL DEF Spec

-----------------------------------------------------------------------------
\* Every pointer r_malloc returns or r_free stores is one into a page, behind
\* its header.
THEOREM TypeCorrect == Spec => []TypeOK
<1>1. IInv => TypeOK
  <2> SUFFICES ASSUME IInv PROVE TypeOK
    OBVIOUS
  <2> USE TwoClasses, Known, SizesAssumption, PointersAssumption DEF IInv
  <2>1. available_bucket_index \in 0..2
    BY DEF PagesGiven
  <2>2. ASSUME NEW p \in Pages PROVE bucket[p].freelist \in Blocks(p) \cup {NULL}
    <3>1. CASE p = bucketlist[1]
      <4>1. freed # <<>> => freed[1] \in Blocks(p)
        BY <3>1, EmptySeq DEF Listed
      <4> QED
        BY <3>1, <4>1 DEF Listed
    <3>2. CASE p = bucketlist[0]
      BY <3>2 DEF ZeroClass, Pointer
    <3>3. CASE p # bucketlist[0] /\ p # bucketlist[1]
      BY <3>3 DEF Untouched
    <3> QED
      BY <3>1, <3>2, <3>3
  <2>3. \A p \in Pages : bucket[p].offset \in 0..PageSize
    BY DEF Typed
  <2> QED
    BY <2>1, <2>2, <2>3 DEF TypeOK, PagesGiven, Typed
<1> QED
  BY <1>1, Invariance, PTL

\* r_malloc never hands out a block that a caller still holds.
THEOREM NoBlockTwice == Spec => []HeldOnce
<1>1. IInv => HeldOnce
  <2> SUFFICES ASSUME IInv, NEW a \in Addresses, a[1] = bucketlist[1]
               PROVE  held[a] <= 1
    BY DEF HeldOnce
  <2>1. bucketlist[1] # NULL
    BY TwoClasses, Known
  <2>2. held[a] \in {0, 1}
    BY <2>1, ZenonT(40) DEF IInv, Accounted
  <2> QED
    BY <2>2
<1> QED
  BY <1>1, Invariance, PTL

\* The list that runs through the free blocks is what was freed, whatever the
\* callers write into the blocks they hold.
THEOREM TheListIsSound == Spec => []FreeListSound
<1>1. IInv => FreeListSound
  <2> SUFFICES ASSUME IInv, bucketlist[1] # NULL PROVE FreeListSound
    BY DEF FreeListSound
  <2>1. DOMAIN freed = 1..Len(freed)
    BY DEF IInv, Listed
  <2> QED
    BY <2>1 DEF IInv, Listed, FreeListSound
<1> QED
  BY <1>1, Invariance, PTL

\* r_malloc refuses only when every block of the page is held.
THEOREM NoBlockLost == Spec => []RefusesOnlyWhenFull
<1>1. IInv => RefusesOnlyWhenFull
  <2> SUFFICES ASSUME IInv, result = NULL, NEW a \in Blocks(bucketlist[1])
               PROVE  held[a] = 1
    BY DEF RefusesOnlyWhenFull
  <2> USE TwoClasses, Known, SizesAssumption, PointersAssumption DEF IInv
  <2>1. /\ bucketlist[1] # NULL /\ Len(freed) = 0
        /\ bucket[bucketlist[1]].offset = PageSize
    BY DEF Refused
  <2>2. /\ a \in Addresses /\ a[1] = bucketlist[1]
        /\ a[2] >= Header /\ a[2] < PageSize
    BY <2>1 DEF Blocks
  <2>3. held[a] \in {0, 1} /\ (held[a] = 0 => \E i \in 1..Len(freed) : freed[i] = a)
    BY <2>1, <2>2 DEF Accounted
  <2> QED
    BY <2>1, <2>3
<1> QED
  BY <1>1, Invariance, PTL

-----------------------------------------------------------------------------
(* The abstract pool.                                                      *)

\* What callers hold of class 1, and the answer they see.
Taken == {a \in Addresses : a[1] = bucketlist[1] /\ held[a] > 0}
Answer ==
    IF result = NULL \/ \E a \in Addresses : result = a /\ a[1] = bucketlist[1]
    THEN result ELSE NONE

\* What is held of class 1 is behind the header of its page, once.
TakenOnce ==
    /\ \A a \in Taken : a \in Blocks(bucketlist[1]) /\ held[a] = 1
    /\ bucketlist[1] = NULL => Taken = {}
    /\ NONE \notin Addresses \cup {NULL}

LEMMA TakenBlocks == IInv => TakenOnce
<1> SUFFICES ASSUME IInv PROVE TakenOnce
  OBVIOUS
<1> USE TwoClasses, Known, SizesAssumption, PointersAssumption DEF IInv
<1>1. \A a \in Taken : a \in Addresses /\ a[1] = bucketlist[1] /\ held[a] > 0
  BY DEF Taken
<1>2. bucketlist[1] = NULL => Taken = {}
  BY <1>1
<1>3. ASSUME NEW a \in Taken PROVE a \in Blocks(bucketlist[1]) /\ held[a] = 1
  <2>1. held[a] = 1 /\ a[2] >= Header /\ a[2] \in 0..PageSize - 1
    BY <1>1, <1>2 DEF Accounted
  <2> QED
    BY <1>1, <1>2, <2>1
<1>4. NONE \notin Addresses
  BY DEF NONE, Addresses
<1>5. NONE # NULL
  BY DEF Addresses
<1> QED
  BY <1>2, <1>3, <1>4, <1>5 DEF TakenOnce

\* A request of class 1 that is answered with a block.
LEMMA RequestMaps ==
    ASSUME IInv, IInv', NEW b \in Blocks(bucketlist'[1]),
           bucketlist[1] = bucketlist'[1] \/ bucketlist[1] = NULL,
           bucketlist[0] = bucketlist'[0],
           bucketlist'[1] \in Pages, held' = [held EXCEPT ![b] = @ + 1], result' = b
    PROVE  P!Request
<1> DEFINE p == bucketlist'[1]
<1>0. TakenOnce /\ TakenOnce'
  BY TakenBlocks, PTL
<1>1. /\ b \in Addresses /\ b[1] = p /\ held \in [Addresses -> Nat]
      /\ held'[b] = held[b] + 1 /\ \A a \in Addresses : a # b => held'[a] = held[a]
  BY Known DEF IInv, Typed, Blocks
<1>2. held'[b] = 1 /\ held[b] = 0
  <2>1. b \in Taken'
    BY <1>1 DEF Taken
  <2>2. held'[b] = 1
    BY <1>0, <2>1 DEF TakenOnce
  <2> QED
    BY <1>1, <2>2
<1>3. b \notin Taken /\ Taken \subseteq Taken'
  BY <1>0, <1>1, <1>2 DEF Taken, TakenOnce
<1>4. Taken' = Taken \cup {b}
  <2>1. CASE bucketlist[1] = p
    BY <1>1, <1>2, <2>1 DEF Taken
  <2>2. CASE bucketlist[1] = NULL
    <3>1. p # bucketlist[0] /\ p # bucketlist[1]
      BY <2>2, TwoClasses, Known DEF IInv, PagesGiven
    <3>2. \A a \in Addresses : a[1] = p => held[a] = 0
      BY <3>1, TwoClasses DEF IInv, Untouched
    <3>3. Taken = {}
      BY <1>0, <2>2 DEF TakenOnce
    <3>4. \A a \in Taken' : a = b
      BY <1>1, <3>2 DEF Taken
    <3> QED
      BY <1>3, <3>3, <3>4, <1>1, <1>2 DEF Taken
  <2> QED
    BY <2>1, <2>2
<1>5. Answer' = b
  BY <1>1 DEF Answer
<1>6. Taken' \subseteq Blocks(p)
  BY <1>0 DEF TakenOnce
<1>7. b \in UNION {Blocks(q) : q \in Pages}
  OBVIOUS
<1>8. /\ b \in (UNION {Blocks(q) : q \in Pages}) \ Taken
      /\ Taken' = Taken \cup {b} /\ Answer' = b
      /\ \E pool \in {Blocks(q) : q \in Pages} : Taken' \subseteq pool
  BY <1>3, <1>4, <1>5, <1>6, <1>7
<1> QED
  BY <1>8, Zenon DEF P!Request, Taken, Answer

\* The initial state is one of the pool.
LEMMA InitMaps == Init => P!Init
<1> SUFFICES ASSUME Init PROVE P!Init
  OBVIOUS
<1>1. Taken = {} /\ Answer = NONE
  BY TwoClasses, PointersAssumption DEF Init, Taken, Answer, Addresses
<1> QED
  BY <1>1 DEF P!Init, Taken, Answer

\* A step on a page of class 0 is none of the pool's business.
LEMMA OtherMaps ==
    ASSUME IInv, IInv', bucketlist'[1] = bucketlist[1],
           \A a \in Addresses : a[1] = bucketlist[1] => held'[a] = held[a],
           \/ result' = NONE
           \/ result' # NULL /\ \A a \in Addresses : result' = a => a[1] # bucketlist[1]
    PROVE  P!Other
<1>1. Taken' = Taken
  BY DEF Taken
<1>2. Answer' = NONE
  BY DEF Answer
<1> QED
  BY <1>1, <1>2, Zenon DEF P!Other, Taken, Answer

\* The first request of a class.
LEMMA NewBucketMaps ==
    ASSUME IInv, IInv', NEW i \in {0, 1}, NewBucket(i)
    PROVE  P!Next
<1> USE TwoClasses, Known, SizesAssumption, PointersAssumption DEF IInv
<1> DEFINE q == available_bucket_index
<1>1. /\ q \in Pages /\ bucketlist' = [bucketlist EXCEPT ![i] = q] /\ bucketlist[i] = NULL
      /\ result' = <<q, Header>> /\ held' = [held EXCEPT ![<<q, Header>>] = @ + 1]
      /\ bucketlist[1] # q /\ <<q, Header>> \in Blocks(q) /\ <<q, Header>> \in Addresses
  BY DEF NewBucket, Return, PagesGiven
<1>2. CASE i = 0
  <2>1. bucketlist'[1] = bucketlist[1]
    BY <1>1, <1>2 DEF PagesGiven
  <2>2. \A a \in Addresses : a[1] = bucketlist[1] => held'[a] = held[a]
    BY <1>1 DEF Typed
  <2>3. result' # NULL /\ \A a \in Addresses : result' = a => a[1] # bucketlist[1]
    BY <1>1
  <2>4. P!Other
    BY <2>1, <2>2, <2>3, OtherMaps
  <2> QED
    BY <2>4 DEF P!Next
<1>3. CASE i = 1
  <2>1. bucketlist'[1] = q /\ bucketlist'[0] = bucketlist[0]
    BY <1>1, <1>3 DEF PagesGiven
  <2>2. P!Request
    BY <1>1, <1>3, <2>1, RequestMaps
  <2> QED
    BY <2>2 DEF P!Next
<1> QED
  BY <1>2, <1>3

\* A request of a class that has its page.
LEMMA AgainMaps ==
    ASSUME IInv, IInv', NEW i \in {0, 1}, PopFree(i) \/ Cut(i)
    PROVE  P!Next
<1> USE TwoClasses, Known, SizesAssumption, PointersAssumption DEF IInv
<1> DEFINE p == bucketlist[i]
<1>1. p # NULL /\ p \in Pages /\ bucketlist' = bucketlist
  BY DEF PopFree, Cut, PagesGiven
<1>2. PICK b : result' = b /\ held' = [held EXCEPT ![b] = @ + 1] /\ b \in Blocks(p)
  <2>1. CASE PopFree(i)
    <3>1. bucket[p].freelist # NULL /\ Return(bucket[p].freelist)
      BY <2>1 DEF PopFree
    <3>2. bucket[p].freelist \in Blocks(p)
      <4>1. CASE i = 0
        BY <1>1, <3>1, <4>1 DEF ZeroClass, Pointer
      <4>2. CASE i = 1
        <5>1. freed # <<>> => freed[1] \in Blocks(p)
          BY <1>1, <4>2, EmptySeq DEF Listed
        <5> QED
          BY <1>1, <3>1, <4>2, <5>1 DEF Listed
      <4> QED
        BY <4>1, <4>2
    <3> QED
      BY <3>1, <3>2 DEF Return
  <2>2. CASE Cut(i)
    <3>1. bucket[p].offset < bucket[p].max_offset /\ Return(<<p, bucket[p].offset>>)
      BY <2>2 DEF Cut
    <3>2. bucket[p].offset \in Header..PageSize - 1
      <4>1. CASE i = 0
        BY <1>1, <4>1 DEF ZeroClass
      <4>2. CASE i = 1
        <5>1. /\ bucket[p].offset > Header /\ bucket[p].offset < PageSize
              /\ bucket[p].offset \in Nat
          BY <1>1, <3>1, <4>2 DEF Accounted, Typed
        <5> QED
          BY <5>1
      <4> QED
        BY <4>1, <4>2
    <3>3. <<p, bucket[p].offset>> \in Blocks(p)
      BY <1>1, <3>2
    <3> QED
      BY <3>1, <3>3 DEF Return
  <2> QED
    BY <2>1, <2>2
<1>3. b \in Addresses /\ b[1] = p
  BY <1>1, <1>2 DEF Blocks
<1>4. CASE i = 0
  <2>1. p # bucketlist[1]
    BY <1>1, <1>4 DEF PagesGiven
  <2>2. \A a \in Addresses : a[1] = bucketlist[1] => held'[a] = held[a]
    BY <1>2, <1>3, <2>1 DEF Typed
  <2>3. result' # NULL /\ \A a \in Addresses : result' = a => a[1] # bucketlist[1]
    BY <1>2, <1>3, <2>1
  <2>4. P!Other
    BY <1>1, <2>2, <2>3, OtherMaps
  <2> QED
    BY <2>4 DEF P!Next
<1>5. CASE i = 1
  <2>1. P!Request
    BY <1>1, <1>2, <1>5, RequestMaps
  <2> QED
    BY <2>1 DEF P!Next
<1> QED
  BY <1>4, <1>5

\* A refusal: class 0 never refuses.
LEMMA RefuseMaps ==
    ASSUME IInv, IInv', NEW i \in {0, 1}, Refuse(i)
    PROVE  P!Next
<1> USE TwoClasses, Known, SizesAssumption, PointersAssumption DEF IInv
<1> DEFINE p == bucketlist[1]
<1>1. i = 1
  BY DEF Refuse, Full, ZeroClass
<1>2. /\ p # NULL /\ p \in Pages /\ result' = NULL /\ bucketlist' = bucketlist
      /\ held' = held
  BY <1>1 DEF Refuse, PagesGiven
<1>3. freed' = <<>> /\ bucket'[p].offset = PageSize
  BY <1>2 DEF Refused
<1>4. freed = <<>> /\ bucket[p].offset = PageSize
  BY <1>3 DEF Refuse
<1>5. ASSUME NEW a \in Blocks(p) PROVE a \in Taken
  <2>1. /\ a \in Addresses /\ a[1] = p /\ a[2] >= Header /\ a[2] < PageSize
    BY <1>2 DEF Blocks
  <2>2. Len(freed) = 0
    BY <1>4
  <2>3. held[a] = 1
    BY <1>2, <1>4, <2>1, <2>2 DEF Accounted
  <2> QED
    BY <2>1, <2>3 DEF Taken
<1>6. TakenOnce
  BY TakenBlocks
<1>7. Taken = Blocks(p)
  BY <1>5, <1>6 DEF TakenOnce
<1>8. Taken \in {Blocks(q) : q \in Pages} /\ Taken' = Taken /\ Answer' = NULL
  BY <1>2, <1>7 DEF Taken, Answer
<1>9. P!Refuse
  BY <1>8, Zenon DEF P!Refuse, Taken, Answer
<1> QED
  BY <1>9 DEF P!Next

\* A block, or a pointer of no bytes, is given back.
LEMMA FreeMaps ==
    ASSUME IInv, IInv', NEW a \in Addresses, r_free(a)
    PROVE  P!Next
<1> USE Known DEF IInv
<1>1. /\ held[a] > 0 /\ held' = [held EXCEPT ![a] = @ - 1] /\ result' = NONE
      /\ bucketlist' = bucketlist /\ held \in [Addresses -> Nat]
  BY DEF r_free, Typed
<1>2. CASE a[1] # bucketlist[1]
  <2>1. \A c \in Addresses : c[1] = bucketlist[1] => held'[c] = held[c]
    BY <1>1, <1>2
  <2>2. P!Other
    BY <1>1, <2>1, OtherMaps
  <2> QED
    BY <2>2 DEF P!Next
<1>3. CASE a[1] = bucketlist[1]
  <2>1. TakenOnce
    BY TakenBlocks
  <2>2. a \in Taken
    BY <1>1, <1>3 DEF Taken
  <2>3. held'[a] = 0 /\ \A c \in Addresses : c # a => held'[c] = held[c]
    BY <1>1, <2>1, <2>2 DEF TakenOnce
  <2>4. Taken' = Taken \ {a}
    BY <1>1, <2>3 DEF Taken
  <2>5. Answer' = NONE
    BY <1>1 DEF Answer
  <2>6. P!Free
    BY <2>2, <2>4, <2>5, Zenon DEF P!Free, Taken, Answer
  <2> QED
    BY <2>6 DEF P!Next
<1> QED
  BY <1>2, <1>3

\* Every step of the allocator is a step of the pool or none.
LEMMA NextMaps == IInv /\ IInv' /\ [Next]_vars => [P!Next]_P!vars
<1> SUFFICES ASSUME IInv, IInv', [Next]_vars PROVE P!Next \/ UNCHANGED P!vars
  OBVIOUS
<1>1. ASSUME UNCHANGED <<bucketlist, result, held>> PROVE UNCHANGED P!vars
  BY <1>1 DEF P!vars
<1>2. CASE UNCHANGED vars
  BY <1>1, <1>2 DEF vars
<1>3. ASSUME NEW s \in Sizes, r_malloc(s) PROVE P!Next
  <2>1. PICK i \in {0, 1} : NewBucket(i) \/ PopFree(i) \/ Cut(i) \/ Refuse(i)
    BY <1>3, TwoClasses DEF r_malloc
  <2> QED
    BY <2>1, NewBucketMaps, AgainMaps, RefuseMaps
<1>4. ASSUME NEW a \in Addresses, r_free(a) PROVE P!Next
  BY <1>4, FreeMaps
<1>5. ASSUME NEW a \in Addresses, Write(a) PROVE UNCHANGED P!vars
  BY <1>1, <1>5 DEF Write
<1> QED
  BY <1>2, <1>3, <1>4, <1>5 DEF Next

\* r_malloc and r_free are a pool of equal blocks, for every page size.
THEOREM ImplementsPool == Spec => IsAPool
BY InitMaps, NextMaps, Invariance, PTL DEF Spec, IsAPool, P!Spec
=============================================================================
