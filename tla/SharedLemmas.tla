---------------------------- MODULE SharedLemmas ----------------------------
(***************************************************************************)
(* Facts that the proofs of the components share.  About numbers: a set of *)
(* numbers has a smallest one, and a recursive definition that takes each  *)
(* value from the one before it has a function that satisfies it.  About   *)
(* Counting: how counts change when a sequence is put together or taken    *)
(* apart, and when one of several functions changes.                       *)
(***************************************************************************)
EXTENDS Integers, Counting, SequenceTheorems, FiniteSetTheorems, WellFoundedInduction,
        TLAPS

\* A set of numbers has a smallest one.
LEMMA Smallest ==
    ASSUME NEW T, T \subseteq Nat, T # {}
    PROVE  \E i \in T : \A j \in T : i <= j
<1> DEFINE R == OpToRel(<, Nat)
<1>1. IsWellFoundedOn(R, Nat)
  BY NatLessThanWellFounded
<1>2. PICK i \in T : \A j \in T : ~(<<j, i>> \in R)
  BY <1>1, WFMin
<1>3. \A j \in T : ~(j < i)
  BY <1>2 DEF OpToRel
<1> QED
  BY <1>3

-----------------------------------------------------------------------------
(* Iteration: f starts at t, and s[n] takes each value to the n-th. *)

Iterates(f, t, s, n) == f[0] = t /\ \A i \in 1..n : f[i] = s[i][f[i - 1]]

Recurs(f, t, s) == f[0] = t /\ \A n \in Nat \ {0} : f[n] = s[n][f[n - 1]]

\* So far there is one such function,
LEMMA IterationExists ==
    ASSUME NEW V, NEW t \in V, NEW s \in [Nat -> [V -> V]], NEW n \in Nat
    PROVE  \E f \in [0..n -> V] : Iterates(f, t, s, n)
<1> DEFINE T == {k \in Nat : ~\E f \in [0..k -> V] : Iterates(f, t, s, k)}
<1>1. SUFFICES T = {}
  OBVIOUS
<1>2. SUFFICES ASSUME T # {} PROVE FALSE
  OBVIOUS
<1>3. PICK k \in T : \A j \in T : k <= j
  BY <1>2, Smallest
<1>4. k # 0
  <2>1. [i \in 0..0 |-> t] \in [0..0 -> V] /\ Iterates([i \in 0..0 |-> t], t, s, 0)
    BY DEF Iterates
  <2> QED
    BY <2>1
<1>5. k - 1 \in Nat /\ k - 1 \notin T
  BY <1>3, <1>4
<1>6. PICK g \in [0..k - 1 -> V] : Iterates(g, t, s, k - 1)
  BY <1>5
<1> DEFINE f == [i \in 0..k |-> IF i = k THEN s[k][g[k - 1]] ELSE g[i]]
<1>7. g[k - 1] \in V /\ s[k] \in [V -> V]
  BY <1>5
<1>8. f \in [0..k -> V]
  BY <1>7
<1>9. f[0] = t
  BY <1>4, <1>6 DEF Iterates
<1>10. ASSUME NEW i \in 1..k PROVE f[i] = s[i][f[i - 1]]
  <2>1. i - 1 \in 0..k - 1 /\ f[i - 1] = g[i - 1]
    OBVIOUS
  <2>2. CASE i = k
    BY <2>1, <2>2
  <2>3. CASE i # k
    <3>1. i \in 1..k - 1 /\ f[i] = g[i]
      BY <2>3
    <3> QED
      BY <1>6, <2>1, <3>1 DEF Iterates
  <2> QED
    BY <2>2, <2>3
<1> HIDE DEF f
<1> QED
  BY <1>8, <1>9, <1>10 DEF Iterates

\* no other one,
LEMMA IterationUnique ==
    ASSUME NEW V, NEW t \in V, NEW s \in [Nat -> [V -> V]], NEW n \in Nat,
           NEW f, Iterates(f, t, s, n),
           NEW m \in Nat, NEW g, Iterates(g, t, s, m), n <= m
    PROVE  \A i \in 0..n : f[i] = g[i]
<1> DEFINE T == {k \in 0..n : f[k] # g[k]}
<1>1. SUFFICES ASSUME T # {} PROVE FALSE
  OBVIOUS
<1>2. PICK k \in T : \A j \in T : k <= j
  <2>1. T \subseteq Nat
    OBVIOUS
  <2> QED
    BY <1>1, <2>1, Smallest
<1>3. k # 0
  BY DEF Iterates
<1>4. k - 1 \in 0..n /\ k - 1 \notin T /\ k \in 1..n /\ k \in 1..m
  BY <1>2, <1>3
<1>5. f[k - 1] = g[k - 1]
  BY <1>4
<1>6. f[k] = s[k][f[k - 1]] /\ g[k] = s[k][g[k - 1]]
  BY <1>4 DEF Iterates
<1> QED
  BY <1>5, <1>6

\* and one for all numbers.
LEMMA IterationForever ==
    ASSUME NEW V, NEW t \in V, NEW s \in [Nat -> [V -> V]]
    PROVE  \E f \in [Nat -> V] : Recurs(f, t, s)
<1> DEFINE F(n) == CHOOSE f \in [0..n -> V] : Iterates(f, t, s, n)
           h == [n \in Nat |-> F(n)[n]]
<1>1. ASSUME NEW n \in Nat PROVE F(n) \in [0..n -> V] /\ Iterates(F(n), t, s, n)
  BY IterationExists
<1> HIDE DEF F
<1>2. h \in [Nat -> V]
  BY <1>1
<1>3. h[0] = t
  BY <1>1 DEF Iterates
<1>4. ASSUME NEW n \in Nat \ {0} PROVE h[n] = s[n][h[n - 1]]
  <2>1. n - 1 \in Nat /\ n - 1 <= n /\ n - 1 \in 0..n - 1 /\ n \in 1..n
    OBVIOUS
  <2>2. F(n - 1)[n - 1] = F(n)[n - 1]
    <3>1. Iterates(F(n - 1), t, s, n - 1) /\ Iterates(F(n), t, s, n)
      BY <1>1, <2>1
    <3>2. \A i \in 0..n - 1 : F(n - 1)[i] = F(n)[i]
      BY <2>1, <3>1, IterationUnique
    <3> QED
      BY <2>1, <3>2
  <2>3. F(n)[n] = s[n][F(n)[n - 1]]
    BY <1>1, <2>1 DEF Iterates
  <2> QED
    BY <2>1, <2>2, <2>3
<1> QED
  BY <1>2, <1>3, <1>4 DEF Recurs

-----------------------------------------------------------------------------
(* Counting. *)

LEMMA OneType == \A b : One(b) \in 0..1 /\ (One(b) = 1 <=> b)
  BY DEF One

-----------------------------------------------------------------------------
(* One function or sequence. *)

LEMMA PlacesFinite ==
    ASSUME NEW f, IsFiniteSet(DOMAIN f), NEW e
    PROVE  /\ IsFiniteSet(Places(f, e)) /\ Occ(f, e) \in Nat
           /\ Occ(f, e) > 0 <=> \E x \in DOMAIN f : f[x] = e
<1>1. Places(f, e) \in SUBSET DOMAIN f
  BY DEF Places
<1>2. IsFiniteSet(Places(f, e))
  BY <1>1, FS_Subset
<1>3. Occ(f, e) \in Nat /\ (Occ(f, e) = 0 <=> Places(f, e) = {})
  BY <1>2, FS_CardinalityType, FS_EmptySet DEF Occ
<1> QED
  BY <1>2, <1>3 DEF Places

LEMMA SeqFinite ==
    ASSUME NEW S, NEW s \in Seq(S)
    PROVE  IsFiniteSet(DOMAIN s) /\ Len(s) \in Nat /\ DOMAIN s = 1..Len(s)
  BY FS_Interval

LEMMA OccType ==
    ASSUME NEW S, NEW s \in Seq(S), NEW e
    PROVE  /\ Occ(s, e) \in Nat
           /\ Occ(s, e) > 0 <=> \E i \in 1..Len(s) : s[i] = e
  BY SeqFinite, PlacesFinite

\* As many members in one set as in another, when it is that one moved.
LEMMA Moved ==
    ASSUME NEW A, IsFiniteSet(A), A \subseteq Int, NEW B, B \subseteq Int, NEW d \in Int,
           \A x \in Int : x \in B <=> x - d \in A
    PROVE  IsFiniteSet(B) /\ Cardinality(B) = Cardinality(A)
<1> DEFINE f == [x \in A |-> x + d]
<1>1. f \in [A -> B]
  BY Z3
<1>2. \A x, y \in A : f[x] = f[y] => x = y
  BY Z3
<1>3. ASSUME NEW y \in B PROVE \E x \in A : f[x] = y
  <2>1. y - d \in A /\ f[y - d] = y
    BY Z3
  <2> QED
    BY <2>1
<1>4. f \in Bijection(A, B)
  BY <1>1, <1>2, <1>3 DEF Bijection, Injection, Surjection, IsInjective
<1> QED
  BY <1>4, FS_Bijection DEF ExistsBijection

LEMMA OccConcat ==
    ASSUME NEW S, NEW s \in Seq(S), NEW t \in Seq(S), NEW e
    PROVE  Occ(s \o t, e) = Occ(s, e) + Occ(t, e)
<1> DEFINE T == {i \in Len(s) + 1..Len(s) + Len(t) : t[i - Len(s)] = e}
<1>1. Len(s) \in Nat /\ Len(t) \in Nat /\ s \o t \in Seq(S) /\ Len(s \o t) = Len(s) + Len(t)
  OBVIOUS
<1>2. Places(s \o t, e) = Places(s, e) \cup T
  <2>1. \A i \in 1..Len(s) + Len(t) :
           (s \o t)[i] = IF i <= Len(s) THEN s[i] ELSE t[i - Len(s)]
    OBVIOUS
  <2>2. Places(s \o t, e) = {i \in 1..Len(s) + Len(t) : (s \o t)[i] = e}
    BY <1>1 DEF Places
  <2>3. Places(s, e) = {i \in 1..Len(s) : s[i] = e}
    BY DEF Places
  <2> QED
    BY <1>1, <2>1, <2>2, <2>3
<1>3. Places(s, e) \cap T = {}
  BY <1>1 DEF Places
<1>4. IsFiniteSet(Places(s, e)) /\ IsFiniteSet(Places(t, e))
  BY SeqFinite, PlacesFinite
<1>5. IsFiniteSet(T) /\ Cardinality(T) = Cardinality(Places(t, e))
  <2>1. Places(t, e) = {i \in 1..Len(t) : t[i] = e}
    BY DEF Places
  <2>2. \A x \in Int : x \in T <=> x - Len(s) \in Places(t, e)
    BY <1>1, <2>1
  <2>3. T \subseteq Int /\ Places(t, e) \subseteq Int
    BY <1>1, <2>1
  <2> DEFINE A == Places(t, e)
             d == Len(s)
  <2>4. IsFiniteSet(A) /\ A \subseteq Int /\ d \in Int /\ T \subseteq Int
    BY <1>1, <1>4, <2>3
  <2>5. \A x \in Int : x \in T <=> x - d \in A
    BY <2>2
  <2> HIDE DEF T, A, d
  <2>6. IsFiniteSet(T) /\ Cardinality(T) = Cardinality(A)
    BY <2>4, <2>5, Moved
  <2> QED
    BY <2>6 DEF A
<1> HIDE DEF T
<1>6. Cardinality(Places(s, e)) \in Nat /\ Cardinality(T) \in Nat /\ Cardinality({}) = 0
  BY <1>4, <1>5, FS_CardinalityType, FS_EmptySet
<1> DEFINE A == Places(s, e)
<1>7. IsFiniteSet(A) /\ IsFiniteSet(T) /\ A \cap T = {}
  BY <1>3, <1>4, <1>5
<1> HIDE DEF A
<1>8. Cardinality(A \cup T) = Cardinality(A) + Cardinality(T) - Cardinality(A \cap T)
  BY <1>7, FS_Union
<1>9. Cardinality(A \cup T) = Cardinality(A) + Cardinality(T)
  <2>1. Cardinality(A) \in Nat /\ Cardinality(T) \in Nat
    BY <1>6 DEF A
  <2>2. Cardinality(A \cap T) = 0
    BY <1>6, <1>7
  <2> QED
    BY <1>8, <2>1, <2>2
<1> QED
  BY <1>2, <1>5, <1>9 DEF Occ, A

LEMMA OccShort ==
    ASSUME NEW x, NEW e
    PROVE  Occ(<<>>, e) = 0 /\ Occ(<<x>>, e) = One(x = e)
<1>1. Places(<<>>, e) = {}
  BY DEF Places
<1>2. Places(<<x>>, e) = IF x = e THEN {1} ELSE {}
  BY DEF Places
<1> QED
  BY <1>1, <1>2, FS_EmptySet, FS_Singleton DEF Occ, One

LEMMA OccAppend ==
    ASSUME NEW S, NEW s \in Seq(S), NEW x \in S, NEW e
    PROVE  /\ Occ(Append(s, x), e) = Occ(s, e) + One(x = e)
           /\ Occ(<<x>> \o s, e) = Occ(s, e) + One(x = e)
<1>1. Append(s, x) = s \o <<x>> /\ <<x>> \in Seq(S)
  OBVIOUS
<1>2. Occ(s \o <<x>>, e) = Occ(s, e) + Occ(<<x>>, e)
  BY <1>1, OccConcat
<1>3. Occ(<<x>> \o s, e) = Occ(<<x>>, e) + Occ(s, e)
  BY <1>1, OccConcat
<1> QED
  BY <1>1, <1>2, <1>3, OccShort, OccType, OneType

LEMMA OccTail ==
    ASSUME NEW S, NEW s \in Seq(S), s # <<>>, NEW e
    PROVE  Occ(s, e) = One(Head(s) = e) + Occ(Tail(s), e)
<1> DEFINE h == Head(s)
           t == Tail(s)
<1>1. s = <<h>> \o t /\ h \in S /\ t \in Seq(S)
  OBVIOUS
<1> HIDE DEF h, t
<1>2. Occ(<<h>> \o t, e) = Occ(t, e) + One(h = e)
  BY <1>1, OccAppend
<1>3. Occ(t, e) \in Nat /\ One(h = e) \in Nat
  BY <1>1, OccType, OneType
<1>4. Occ(s, e) = One(h = e) + Occ(t, e)
  BY <1>1, <1>2, <1>3
<1> QED
  BY <1>4 DEF h, t

-----------------------------------------------------------------------------
(* The part of a sequence from j on. *)

OccFrom(s, j, e) == Cardinality({i \in j..Len(s) : s[i] = e})

LEMMA FromType ==
    ASSUME NEW S, NEW s \in Seq(S), NEW j \in Nat \ {0}, NEW e
    PROVE  /\ OccFrom(s, j, e) \in Nat
           /\ OccFrom(s, j, e) > 0 <=> \E i \in j..Len(s) : s[i] = e
           /\ OccFrom(s, 1, e) = Occ(s, e)
<1> DEFINE T == {i \in j..Len(s) : s[i] = e}
<1>1. IsFiniteSet(j..Len(s)) /\ T \in SUBSET (j..Len(s)) /\ DOMAIN s = 1..Len(s)
  BY FS_Interval
<1>2. OccFrom(s, j, e) = Cardinality(T) /\ OccFrom(s, 1, e) = Occ(s, e)
  BY <1>1 DEF OccFrom, Occ, Places
<1>3. T # {} <=> \E i \in j..Len(s) : s[i] = e
  OBVIOUS
<1> HIDE DEF T
<1>4. IsFiniteSet(T)
  BY <1>1, FS_Subset
<1>5. Cardinality(T) \in Nat /\ (Cardinality(T) = 0 <=> T = {})
  BY <1>4, FS_CardinalityType, FS_EmptySet
<1> QED
  BY <1>2, <1>3, <1>5

LEMMA FromStep ==
    ASSUME NEW S, NEW s \in Seq(S), NEW j \in 1..Len(s), NEW e
    PROVE  OccFrom(s, j, e) = One(s[j] = e) + OccFrom(s, j + 1, e)
<1> DEFINE T == {i \in j..Len(s) : s[i] = e}
           U == {i \in j + 1..Len(s) : s[i] = e}
<1>1. OccFrom(s, j, e) = Cardinality(T) /\ OccFrom(s, j + 1, e) = Cardinality(U)
  BY DEF OccFrom
<1>2. IsFiniteSet(j + 1..Len(s)) /\ U \in SUBSET (j + 1..Len(s))
  BY FS_Interval
<1>3. T = IF s[j] = e THEN U \cup {j} ELSE U
  OBVIOUS
<1>4. j \notin U
  OBVIOUS
<1> HIDE DEF T, U
<1>5. IsFiniteSet(U)
  BY <1>2, FS_Subset
<1>6. Cardinality(U) \in Nat /\ Cardinality(U \cup {j}) = Cardinality(U) + 1
  BY <1>4, <1>5, FS_CardinalityType, FS_AddElement
<1> QED
  BY <1>1, <1>3, <1>6 DEF One

LEMMA FromEnd ==
    ASSUME NEW S, NEW s \in Seq(S), NEW j \in Nat, j > Len(s), NEW e
    PROVE  OccFrom(s, j, e) = 0
<1>1. {i \in j..Len(s) : s[i] = e} = {}
  OBVIOUS
<1> QED
  BY <1>1, FS_EmptySet DEF OccFrom

\* What comes before j counts once more.
LEMMA FromBefore ==
    ASSUME NEW S, NEW s \in Seq(S), NEW j \in Nat \ {0}, NEW e
    PROVE  /\ OccFrom(s, j, e) <= Occ(s, e)
           /\ (\E i \in 1..Len(s) : i < j /\ s[i] = e) => OccFrom(s, j, e) + 1 <= Occ(s, e)
           /\ (\A i \in 1..Len(s) : i < j => s[i] # e) => OccFrom(s, j, e) = Occ(s, e)
<1> DEFINE T == {i \in j..Len(s) : s[i] = e}
           U == {i \in 1..Len(s) : s[i] = e}
<1>1. OccFrom(s, j, e) = Cardinality(T) /\ Occ(s, e) = Cardinality(U)
  <2>1. DOMAIN s = 1..Len(s)
    OBVIOUS
  <2> QED
    BY <2>1 DEF OccFrom, Occ, Places
<1>2. IsFiniteSet(1..Len(s)) /\ U \in SUBSET (1..Len(s)) /\ T \in SUBSET U
  BY FS_Interval
<1>3. \A i \in 1..Len(s) : i < j => i \notin T
  OBVIOUS
<1>4. (\A i \in 1..Len(s) : i < j => s[i] # e) => T = U
  OBVIOUS
<1>5. \A i \in 1..Len(s) : s[i] = e => i \in U
  OBVIOUS
<1> HIDE DEF T, U
<1>6. IsFiniteSet(U) /\ IsFiniteSet(T)
  BY <1>2, FS_Subset
<1>7. /\ Cardinality(U) \in Nat /\ Cardinality(T) \in Nat /\ Cardinality(T) <= Cardinality(U)
      /\ Cardinality(U) = Cardinality(T) => U = T
  BY <1>2, <1>6, FS_CardinalityType, FS_Subset
<1> QED
  BY <1>1, <1>3, <1>4, <1>5, <1>7

\* Other operations in place of the first one leave what comes later as it is.
LEMMA FromShift ==
    ASSUME NEW S, NEW s \in Seq(S), s # <<>>, NEW t \in Seq(S), NEW j \in Nat, j > 1, NEW e
    PROVE  OccFrom(t \o Tail(s), j + Len(t) - 1, e) = OccFrom(s, j, e)
<1> DEFINE d == Len(t) - 1
           u == t \o Tail(s)
           A == {i \in j..Len(s) : s[i] = e}
           B == {i \in j + d..Len(u) : u[i] = e}
<1>1. /\ d \in Int /\ Len(s) \in Nat /\ Len(u) = Len(s) + d
      /\ \A i \in j + d..Len(u) : u[i] = s[i - d]
  <2>1. Tail(s) \in Seq(S) /\ Len(Tail(s)) = Len(s) - 1 /\ Len(s) \in Nat
        /\ \A i \in 1..Len(s) - 1 : Tail(s)[i] = s[i + 1]
    BY HeadTailProperties
  <2>2. Len(u) = Len(t) + Len(s) - 1 /\ Len(t) \in Nat
    BY <2>1
  <2>3. ASSUME NEW i \in j + d..Len(u) PROVE u[i] = s[i - d]
    <3>1. i \in Nat /\ i > Len(t) /\ i <= Len(t) + Len(s) - 1
      BY <2>1, <2>2
    <3>2. u[i] = Tail(s)[i - Len(t)]
      BY <2>1, <2>2, <3>1, ConcatProperties
    <3>3. i - Len(t) \in 1..Len(s) - 1 /\ (i - Len(t)) + 1 = i - d
      BY <2>1, <2>2, <3>1
    <3> QED
      BY <2>1, <3>2, <3>3
  <2> QED
    BY <2>1, <2>2, <2>3
<1>2. IsFiniteSet(j..Len(s))
  BY <1>1, FS_Interval
<1> HIDE DEF d, u
<1>3. \A x \in Int : x \in B <=> x - d \in A
  BY <1>1
<1>8. A \subseteq Int /\ B \subseteq Int /\ A \in SUBSET (j..Len(s))
  BY <1>1
<1>4. OccFrom(u, j + d, e) = Cardinality(B) /\ OccFrom(s, j, e) = Cardinality(A)
  BY DEF OccFrom
<1> HIDE DEF A, B
<1>5. IsFiniteSet(A)
  BY <1>2, <1>8, FS_Subset
<1>6. Cardinality(B) = Cardinality(A)
  BY <1>1, <1>8, <1>3, <1>5, Moved
<1>7. j + d = j + Len(t) - 1
  BY DEF d
<1> QED
  BY <1>4, <1>6, <1>7 DEF u

-----------------------------------------------------------------------------
(* Several functions. *)

Disjoint(X) == UNION {{i} \X X[i] : i \in DOMAIN X}

LEMMA TallyType ==
    ASSUME NEW X, IsFiniteSet(DOMAIN X), \A i \in DOMAIN X : IsFiniteSet(X[i])
    PROVE  /\ IsFiniteSet(Disjoint(X)) /\ Tally(X) \in Nat
           /\ Tally(X) > 0 <=> \E i \in DOMAIN X : X[i] # {}
<1> DEFINE Sets == {{i} \X X[i] : i \in DOMAIN X}
<1>1. IsFiniteSet(Sets)
  <2> DEFINE f == [i \in DOMAIN X |-> {i} \X X[i]]
  <2>1. f \in Surjection(DOMAIN X, Sets)
    BY Zenon DEF Surjection
  <2> HIDE DEF f, Sets
  <2> QED
    BY <2>1, FS_Surjection
<1>2. \A T \in Sets : IsFiniteSet(T)
  <2>1. ASSUME NEW i \in DOMAIN X PROVE IsFiniteSet({i} \X X[i])
    <3> DEFINE S == {i}
               T == X[i]
    <3>1. IsFiniteSet(S) /\ IsFiniteSet(T)
      BY FS_Singleton
    <3> HIDE DEF S, T
    <3>2. IsFiniteSet(S \X T)
      BY <3>1, FS_Product
    <3> QED
      BY <3>2 DEF S, T
  <2> QED
    BY <2>1
<1>3. IsFiniteSet(UNION Sets)
  <2> HIDE DEF Sets
  <2> QED
    BY <1>1, <1>2, FS_UNION
<1>4. IsFiniteSet(Disjoint(X)) /\ Tally(X) = Cardinality(Disjoint(X))
  BY <1>3 DEF Disjoint, Tally
<1>5. Disjoint(X) = {} <=> \A i \in DOMAIN X : X[i] = {}
  <2>1. ASSUME NEW i \in DOMAIN X, NEW x \in X[i] PROVE <<i, x>> \in Disjoint(X)
    BY DEF Disjoint
  <2>2. ASSUME NEW p \in Disjoint(X) PROVE \E i \in DOMAIN X : X[i] # {}
    BY DEF Disjoint
  <2> QED
    BY <2>1, <2>2
<1>6. Cardinality(Disjoint(X)) \in Nat /\ (Cardinality(Disjoint(X)) = 0 <=> Disjoint(X) = {})
  BY <1>4, FS_CardinalityType, FS_EmptySet
<1> QED
  BY <1>4, <1>5, <1>6

\* One more function.
LEMMA TallyMore ==
    ASSUME NEW X, IsFiniteSet(DOMAIN X), \A i \in DOMAIN X : IsFiniteSet(X[i]),
           NEW Y, NEW h, IsFiniteSet(Y[h]), DOMAIN Y = DOMAIN X \cup {h},
           \A i \in DOMAIN X : i # h => Y[i] = X[i], h \in DOMAIN X => X[h] = {}
    PROVE  Tally(Y) = Tally(X) + Cardinality(Y[h])
<1> DEFINE A == Disjoint(X)
           B == {h} \X Y[h]
<1>1. Disjoint(Y) = A \cup B
  BY DEF Disjoint
<1>2. A \cap B = {}
  BY DEF Disjoint
<1>3. IsFiniteSet(A) /\ Tally(X) = Cardinality(A)
  BY TallyType DEF Disjoint, Tally
<1>4. IsFiniteSet(B) /\ Cardinality(B) = Cardinality(Y[h]) /\ Cardinality(Y[h]) \in Nat
  <2>1. IsFiniteSet({h}) /\ Cardinality({h}) = 1
    BY FS_Singleton
  <2>2. IsFiniteSet(B) /\ Cardinality(B) = 1 * Cardinality(Y[h])
    BY <2>1, FS_Product
  <2>3. Cardinality(Y[h]) \in Nat
    BY FS_CardinalityType
  <2> QED
    BY <2>2, <2>3
<1>5. Tally(Y) = Cardinality(A \cup B)
  BY <1>1 DEF Disjoint, Tally
<1> HIDE DEF A, B
<1>6. Cardinality(A) \in Nat /\ Cardinality(A \cap B) = 0
  BY <1>2, <1>3, FS_CardinalityType, FS_EmptySet
<1>7. Cardinality(A \cup B) = Cardinality(A) + Cardinality(B) - Cardinality(A \cap B)
  BY <1>3, <1>4, FS_Union
<1> QED
  BY <1>3, <1>4, <1>5, <1>6, <1>7

\* One function that changes.
LEMMA TallyChange ==
    ASSUME NEW D, IsFiniteSet(D), NEW X, NEW Y, DOMAIN X = D, DOMAIN Y = D,
           \A i \in D : IsFiniteSet(X[i]) /\ IsFiniteSet(Y[i]),
           NEW h \in D, \A i \in D : i # h => Y[i] = X[i]
    PROVE  Tally(Y) + Cardinality(X[h]) = Tally(X) + Cardinality(Y[h])
<1> DEFINE Z == [i \in D |-> IF i = h THEN {} ELSE X[i]]
<1>1. DOMAIN Z = D /\ Z[h] = {} /\ \A i \in D : i # h => Z[i] = X[i] /\ Z[i] = Y[i]
  OBVIOUS
<1>2. \A i \in D : IsFiniteSet(Z[i])
  BY FS_EmptySet
<1> HIDE DEF Z
<1>3. D \cup {h} = D
  OBVIOUS
<1>4. Tally(X) = Tally(Z) + Cardinality(X[h])
  BY <1>1, <1>2, <1>3, TallyMore
<1>5. Tally(Y) = Tally(Z) + Cardinality(Y[h])
  BY <1>1, <1>2, <1>3, TallyMore
<1>6. Tally(Z) \in Nat /\ Cardinality(X[h]) \in Nat /\ Cardinality(Y[h]) \in Nat
  BY <1>1, <1>2, TallyType, FS_CardinalityType
<1> QED
  BY <1>4, <1>5, <1>6
=============================================================================
