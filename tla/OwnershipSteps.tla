--------------------------- MODULE OwnershipSteps ---------------------------
(***************************************************************************)
(* The inductive invariant of Ownership, and why every single operation    *)
(* keeps it, those that a destructor puts in front included.               *)
(***************************************************************************)
EXTENDS Ownership, SharedLemmas, TLAPS

-----------------------------------------------------------------------------
(* Operations. *)

Maybe == Ids \cup {NULL}

Counts == UNION {{INC(o), READ(o), FREED(o), NAME(o)} : o \in Ids}
Drops == {DEC(o) : o \in Maybe}
Puts == {PUT(m, n, v) : m \in Ids, n \in Names, v \in Maybe}
Sets == {SET(o, x, v) : o \in Ids, x \in Names \cup (1..3), v \in Maybe}
Appends == {APPEND(l, v) : l \in Ids, v \in Ids}
Prepends == {PREPEND(l, v) : l \in Ids, v \in Ids}
Op == Counts \cup Drops \cup Puts \cup Sets \cup Appends \cup Prepends

LEMMA OpForms ==
    ASSUME NEW s \in Op
    PROVE  \/ \E o \in Ids : s \in {INC(o), READ(o), FREED(o), NAME(o)}
           \/ \E o \in Maybe : s = DEC(o)
           \/ \E m \in Ids, n \in Names, v \in Maybe : s = PUT(m, n, v)
           \/ \E o \in Ids, x \in Names \cup (1..3), v \in Maybe : s = SET(o, x, v)
           \/ \E l \in Ids, v \in Ids : s \in {APPEND(l, v), PREPEND(l, v)}
<1>1. CASE s \in Counts
  BY <1>1 DEF Counts
<1>2. CASE s \in Drops
  BY <1>2 DEF Drops
<1>3. CASE s \in Puts
  BY <1>3 DEF Puts
<1>4. CASE s \in Sets
  BY <1>4 DEF Sets
<1>5. CASE s \in Appends \cup Prepends
  BY <1>5 DEF Appends, Prepends
<1> QED
  BY <1>1, <1>2, <1>3, <1>4, <1>5 DEF Op

LEMMA OpTypes ==
    /\ \A o \in Ids : INC(o) \in Op /\ READ(o) \in Op /\ FREED(o) \in Op /\ NAME(o) \in Op
    /\ \A o \in Maybe : DEC(o) \in Op
    /\ \A m \in Ids, n \in Names, v \in Maybe : PUT(m, n, v) \in Op
    /\ \A o \in Ids, x \in Names \cup (1..3), v \in Maybe : SET(o, x, v) \in Op
    /\ \A l \in Ids, v \in Ids : APPEND(l, v) \in Op /\ PREPEND(l, v) \in Op
<1>1. ASSUME NEW o \in Ids
      PROVE  INC(o) \in Counts /\ READ(o) \in Counts /\ FREED(o) \in Counts /\ NAME(o) \in Counts
  BY DEF Counts
<1>2. \A o \in Maybe : DEC(o) \in Drops
  BY DEF Drops
<1>3. \A m \in Ids, n \in Names, v \in Maybe : PUT(m, n, v) \in Puts
  BY DEF Puts
<1>4. \A o \in Ids, x \in Names \cup (1..3), v \in Maybe : SET(o, x, v) \in Sets
  BY DEF Sets
<1>5. \A l \in Ids, v \in Ids : APPEND(l, v) \in Appends /\ PREPEND(l, v) \in Prepends
  BY DEF Appends, Prepends
<1> QED
  BY <1>1, <1>2, <1>3, <1>4, <1>5 DEF Op

LEMMA OpEq ==
    ASSUME NEW q
    PROVE  /\ \A o : INC(o) = INC(q) <=> o = q
           /\ \A o : DEC(o) = DEC(q) <=> o = q
           /\ \A o : FREED(o) = FREED(q) <=> o = q
           /\ \A s : s.op # "inc" => s # INC(q)
           /\ \A s : s.op # "dec" => s # DEC(q)
           /\ \A s : s.op # "free" => s # FREED(q)
  BY DEF INC, DEC, FREED

LEMMA OpFields ==
    /\ \A o : /\ INC(o).op = "inc" /\ INC(o).o = o /\ DEC(o).op = "dec" /\ DEC(o).o = o
              /\ READ(o).op = "read" /\ READ(o).o = o /\ FREED(o).op = "free" /\ FREED(o).o = o
              /\ NAME(o).op = "name" /\ NAME(o).o = o
    /\ \A o, x, v : /\ PUT(o, x, v).op = "put" /\ PUT(o, x, v).o = o
                    /\ PUT(o, x, v).x = x /\ PUT(o, x, v).v = v
                    /\ SET(o, x, v).op = "set" /\ SET(o, x, v).o = o
                    /\ SET(o, x, v).x = x /\ SET(o, x, v).v = v
    /\ \A l, v : /\ APPEND(l, v).op = "append" /\ APPEND(l, v).o = l /\ APPEND(l, v).v = v
                 /\ PREPEND(l, v).op = "prepend" /\ PREPEND(l, v).o = l
                 /\ PREPEND(l, v).v = v
  BY DEF INC, DEC, READ, FREED, NAME, PUT, SET, APPEND, PREPEND

-----------------------------------------------------------------------------
(* The invariant, of a heap H, operations T that are left to do, and R[o]    *)
(* references to o from outside the heap.                                    *)

Items == {"value", "static", "function"}
IsA(H, o, ks) == o \in Ids /\ H[o].k \in ks

\* A field of b whose old value was dropped and whose new one is not there yet.
Stale(T, b, x) ==
    \E j \in 1..Len(T) : T[j].op = "set" /\ T[j].o = b /\ T[j].x = x

\* The fields by which b holds o, once it has references itself, and the number
\* of fields that hold o.
Kept(H, T, b, o) ==
    IF H[b].rc > 0 THEN {x \in Places(H[b].f, o) : ~Stale(T, b, x)} ELSE {}
Held(H, T, o) == Tally([b \in Ids |-> Kept(H, T, b, o)])

\* Counts are exact but for what is left to do.
Balanced(H, T, R) ==
    \A o \in Ids :
        H[o].rc + Occ(T, INC(o)) = Held(H, T, o) + R[o] + Occ(T, DEC(o))

\* What has no references is about to be freed, once, or free.
FreedOnce(H, T) ==
    \A o \in Ids :
        /\ Occ(T, FREED(o)) = One(H[o].k # "free" /\ H[o].rc = 0)
        /\ H[o].k = "free" => H[o].rc = 0 /\ H[o].f = <<>>

\* What the operation j needs is still there when it is its turn: there is a
\* set of objects each of which is held by a root, by a reference that is
\* dropped later, or by another one of the set.
Mentioned(s) ==
    {o \in Ids : \/ s.op \in {"inc", "read"} /\ o = s.o
                 \/ s.op \in {"put", "set", "append", "prepend"} /\ (o = s.o \/ o = s.v)}
Steady(T, b) == \A i \in 1..Len(T) : T[i].op \in {"put", "set"} => T[i].o # b
Holds(H, T, b, p, j) ==
    /\ Steady(T, b)
    /\ \/ \E x \in DOMAIN H[b].f : H[b].f[x] = p
       \/ \E i \in 1..Len(T) : i < j /\ T[i] \in {APPEND(b, p), PREPEND(b, p)}
Supported(H, T, R, j, S) ==
    \A p \in S :
        /\ H[p].rc > 0
        /\ OccFrom(T, j, INC(p))
             < R[p] + OccFrom(T, j, DEC(p)) + One(\E b \in S : Holds(H, T, b, p, j))
Safe(H, T, R, j, o) == \E S \in SUBSET Ids : o \in S /\ Supported(H, T, R, j, S)
Guarded(H, T, R) ==
    \A j \in 1..Len(T) : \A o \in Mentioned(T[j]) : Safe(H, T, R, j, o)

\* No two stores into one field, and no map_put that has another one before it.
Alone(T) ==
    \A i, j \in 1..Len(T) :
        i < j /\ T[j].op = "set" /\ T[i].o = T[j].o =>
            /\ T[i].op = "set" => T[i].x # T[j].x
            /\ T[i].op # "put"

\* What the field x of b may lead to, by the type of b.
Accepts(H, b, x, v) ==
    \/ H[b].k = "map" /\ x \in Names /\ (v = NULL \/ IsA(H, v, Items))
    \/ H[b].k = "block" /\ x \in 1..2 /\ IsA(H, v, {"map"})
    \/ H[b].k = "block" /\ x = 3 /\ IsA(H, v, {"list"})
    \/ H[b].k = "function" /\ x = 1 /\ IsA(H, v, {"block"})
    \/ H[b].k = "list" /\ IsA(H, v, Items)

\* The fields that b has, by its type.
Framed(H, b) ==
    \/ H[b].k = "map" /\ DOMAIN H[b].f = Names
    \/ H[b].k = "block" /\ DOMAIN H[b].f = 1..3
    \/ H[b].k = "function" /\ DOMAIN H[b].f = 1..1 /\ H[b].ps \in Params
    \/ H[b].k = "list" /\ H[b].f \in Seq(Ids)
    \/ H[b].k \in {"value", "static"} /\ H[b].f = <<>>

Shaped(H, T, b) ==
    /\ Framed(H, b)
    /\ \A x \in DOMAIN H[b].f :
          H[b].f[x] \in Maybe /\ (Stale(T, b, x) \/ Accepts(H, b, x, H[b].f[x]))

Fits(H, s) ==
    /\ s.op \in {"put", "set"} =>
          s.o \in Ids /\ H[s.o].k # "list" /\ Accepts(H, s.o, s.x, s.v)
    /\ s.op = "put" => H[s.o].k = "map"
    /\ s.op \in {"append", "prepend"} => IsA(H, s.o, {"list"}) /\ IsA(H, s.v, Items)

Formed(H, T, R) ==
    /\ T \in Seq(Op) /\ \A o \in Ids : R[o] \in Nat /\ H[o].rc \in Nat
    /\ \A b \in Ids : H[b].rc > 0 => Shaped(H, T, b)
    /\ \A j \in 1..Len(T) : Fits(H, T[j])

Sound(H, T, R) ==
    Formed(H, T, R) /\ Balanced(H, T, R) /\ FreedOnce(H, T) /\ Guarded(H, T, R) /\ Alone(T)

-----------------------------------------------------------------------------
(* Consequences. *)

LEMMA IdsFinite == IsFiniteSet(Ids) /\ NULL \notin Ids /\ Ids \subseteq Nat /\ 1 \in Ids /\ 4 \in Ids
<1>1. MaxObjects \in Nat /\ MaxObjects > 4
  BY BoundsAssumption
<1> QED
  BY <1>1, FS_Interval DEF Ids, NULL

LEMMA FieldsFinite ==
    ASSUME NEW H, NEW b \in Ids, Framed(H, b)
    PROVE  IsFiniteSet(DOMAIN H[b].f)
<1>1. IsFiniteSet(1..3) /\ IsFiniteSet(1..1) /\ IsFiniteSet({})
  <2>1. \A i, j \in Int : IsFiniteSet(i..j)
    BY FS_Interval
  <2>4. 1 \in Int /\ 3 \in Int
    OBVIOUS
  <2>2. IsFiniteSet(1..3) /\ IsFiniteSet(1..1)
    BY <2>1, <2>4, Zenon
  <2>3. IsFiniteSet({})
    BY FS_EmptySet
  <2> QED
    BY <2>2, <2>3
<1>2. ASSUME H[b].f \in Seq(Ids) PROVE IsFiniteSet(DOMAIN H[b].f)
  BY <1>2, SeqFinite
<1>3. DOMAIN <<>> = {}
  OBVIOUS
<1>4. IsFiniteSet(Names)
  BY NamesAssumption
<1> QED
  BY <1>1, <1>2, <1>3, <1>4, Zenon DEF Framed

LEMMA KeptFinite ==
    ASSUME NEW H, NEW T, NEW b \in Ids, H[b].rc > 0 => Framed(H, b), NEW o
    PROVE  IsFiniteSet(Kept(H, T, b, o))
<1>1. CASE H[b].rc > 0
  <2>1. IsFiniteSet(Places(H[b].f, o))
    BY <1>1, FieldsFinite, PlacesFinite
  <2>2. Kept(H, T, b, o) \in SUBSET Places(H[b].f, o)
    BY DEF Kept
  <2> QED
    BY <2>1, <2>2, FS_Subset
<1>2. CASE ~(H[b].rc > 0)
  BY <1>2, FS_EmptySet DEF Kept
<1> QED
  BY <1>1, <1>2

LEMMA HeldType ==
    ASSUME NEW H, NEW T, \A b \in Ids : H[b].rc > 0 => Framed(H, b), NEW o
    PROVE  /\ Held(H, T, o) \in Nat
           /\ Held(H, T, o) > 0 <=> \E b \in Ids : Kept(H, T, b, o) # {}
           /\ \A b \in Ids : Cardinality(Kept(H, T, b, o)) \in Nat
<1> DEFINE X == [b \in Ids |-> Kept(H, T, b, o)]
<1>1. DOMAIN X = Ids /\ \A b \in Ids : X[b] = Kept(H, T, b, o)
  OBVIOUS
<1>2. \A b \in Ids : IsFiniteSet(X[b]) /\ Cardinality(X[b]) \in Nat
  BY KeptFinite, FS_CardinalityType
<1>3. Held(H, T, o) = Tally(X)
  BY DEF Held
<1> HIDE DEF X
<1>4. /\ Tally(X) \in Nat
      /\ Tally(X) > 0 <=> \E b \in Ids : X[b] # {}
  BY <1>1, <1>2, IdsFinite, TallyType
<1> QED
  BY <1>1, <1>2, <1>3, <1>4

\* Only what b holds changes.
LEMMA HeldChange ==
    ASSUME NEW H, NEW T, \A b \in Ids : H[b].rc > 0 => Framed(H, b),
           NEW G, NEW U, \A b \in Ids : G[b].rc > 0 => Framed(G, b),
           NEW o, NEW h \in Ids, \A b \in Ids \ {h} : Kept(G, U, b, o) = Kept(H, T, b, o)
    PROVE  Held(G, U, o) + Cardinality(Kept(H, T, h, o))
             = Held(H, T, o) + Cardinality(Kept(G, U, h, o))
<1> DEFINE X == [b \in Ids |-> Kept(H, T, b, o)]
           Y == [b \in Ids |-> Kept(G, U, b, o)]
           D == Ids
<1>1. /\ DOMAIN X = D /\ \A b \in D : X[b] = Kept(H, T, b, o)
      /\ DOMAIN Y = D /\ \A b \in D : Y[b] = Kept(G, U, b, o)
  OBVIOUS
<1>2. \A b \in D : IsFiniteSet(X[b]) /\ IsFiniteSet(Y[b])
  BY KeptFinite
<1>3. Held(H, T, o) = Tally(X) /\ Held(G, U, o) = Tally(Y)
  BY DEF Held
<1>4. h \in D /\ \A i \in D : i # h => Y[i] = X[i]
  BY <1>1
<1>5. IsFiniteSet(D)
  BY IdsFinite
<1> HIDE DEF X, Y, D
<1>6. Tally(Y) + Cardinality(X[h]) = Tally(X) + Cardinality(Y[h])
  BY <1>1, <1>2, <1>4, <1>5, TallyChange
<1> QED
  BY <1>1, <1>3, <1>4, <1>6

\* Nothing that b holds changes.
LEMMA HeldSame ==
    ASSUME NEW H, NEW T, NEW G, NEW U, NEW o,
           \A b \in Ids : Kept(G, U, b, o) = Kept(H, T, b, o)
    PROVE  Held(G, U, o) = Held(H, T, o)
<1>1. [b \in Ids |-> Kept(G, U, b, o)] = [b \in Ids |-> Kept(H, T, b, o)]
  OBVIOUS
<1> QED
  BY <1>1 DEF Held

\* What an operation that is left needs has references.
LEMMA MentionedCounted ==
    ASSUME NEW H, NEW T, NEW R, Guarded(H, T, R), NEW j \in 1..Len(T), NEW o \in Mentioned(T[j])
    PROVE  H[o].rc > 0
  BY DEF Guarded, Safe, Supported

\* Who is referred to has references.
LEMMA RefCounted ==
    ASSUME NEW H, NEW T, NEW R, Sound(H, T, R), NEW o \in Ids,
           R[o] > 0 \/ Held(H, T, o) > 0 \/ Occ(T, DEC(o)) > 0
    PROVE  H[o].rc > 0 /\ H[o].k # "free"
<1>1. /\ T \in Seq(Op) /\ R[o] \in Nat /\ H[o].rc \in Nat /\ Held(H, T, o) \in Nat
      /\ H[o].rc + Occ(T, INC(o)) = Held(H, T, o) + R[o] + Occ(T, DEC(o))
      /\ H[o].k = "free" => H[o].rc = 0
  BY HeldType DEF Sound, Formed, Balanced, FreedOnce, Shaped
<1>2. /\ Occ(T, DEC(o)) \in Nat /\ Occ(T, INC(o)) \in Nat
      /\ Occ(T, INC(o)) > 0 => \E i \in 1..Len(T) : T[i] = INC(o)
  BY <1>1, OccType
<1>3. ASSUME NEW i \in 1..Len(T), T[i] = INC(o) PROVE H[o].rc > 0
  <2>1. o \in Mentioned(T[i])
    BY <1>3, OpFields DEF Mentioned
  <2> QED
    BY <2>1, MentionedCounted DEF Sound
<1>4. H[o].rc > 0
  BY <1>1, <1>2, <1>3
<1> QED
  BY <1>1, <1>4

\* A field of an object with references leads to one with references.
LEMMA FieldCounted ==
    ASSUME NEW H, NEW T, NEW R, Sound(H, T, R), NEW b \in Ids, H[b].rc > 0,
           NEW x \in DOMAIN H[b].f, ~Stale(T, b, x), H[b].f[x] \in Ids
    PROVE  H[H[b].f[x]].rc > 0 /\ H[H[b].f[x]].k # "free"
<1> DEFINE o == H[b].f[x]
<1>1. x \in Kept(H, T, b, o)
  BY DEF Kept, Places
<1> HIDE DEF o
<1>2. Held(H, T, o) > 0
  BY <1>1, HeldType DEF Sound, Formed, Shaped
<1>3. o \in Ids
  BY DEF o
<1>4. H[o].rc > 0 /\ H[o].k # "free"
  BY <1>2, <1>3, RefCounted
<1> QED
  BY <1>4 DEF o

-----------------------------------------------------------------------------
(* The first operation is done, and t is what it leaves to do first.         *)

Rest(T, t) == t \o Tail(T)

LEMMA RestType ==
    ASSUME NEW T \in Seq(Op), T # <<>>, NEW t \in Seq(Op)
    PROVE  /\ Rest(T, t) \in Seq(Op) /\ Len(T) \in Nat \ {0} /\ Len(t) \in Nat
           /\ Len(Rest(T, t)) = Len(t) + Len(T) - 1
           /\ Head(T) = T[1] /\ T[1] \in Op /\ 1 \in 1..Len(T)
<1>1. Tail(T) \in Seq(Op) /\ Len(Tail(T)) = Len(T) - 1 /\ Len(T) \in Nat \ {0}
      /\ Len(t) \in Nat
  BY HeadTailProperties
<1>2. t \o Tail(T) \in Seq(Op) /\ Len(t \o Tail(T)) = Len(t) + Len(T) - 1
  BY <1>1
<1>3. Head(T) = T[1] /\ T[1] \in Op /\ 1 \in 1..Len(T)
  BY <1>1
<1> QED
  BY <1>1, <1>2, <1>3 DEF Rest

LEMMA RestAt ==
    ASSUME NEW T \in Seq(Op), T # <<>>, NEW t \in Seq(Op), NEW i \in 1..Len(t) + Len(T) - 1
    PROVE  Rest(T, t)[i] = IF i <= Len(t) THEN t[i] ELSE T[i - Len(t) + 1]
<1> DEFINE U == t \o Tail(T)
<1>1. Tail(T) \in Seq(Op) /\ Len(Tail(T)) = Len(T) - 1 /\ Len(T) \in Nat \ {0}
      /\ Len(t) \in Nat
      /\ \A k \in 1..Len(T) - 1 : Tail(T)[k] = T[k + 1]
  BY HeadTailProperties
<1>2. U[i] = IF i <= Len(t) THEN t[i] ELSE Tail(T)[i - Len(t)]
  BY <1>1, ConcatProperties
<1>3. ~(i <= Len(t)) => Tail(T)[i - Len(t)] = T[i - Len(t) + 1]
  BY <1>1
<1> QED
  BY <1>2, <1>3 DEF Rest

\* Where the operations of t and the later ones of T are, and that there is
\* nothing else.
LEMMA RestEarly ==
    ASSUME NEW T \in Seq(Op), T # <<>>, NEW t \in Seq(Op), NEW i \in 1..Len(t)
    PROVE  i \in 1..Len(Rest(T, t)) /\ Rest(T, t)[i] = t[i]
<1>1. Len(T) \in Nat \ {0} /\ Len(t) \in Nat /\ Len(Rest(T, t)) = Len(t) + Len(T) - 1
  BY RestType
<1>2. i \in 1..Len(t) + Len(T) - 1
  BY <1>1
<1>3. Rest(T, t)[i] = IF i <= Len(t) THEN t[i] ELSE T[i - Len(t) + 1]
  BY <1>2, RestAt
<1> QED
  BY <1>1, <1>2, <1>3

LEMMA RestLate ==
    ASSUME NEW T \in Seq(Op), T # <<>>, NEW t \in Seq(Op), NEW i \in 2..Len(T)
    PROVE  i + Len(t) - 1 \in 1..Len(Rest(T, t)) /\ Rest(T, t)[i + Len(t) - 1] = T[i]
<1> DEFINE k == i + Len(t) - 1
<1>1. k \in 1..Len(t) + Len(T) - 1 /\ ~(k <= Len(t)) /\ k - Len(t) + 1 = i
  BY RestType
<1> HIDE DEF k
<1>2. Rest(T, t)[k] = T[i]
  BY <1>1, RestAt
<1> QED
  BY <1>1, <1>2, RestType DEF k

LEMMA RestWhere ==
    ASSUME NEW T \in Seq(Op), T # <<>>, NEW t \in Seq(Op), NEW i \in 1..Len(Rest(T, t))
    PROVE  \/ i \in 1..Len(t) /\ Rest(T, t)[i] = t[i]
           \/ i - Len(t) + 1 \in 2..Len(T) /\ Rest(T, t)[i] = T[i - Len(t) + 1]
<1>1. Len(T) \in Nat \ {0} /\ Len(t) \in Nat /\ Len(Rest(T, t)) = Len(t) + Len(T) - 1
  BY RestType
<1>2. i \in 1..Len(t) + Len(T) - 1
  BY <1>1
<1>3. Rest(T, t)[i] = IF i <= Len(t) THEN t[i] ELSE T[i - Len(t) + 1]
  BY <1>2, RestAt
<1> QED
  BY <1>1, <1>2, <1>3

LEMMA FirstCounts ==
    ASSUME NEW T \in Seq(Op), T # <<>>, NEW t \in Seq(Op), NEW e
    PROVE  /\ Occ(Rest(T, t), e) + One(T[1] = e) = Occ(T, e) + Occ(t, e)
           /\ Occ(Rest(T, t), e) \in Nat /\ Occ(T, e) \in Nat /\ Occ(t, e) \in Nat
<1> DEFINE r == Tail(T)
           U == t \o r
<1>1. r \in Seq(Op) /\ U \in Seq(Op) /\ Head(T) = T[1]
  OBVIOUS
<1>2. Occ(T, e) = One(T[1] = e) + Occ(r, e)
  BY <1>1, OccTail
<1> HIDE DEF r
<1>3. Occ(t \o r, e) = Occ(t, e) + Occ(r, e)
  BY <1>1, OccConcat
<1>4. Occ(t, e) \in Nat /\ Occ(r, e) \in Nat /\ Occ(T, e) \in Nat /\ Occ(U, e) \in Nat
  BY <1>1, OccType
<1>5. One(T[1] = e) \in Nat
  BY OneType
<1> QED
  BY <1>2, <1>3, <1>4, <1>5 DEF r, Rest

\* A DEC of an object that a later operation needs leaves it references.
LEMMA NoDeath ==
    ASSUME NEW H, NEW T, NEW R, Sound(H, T, R), T # <<>>, NEW o \in Ids, T[1] = DEC(o),
           NEW i \in 2..Len(T), Safe(H, T, R, i, o)
    PROVE  H[o].rc > 1
<1>1. T \in Seq(Op) /\ Len(T) \in Nat
  BY DEF Sound, Formed
<1> DEFINE J == {k \in 2..Len(T) : Safe(H, T, R, k, o)}
<1>2. PICK j \in J : \A k \in J : j <= k
  <2>1. J \subseteq Nat /\ i \in J
    BY <1>1
  <2> HIDE DEF J
  <2> QED
    BY <2>1, Smallest
<1>3. \A k \in 1..Len(T) : k < j => o \notin Mentioned(T[k])
  <2>1. ASSUME NEW k \in 1..Len(T), k < j, o \in Mentioned(T[k]) PROVE FALSE
    <3>1. k # 1
      BY <2>1, OpFields DEF Mentioned
    <3>2. Safe(H, T, R, k, o)
      BY <2>1 DEF Sound, Guarded
    <3>3. k \in J
      BY <1>1, <3>1, <3>2
    <3> QED
      BY <1>1, <1>2, <2>1, <3>3
  <2> QED
    BY <2>1
<1>4. PICK S \in SUBSET Ids : o \in S /\ Supported(H, T, R, j, S)
  BY <1>2 DEF Safe
<1>5. j \in 2..Len(T)
  BY <1>2
<1> HIDE DEF J
<1> DEFINE held == \E b \in S : Holds(H, T, b, o, j)
<1>6. OccFrom(T, j, INC(o)) < R[o] + OccFrom(T, j, DEC(o)) + One(held)
  BY <1>4 DEF Supported
<1>7. OccFrom(T, j, INC(o)) = Occ(T, INC(o))
  <2>1. \A k \in 1..Len(T) : k < j => T[k] # INC(o)
    BY <1>3, OpFields DEF Mentioned
  <2>2. j \in Nat \ {0}
    BY <1>1, <1>5
  <2> QED
    BY <1>1, <2>1, <2>2, FromBefore
<1>8. OccFrom(T, j, DEC(o)) + 1 <= Occ(T, DEC(o))
  <2>1. 1 \in 1..Len(T) /\ 1 < j /\ j \in Nat \ {0}
    BY <1>1, <1>5
  <2> QED
    BY <1>1, <2>1, FromBefore
<1>9. Held(H, T, o) \in Nat /\ (held => Held(H, T, o) > 0)
  <2>1. \A b \in Ids : H[b].rc > 0 => Shaped(H, T, b)
    BY DEF Sound, Formed
  <2>2. /\ Held(H, T, o) \in Nat
        /\ Held(H, T, o) > 0 <=> \E b \in Ids : Kept(H, T, b, o) # {}
    BY <2>1, HeldType DEF Shaped
  <2>3. ASSUME NEW b \in S, Holds(H, T, b, o, j) PROVE Held(H, T, o) > 0
    <3>1. H[b].rc > 0 /\ b \in Ids /\ Steady(T, b)
      BY <1>4, <2>3 DEF Supported, Holds
    <3>2. \A k \in 1..Len(T) : k < j => T[k] \notin {APPEND(b, o), PREPEND(b, o)}
      BY <1>3, OpFields DEF Mentioned
    <3>3. PICK x \in DOMAIN H[b].f : H[b].f[x] = o
      BY <2>3, <3>2 DEF Holds
    <3>4. ~Stale(T, b, x)
      BY <3>1 DEF Steady, Stale
    <3>5. x \in Kept(H, T, b, o)
      BY <3>1, <3>3, <3>4 DEF Kept, Places
    <3> QED
      BY <2>2, <3>1, <3>5
  <2> QED
    BY <2>2, <2>3
<1>10. H[o].rc \in Nat /\ R[o] \in Nat
       /\ H[o].rc + Occ(T, INC(o)) = Held(H, T, o) + R[o] + Occ(T, DEC(o))
  BY DEF Sound, Formed, Balanced
<1>11. One(held) \in Nat /\ One(held) <= Held(H, T, o)
  <2> HIDE DEF held
  <2>1. One(held) \in 0..1 /\ (One(held) = 1 <=> held)
    BY OneType
  <2> QED
    BY <1>9, <2>1
<1> DEFINE h == One(held)
<1>13. /\ h \in Nat /\ h <= Held(H, T, o)
       /\ OccFrom(T, j, INC(o)) < R[o] + OccFrom(T, j, DEC(o)) + h
  BY <1>6, <1>11
<1> HIDE DEF h
<1>12. /\ OccFrom(T, j, INC(o)) \in Nat /\ OccFrom(T, j, DEC(o)) \in Nat
       /\ Occ(T, INC(o)) \in Nat /\ Occ(T, DEC(o)) \in Nat
  <2>1. j \in Nat \ {0}
    BY <1>1, <1>5
  <2> QED
    BY <1>1, <2>1, FromType, OccType
<1> QED
  <2> DEFINE c == H[o].rc
             n == R[o]
             m == Held(H, T, o)
             a == Occ(T, INC(o))
             d == Occ(T, DEC(o))
             e == OccFrom(T, j, DEC(o))
  <2>1. a < n + e + h /\ h <= m
    BY <1>7, <1>13
  <2>2. /\ c \in Nat /\ n \in Nat /\ m \in Nat /\ a \in Nat /\ d \in Nat /\ e \in Nat
        /\ h \in Nat /\ c + a = m + n + d /\ e + 1 <= d
    BY <1>8, <1>9, <1>10, <1>12, <1>13
  <2> HIDE DEF c, n, m, a, d, e
  <2>3. c > 1
    BY <2>1, <2>2
  <2> QED
    BY <2>3 DEF c

\* t stores nothing, or what a map_put stores.
OneStore(T, t) ==
    \A i \in 1..Len(t) :
        t[i].op \in {"put", "set"} =>
            T[1].op = "put" /\ t[i].o = T[1].o /\ t[i].op = "set" /\ i = Len(t)
NoSet(t, b) == \A i \in 1..Len(t) : t[i].op = "set" => t[i].o # b
GuardedFirst(G, T, R, t) ==
    \A i \in 1..Len(t) : \A o \in Mentioned(t[i]) : Safe(G, Rest(T, t), R, i, o)

\* The fields of steady objects stay, and what keeps an object that is needed
\* later keeps it on.
LEMMA SteadyKept ==
    ASSUME NEW T \in Seq(Op), T # <<>>, NEW t \in Seq(Op),
           OneStore(T, t),
           NEW b, Steady(T, b)
    PROVE  Steady(Rest(T, t), b)
<1> DEFINE U == Rest(T, t)
<1> SUFFICES ASSUME NEW i \in 1..Len(U), U[i].op \in {"put", "set"} PROVE U[i].o # b
  BY DEF Steady
<1>1. CASE i \in 1..Len(t) /\ U[i] = t[i]
  <2>1. T[1].op = "put" /\ U[i].o = T[1].o /\ 1 \in 1..Len(T)
    BY <1>1, RestType DEF OneStore
  <2> QED
    BY <2>1 DEF Steady
<1>2. CASE i - Len(t) + 1 \in 2..Len(T) /\ U[i] = T[i - Len(t) + 1]
  <2>1. i - Len(t) + 1 \in 1..Len(T)
    BY <1>2
  <2> QED
    BY <1>2, <2>1 DEF Steady
<1> QED
  BY <1>1, <1>2, RestWhere

\* Nothing loses its last reference that is needed, and no steady field changes.
Lasts(H, T, G) ==
    /\ \A p \in Ids : H[p].rc > 0 /\ (T[1] = DEC(p) => H[p].rc > 1) => G[p].rc > 0
    /\ \A b \in Ids : Steady(T, b) /\ H[b].rc > 0 =>
          \A x \in DOMAIN H[b].f : \E y \in DOMAIN G[b].f : G[b].f[y] = H[b].f[x]
    /\ \A b \in Ids, p \in Ids : T[1] \in {APPEND(b, p), PREPEND(b, p)} =>
          \E y \in DOMAIN G[b].f : G[b].f[y] = p

LEMMA GuardKept ==
    ASSUME NEW H, NEW T, NEW R, Sound(H, T, R), T # <<>>, NEW t \in Seq(Op), NEW G,
           Lasts(H, T, G), OneStore(T, t), GuardedFirst(G, T, R, t)
    PROVE  Guarded(G, Rest(T, t), R)
<1> DEFINE U == Rest(T, t)
<1>0. T \in Seq(Op)
  BY DEF Sound, Formed
<1>1. ASSUME NEW j \in 2..Len(T), NEW S \in SUBSET Ids, Supported(H, T, R, j, S)
      PROVE  Supported(G, U, R, j + Len(t) - 1, S)
  <2> DEFINE k == j + Len(t) - 1
  <2>1. \A b \in S : H[b].rc > 0 /\ b \in Ids
    BY <1>1 DEF Supported
  <2>2. ASSUME NEW p \in S PROVE G[p].rc > 0
    <3>1. Safe(H, T, R, j, p)
      BY <1>1, <2>2 DEF Safe
    <3> QED
      BY <2>1, <2>2, <3>1, NoDeath DEF Lasts
  <2>3. ASSUME NEW b \in S, NEW p \in S, Holds(H, T, b, p, j) PROVE Holds(G, U, b, p, k)
    <3>1. Steady(T, b)
      BY <2>3 DEF Holds
    <3>2. Steady(U, b)
      BY <1>0, <3>1, SteadyKept
    <3>3. CASE \E x \in DOMAIN H[b].f : H[b].f[x] = p
      <4>1. \E y \in DOMAIN G[b].f : G[b].f[y] = p
        BY <2>1, <3>1, <3>3 DEF Lasts
      <4> QED
        BY <3>2, <4>1 DEF Holds
    <3>4. CASE \E i \in 1..Len(T) : i < j /\ T[i] \in {APPEND(b, p), PREPEND(b, p)}
      <4>1. PICK i \in 1..Len(T) : i < j /\ T[i] \in {APPEND(b, p), PREPEND(b, p)}
        BY <3>4
      <4>2. CASE i = 1
        <5>1. \E y \in DOMAIN G[b].f : G[b].f[y] = p
          BY <2>1, <2>3, <4>1, <4>2 DEF Lasts
        <5> QED
          BY <3>2, <5>1 DEF Holds
      <4>3. CASE i # 1
        <5>1. i \in 2..Len(T)
          BY <4>3
        <5>2. i + Len(t) - 1 \in 1..Len(U) /\ U[i + Len(t) - 1] = T[i]
          BY <1>0, <5>1, RestLate
        <5>3. i + Len(t) - 1 < k
          BY <1>0, <4>1, RestType
        <5> QED
          BY <3>2, <4>1, <5>2, <5>3 DEF Holds
      <4> QED
        BY <4>2, <4>3
    <3> QED
      BY <2>3, <3>3, <3>4 DEF Holds
  <2>4. ASSUME NEW p \in S
        PROVE  OccFrom(U, k, INC(p))
                 < R[p] + OccFrom(U, k, DEC(p)) + One(\E b \in S : Holds(G, U, b, p, k))
    <3>1. j \in Nat /\ j > 1
      OBVIOUS
    <3>2. OccFrom(U, k, INC(p)) = OccFrom(T, j, INC(p))
          /\ OccFrom(U, k, DEC(p)) = OccFrom(T, j, DEC(p))
      BY <1>0, <3>1, FromShift DEF Rest
    <3> DEFINE old == \E b \in S : Holds(H, T, b, p, j)
               new == \E b \in S : Holds(G, U, b, p, k)
    <3>3. old => new
      BY <2>3
    <3>4. OccFrom(T, j, INC(p)) < R[p] + OccFrom(T, j, DEC(p)) + One(old)
      BY <1>1 DEF Supported
    <3>5. R[p] \in Nat
      BY DEF Sound, Formed
    <3>6. OccFrom(T, j, INC(p)) \in Nat /\ OccFrom(T, j, DEC(p)) \in Nat
      BY <1>0, FromType
    <3> HIDE DEF old, new
    <3> DEFINE c == One(old)
               d == One(new)
    <3>7. c \in Nat /\ d \in Nat /\ c <= d
      BY <3>3 DEF One
    <3>8. OccFrom(T, j, INC(p)) < R[p] + OccFrom(T, j, DEC(p)) + c
      BY <3>4
    <3> HIDE DEF c, d
    <3>9. OccFrom(T, j, INC(p)) < R[p] + OccFrom(T, j, DEC(p)) + d
      BY <3>5, <3>6, <3>7, <3>8
    <3> QED
      BY <3>2, <3>9 DEF d, new
  <2> QED
    BY <2>2, <2>4 DEF Supported
<1>2. ASSUME NEW i \in 1..Len(U), NEW o \in Mentioned(U[i]) PROVE Safe(G, U, R, i, o)
  <2>1. CASE i \in 1..Len(t) /\ U[i] = t[i]
    BY <1>2, <2>1 DEF GuardedFirst
  <2>2. CASE i - Len(t) + 1 \in 2..Len(T) /\ U[i] = T[i - Len(t) + 1]
    <3> DEFINE j == i - Len(t) + 1
    <3>4. Len(t) \in Nat
      BY <1>0, RestType
    <3>0. i \in Nat /\ j + Len(t) - 1 = i
      BY <3>4
    <3>1. j \in 2..Len(T) /\ o \in Mentioned(T[j]) /\ j \in 1..Len(T)
      BY <1>2, <2>2
    <3> HIDE DEF j
    <3>2. PICK S \in SUBSET Ids : o \in S /\ Supported(H, T, R, j, S)
      BY <3>1 DEF Sound, Guarded, Safe
    <3>3. Supported(G, U, R, j + Len(t) - 1, S)
      BY <1>1, <3>1, <3>2
    <3> QED
      BY <3>0, <3>1, <3>2, <3>3 DEF Safe
  <2>3. i \in 1..Len(Rest(T, t))
    BY <1>2
  <2>4. \/ i \in 1..Len(t) /\ Rest(T, t)[i] = t[i]
        \/ i - Len(t) + 1 \in 2..Len(T) /\ Rest(T, t)[i] = T[i - Len(t) + 1]
    BY <1>0, <2>3, RestWhere
  <2> QED
    BY <2>1, <2>2, <2>4
<1> QED
  BY <1>2 DEF Guarded

LEMMA StaleKept ==
    ASSUME NEW T \in Seq(Op), T # <<>>, NEW t \in Seq(Op),
           NEW b, NEW x
    PROVE  /\ Stale(T, b, x) /\ ~(T[1].op = "set" /\ T[1].o = b /\ T[1].x = x)
                => Stale(Rest(T, t), b, x)
           /\ Stale(Rest(T, t), b, x) =>
                \/ \E i \in 1..Len(t) : t[i].op = "set" /\ t[i].o = b /\ t[i].x = x
                \/ \E i \in 2..Len(T) : T[i].op = "set" /\ T[i].o = b /\ T[i].x = x
<1> DEFINE U == Rest(T, t)
<1>1. ASSUME NEW j \in 1..Len(T), T[j].op = "set" /\ T[j].o = b /\ T[j].x = x, j # 1
      PROVE  Stale(U, b, x)
  <2>1. j + Len(t) - 1 \in 1..Len(U) /\ U[j + Len(t) - 1] = T[j]
    BY <1>1, RestLate
  <2> QED
    BY <1>1, <2>1 DEF Stale
<1>2. ASSUME NEW j \in 1..Len(U), U[j].op = "set" /\ U[j].o = b /\ U[j].x = x
      PROVE  \/ \E i \in 1..Len(t) : t[i].op = "set" /\ t[i].o = b /\ t[i].x = x
             \/ \E i \in 2..Len(T) : T[i].op = "set" /\ T[i].o = b /\ T[i].x = x
  BY <1>2, RestWhere
<1> QED
  BY <1>1, <1>2 DEF Stale

LEMMA FitsMentioned ==
    ASSUME NEW H, NEW s, Fits(H, s), s.op \in {"put", "set", "append", "prepend"}
    PROVE  s.o \in Mentioned(s) /\ (s.v \in Ids => s.v \in Mentioned(s))
<1>1. s.o \in Ids
  BY DEF Fits, IsA
<1> QED
  BY <1>1 DEF Mentioned

LEMMA AcceptsKept ==
    ASSUME NEW H, NEW G, NEW b, NEW x, NEW v, Accepts(H, b, x, v),
           G[b].k = H[b].k, v \in Ids => G[v].k = H[v].k
    PROVE  Accepts(G, b, x, v)
  BY DEF Accepts, IsA

LEMMA FitsKept ==
    ASSUME NEW H, NEW G, NEW s, Fits(H, s), \A o \in Mentioned(s) : G[o].k = H[o].k
    PROVE  Fits(G, s)
<1>1. ASSUME s.op \in {"put", "set", "append", "prepend"}
      PROVE  G[s.o].k = H[s.o].k /\ (s.v \in Ids => G[s.v].k = H[s.v].k)
  BY <1>1, FitsMentioned
<1>2. s.op \in {"put", "set"} => Accepts(G, s.o, s.x, s.v)
  BY <1>1, AcceptsKept DEF Fits
<1> QED
  BY <1>1, <1>2 DEF Fits, IsA

\* b keeps its shape when the fields that change get what they accept.
LEMMA ShapeStored ==
    ASSUME NEW H, NEW T, NEW R, Sound(H, T, R), NEW G, NEW U,
           \A o \in Ids : H[o].rc > 0 => G[o].k = H[o].k,
           NEW b \in Ids, H[b].rc > 0, Framed(G, b),
           \A x \in DOMAIN G[b].f :
              \/ G[b].f[x] \in Maybe /\ Accepts(G, b, x, G[b].f[x])
              \/ /\ x \in DOMAIN H[b].f /\ G[b].f[x] = H[b].f[x]
                 /\ Stale(T, b, x) => Stale(U, b, x)
    PROVE  Shaped(G, U, b)
<1>1. Shaped(H, T, b) /\ G[b].k = H[b].k
  BY DEF Sound, Formed
<1>2. ASSUME NEW x \in DOMAIN G[b].f, x \in DOMAIN H[b].f, G[b].f[x] = H[b].f[x],
             Stale(T, b, x) => Stale(U, b, x)
      PROVE  G[b].f[x] \in Maybe /\ (Stale(U, b, x) \/ Accepts(G, b, x, G[b].f[x]))
  <2> DEFINE v == H[b].f[x]
  <2>1. v \in Maybe /\ (Stale(T, b, x) \/ Accepts(H, b, x, v))
    BY <1>1, <1>2 DEF Shaped
  <2>2. ASSUME ~Stale(T, b, x) PROVE Accepts(G, b, x, v)
    <3>1. v \in Ids => H[v].rc > 0
      BY <1>2, <2>2, FieldCounted
    <3> HIDE DEF v
    <3> QED
      BY <1>1, <2>1, <2>2, <3>1, AcceptsKept
  <2> QED
    BY <1>2, <2>1, <2>2
<1> QED
  BY <1>2 DEF Shaped

LEMMA ShapeKept ==
    ASSUME NEW H, NEW T, NEW R, Sound(H, T, R), NEW G, NEW U,
           \A o \in Ids : H[o].rc > 0 => G[o].k = H[o].k,
           NEW b \in Ids, H[b].rc > 0, G[b].f = H[b].f, G[b].ps = H[b].ps,
           \A x : Stale(T, b, x) => Stale(U, b, x)
    PROVE  Shaped(G, U, b)
<1>1. Framed(G, b)
  <2>1. Framed(H, b) /\ G[b].k = H[b].k
    BY DEF Sound, Formed, Shaped
  <2> QED
    BY <2>1 DEF Framed
<1> QED
  BY <1>1, ShapeStored

LEMMA AloneKept ==
    ASSUME NEW T \in Seq(Op), T # <<>>, Alone(T), NEW t \in Seq(Op), OneStore(T, t)
    PROVE  Alone(Rest(T, t))
<1> DEFINE U == Rest(T, t)
<1> SUFFICES ASSUME NEW i \in 1..Len(U), NEW j \in 1..Len(U), i < j,
                    U[j].op = "set", U[i].o = U[j].o
             PROVE  (U[i].op = "set" => U[i].x # U[j].x) /\ U[i].op # "put"
  BY Zenon DEF Alone
<1>1. CASE i \in 1..Len(t) /\ U[i] = t[i]
  <2>1. CASE j \in 1..Len(t) /\ U[j] = t[j]
    BY <1>1, <2>1 DEF OneStore
  <2>2. CASE j - Len(t) + 1 \in 2..Len(T) /\ U[j] = T[j - Len(t) + 1]
    <3> DEFINE n == j - Len(t) + 1
    <3>0. Len(t) \in Nat /\ Len(T) \in Nat \ {0}
      BY RestType
    <3>1. n \in 1..Len(T) /\ 1 < n /\ T[n] = U[j] /\ 1 \in 1..Len(T)
      BY <2>2, <3>0
    <3> HIDE DEF n
    <3>2. U[i].op \in {"put", "set"} => T[1].op = "put" /\ U[i].o = T[1].o
      BY <1>1 DEF OneStore
    <3> QED
      BY <3>1, <3>2 DEF Alone
  <2> QED
    BY <2>1, <2>2, RestWhere
<1>2. CASE i - Len(t) + 1 \in 2..Len(T) /\ U[i] = T[i - Len(t) + 1]
  <2> DEFINE m == i - Len(t) + 1
             n == j - Len(t) + 1
  <2>0. Len(t) \in Nat /\ Len(T) \in Nat \ {0}
    BY RestType
  <2>2. j - Len(t) + 1 \in 2..Len(T) /\ U[j] = T[j - Len(t) + 1]
    <3>1. ~(j \in 1..Len(t))
      BY <1>2, <2>0
    <3> QED
      BY <3>1, RestWhere
  <2>1. m \in 1..Len(T) /\ n \in 1..Len(T) /\ m < n /\ T[m] = U[i] /\ T[n] = U[j]
    BY <1>2, <2>0, <2>2
  <2> HIDE DEF m, n
  <2> QED
    BY <2>1 DEF Alone
<1> QED
  BY <1>1, <1>2, RestWhere

\* Balance is kept where the counts change as the references do.
Moves(H, T, G, t, o) ==
    /\ G[o].rc \in Nat /\ Held(G, Rest(T, t), o) \in Nat
    /\ G[o].rc + Occ(t, INC(o)) + One(T[1] = DEC(o)) + Held(H, T, o)
         = H[o].rc + One(T[1] = INC(o)) + Held(G, Rest(T, t), o) + Occ(t, DEC(o))

LEMMA BalanceKept ==
    ASSUME NEW H, NEW T, NEW R, Sound(H, T, R), T # <<>>, NEW t \in Seq(Op), NEW G,
           NEW o \in Ids, Moves(H, T, G, t, o)
    PROVE  G[o].rc + Occ(Rest(T, t), INC(o)) = Held(G, Rest(T, t), o) + R[o] + Occ(Rest(T, t), DEC(o))
<1> DEFINE U == Rest(T, t)
<1>0. T \in Seq(Op) /\ \A b \in Ids : H[b].rc > 0 => Shaped(H, T, b)
  BY DEF Sound, Formed
<1> DEFINE g == G[o].rc
           h == H[o].rc
           i == One(T[1] = INC(o))
           d == One(T[1] = DEC(o))
           r == R[o]
<1>1. /\ Occ(U, INC(o)) + i = Occ(T, INC(o)) + Occ(t, INC(o))
      /\ Occ(U, INC(o)) \in Nat /\ Occ(T, INC(o)) \in Nat /\ Occ(t, INC(o)) \in Nat
  BY <1>0, FirstCounts
<1>7. /\ Occ(U, DEC(o)) + d = Occ(T, DEC(o)) + Occ(t, DEC(o))
      /\ Occ(U, DEC(o)) \in Nat /\ Occ(T, DEC(o)) \in Nat /\ Occ(t, DEC(o)) \in Nat
  BY <1>0, FirstCounts
<1>2. h \in Nat /\ r \in Nat /\ h + Occ(T, INC(o)) = Held(H, T, o) + r + Occ(T, DEC(o))
  BY DEF Sound, Formed, Balanced
<1>3. i \in Nat /\ d \in Nat
  BY OneType
<1>4. g \in Nat /\ Held(G, U, o) \in Nat
      /\ g + Occ(t, INC(o)) + d + Held(H, T, o) = h + i + Held(G, U, o) + Occ(t, DEC(o))
  BY DEF Moves
<1>5. Held(H, T, o) \in Nat
  BY <1>0, HeldType DEF Shaped
<1> DEFINE k == Held(H, T, o)
           l == Held(G, U, o)
           ti == Occ(T, INC(o))
           td == Occ(T, DEC(o))
           ui == Occ(U, INC(o))
           ud == Occ(U, DEC(o))
           ni == Occ(t, INC(o))
           nd == Occ(t, DEC(o))
<1>8. /\ g \in Nat /\ h \in Nat /\ i \in Nat /\ d \in Nat /\ r \in Nat
      /\ k \in Nat /\ l \in Nat /\ ti \in Nat /\ td \in Nat
      /\ ui \in Nat /\ ud \in Nat /\ ni \in Nat /\ nd \in Nat
      /\ ui + i = ti + ni /\ ud + d = td + nd /\ h + ti = k + r + td
      /\ g + ni + d + k = h + i + l + nd
  BY <1>1, <1>2, <1>3, <1>4, <1>5, <1>7
<1> HIDE DEF g, h, i, d, r, k, l, ti, td, ui, ud, ni, nd
<1>6. g + ui = l + r + ud
  BY <1>8
<1> QED
  BY <1>6 DEF g, r, ui, ud, l

LEMMA KeptSame ==
    ASSUME NEW T \in Seq(Op), T # <<>>, NEW t \in Seq(Op),
           NEW H, NEW G, NEW b, G[b].rc > 0 <=> H[b].rc > 0,
           H[b].rc > 0 => G[b].f = H[b].f,
           T[1].op = "set" => T[1].o # b,
           NoSet(t, b)
    PROVE  /\ \A o : Kept(G, Rest(T, t), b, o) = Kept(H, T, b, o)
           /\ \A x : Stale(Rest(T, t), b, x) <=> Stale(T, b, x)
<1> DEFINE U == Rest(T, t)
<1>1. ASSUME NEW x PROVE Stale(U, b, x) <=> Stale(T, b, x)
  <2>1. ASSUME Stale(U, b, x) PROVE Stale(T, b, x)
    <3>0. \/ \E i \in 1..Len(t) : t[i].op = "set" /\ t[i].o = b /\ t[i].x = x
          \/ \E i \in 2..Len(T) : T[i].op = "set" /\ T[i].o = b /\ T[i].x = x
      BY <2>1, StaleKept
    <3>1. PICK i \in 2..Len(T) : T[i].op = "set" /\ T[i].o = b /\ T[i].x = x
      BY <3>0 DEF NoSet
    <3>2. i \in 1..Len(T)
      OBVIOUS
    <3> QED
      BY <3>1, <3>2 DEF Stale
  <2> QED
    BY <2>1, StaleKept
<1> QED
  BY <1>1 DEF Kept, Places

\* The objects keep their types while they have references.
Typed(H, G) ==
    \A o \in Ids : G[o].rc \in Nat /\ (H[o].rc > 0 => G[o].k = H[o].k /\ G[o].ps = H[o].ps)

\* Who loses its last reference is freed later, who is freed has none.
Frees(H, T, G, t, o) ==
    /\ Occ(t, FREED(o)) + One(H[o].k # "free" /\ H[o].rc = 0)
         = One(T[1] = FREED(o)) + One(G[o].k # "free" /\ G[o].rc = 0)
    /\ G[o].k = "free" => G[o].rc = 0 /\ G[o].f = <<>>

LEMMA FreesNothing ==
    ASSUME NEW H, NEW T, NEW R, Sound(H, T, R), NEW t, NEW G, NEW o \in Ids,
           T[1] # FREED(o), Occ(t, FREED(o)) = 0, G[o].rc \in Nat,
           G[o].rc > 0 <=> H[o].rc > 0, G[o].k = H[o].k, G[o].k = "free" => G[o].f = H[o].f
    PROVE  Frees(H, T, G, t, o)
<1>1. /\ H[o].k = "free" => H[o].rc = 0 /\ H[o].f = <<>>
      /\ H[o].rc \in Nat
  BY DEF Sound, FreedOnce, Formed
<1>2. One(T[1] = FREED(o)) = 0
  BY DEF One
<1>3. G[o].rc = 0 <=> H[o].rc = 0
  BY <1>1
<1> DEFINE c == One(H[o].k # "free" /\ H[o].rc = 0)
<1>4. One(G[o].k # "free" /\ G[o].rc = 0) = c /\ c \in Nat
  BY <1>3 DEF One
<1> HIDE DEF c
<1>5. 0 + c = 0 + c /\ (G[o].k = "free" => G[o].rc = 0 /\ G[o].f = <<>>)
  BY <1>1, <1>3
<1> QED
  BY <1>2, <1>4, <1>5 DEF Frees, c

\* What makes the state after an operation sound.
LEMMA SoundAfter ==
    ASSUME NEW H, NEW T, NEW R, Sound(H, T, R), T # <<>>, NEW t \in Seq(Op), NEW G,
           Typed(H, G), Lasts(H, T, G), OneStore(T, t), GuardedFirst(G, T, R, t),
           \A o \in Ids : Moves(H, T, G, t, o) /\ Frees(H, T, G, t, o),
           \A b \in Ids : G[b].rc > 0 => Shaped(G, Rest(T, t), b),
           \A i \in 1..Len(t) : Fits(G, t[i])
    PROVE  Sound(G, Rest(T, t), R)
<1> DEFINE U == Rest(T, t)
<1>0. T \in Seq(Op) /\ Alone(T)
  BY DEF Sound, Formed
<1>1. Balanced(G, U, R)
  BY BalanceKept DEF Balanced
<1>2. ASSUME NEW o \in Ids
      PROVE  /\ Occ(U, FREED(o)) = One(G[o].k # "free" /\ G[o].rc = 0)
             /\ G[o].k = "free" => G[o].rc = 0 /\ G[o].f = <<>>
  <2> DEFINE h == One(H[o].k # "free" /\ H[o].rc = 0)
             g == One(G[o].k # "free" /\ G[o].rc = 0)
             d == One(T[1] = FREED(o))
  <2>1. Occ(T, FREED(o)) = h
    BY DEF Sound, FreedOnce
  <2>2. Frees(H, T, G, t, o)
    OBVIOUS
  <2>3. Occ(t, FREED(o)) + h = d + g /\ (G[o].k = "free" => G[o].rc = 0 /\ G[o].f = <<>>)
    BY <2>2 DEF Frees
  <2>4. /\ Occ(U, FREED(o)) + d = Occ(T, FREED(o)) + Occ(t, FREED(o))
        /\ Occ(U, FREED(o)) \in Nat /\ Occ(T, FREED(o)) \in Nat /\ Occ(t, FREED(o)) \in Nat
    BY <1>0, FirstCounts
  <2>5. h \in Nat /\ g \in Nat /\ d \in Nat
    BY OneType
  <2> HIDE DEF h, g, d
  <2>6. Occ(U, FREED(o)) = g
    BY <2>1, <2>3, <2>4, <2>5
  <2> QED
    BY <2>3, <2>6 DEF g
<1>3. ASSUME NEW j \in 1..Len(U) PROVE Fits(G, U[j])
  <2>1. CASE j - Len(t) + 1 \in 2..Len(T) /\ U[j] = T[j - Len(t) + 1]
    <3> DEFINE n == j - Len(t) + 1
    <3>1. n \in 1..Len(T) /\ U[j] = T[n]
      BY <2>1
    <3> HIDE DEF n
    <3>2. Fits(H, U[j])
      BY <3>1 DEF Sound, Formed
    <3>3. ASSUME NEW o \in Mentioned(U[j]) PROVE G[o].k = H[o].k
      <4>1. H[o].rc > 0 /\ o \in Ids
        BY <3>1, MentionedCounted DEF Sound, Mentioned
      <4> QED
        BY <4>1 DEF Typed
    <3> QED
      BY <3>2, <3>3, FitsKept
  <2>2. CASE j \in 1..Len(t) /\ U[j] = t[j]
    BY <2>2
  <2> QED
    BY <1>0, <2>1, <2>2, RestWhere
<1>4. Alone(U)
  BY <1>0, AloneKept
<1>5. Guarded(G, U, R)
  BY GuardKept
<1>6. Formed(G, U, R)
  <2>1. U \in Seq(Op)
    BY <1>0, RestType
  <2>2. \A o \in Ids : R[o] \in Nat /\ G[o].rc \in Nat
    BY DEF Sound, Formed, Typed
  <2> QED
    BY <2>1, <2>2, <1>3 DEF Formed
<1>7. FreedOnce(G, U)
  BY <1>2 DEF FreedOnce
<1> QED
  BY <1>1, <1>4, <1>5, <1>6, <1>7 DEF Sound

-----------------------------------------------------------------------------
(* INC_REF, DEC_REF of an object that keeps references, and reads.           *)
Recounted(H, T, G) ==
    \A o \in Ids :
        /\ G[o].k = H[o].k /\ G[o].f = H[o].f /\ G[o].ps = H[o].ps
        /\ G[o].rc + One(T[1] = DEC(o)) = H[o].rc + One(T[1] = INC(o))
        /\ G[o].rc \in Nat
        /\ T[1] = DEC(o) => H[o].rc > 1

LEMMA StepCounted ==
    ASSUME NEW H, NEW T, NEW R, Sound(H, T, R), T # <<>>,
           T[1].op \in {"inc", "dec", "read", "name"},
           NEW G, Recounted(H, T, G)
    PROVE  Sound(G, Tail(T), R)
<1> DEFINE t == <<>>
           U == Rest(T, t)
<1>0. T \in Seq(Op) /\ t \in Seq(Op)
  BY DEF Sound, Formed
<1>12. Len(t) = 0 /\ \A i \in 1..Len(t) : FALSE
  OBVIOUS
<1>13. OneStore(T, t) /\ GuardedFirst(G, T, R, t) /\ \A b : NoSet(t, b)
  BY <1>12 DEF OneStore, GuardedFirst, NoSet
<1>11. \A o \in Ids : /\ G[o].k = H[o].k /\ G[o].f = H[o].f /\ G[o].ps = H[o].ps
                       /\ G[o].rc \in Nat /\ H[o].rc \in Nat
  BY DEF Recounted, Sound, Formed
<1>1. \A e : Occ(t, e) = 0
  BY OccShort
<1>10. Tail(T) = U /\ T[1].op # "set" /\ T[1] \in Op /\ U \in Seq(Op)
  BY <1>0, RestType DEF Rest
<1> HIDE DEF t
<1>2. ASSUME NEW o \in Ids PROVE G[o].rc > 0 <=> H[o].rc > 0
  <2> DEFINE g == G[o].rc
             h == H[o].rc
  <2>1. g \in Nat /\ h \in Nat
    BY <1>11
  <2>2. CASE T[1] = INC(o)
    <3>1. o \in Mentioned(T[1]) /\ 1 \in 1..Len(T)
      BY <1>0, <2>2, OpFields, LenProperties DEF Mentioned
    <3>2. h > 0
      BY <3>1, MentionedCounted DEF Sound
    <3>3. g + One(T[1] = DEC(o)) = h + One(T[1] = INC(o))
      BY DEF Recounted
    <3>4. One(T[1] = DEC(o)) = 0 /\ One(T[1] = INC(o)) = 1
      BY <2>2, OpFields DEF One
    <3> QED
      BY <2>1, <3>2, <3>3, <3>4
  <2>3. CASE T[1] = DEC(o)
    <3>2. h > 1
      BY <2>3 DEF Recounted
    <3>3. g + One(T[1] = DEC(o)) = h + One(T[1] = INC(o))
      BY DEF Recounted
    <3>4. One(T[1] = DEC(o)) = 1 /\ One(T[1] = INC(o)) = 0
      BY <2>3, OpFields DEF One
    <3> QED
      BY <2>1, <3>2, <3>3, <3>4
  <2>4. CASE T[1] # INC(o) /\ T[1] # DEC(o)
    <3>3. g + One(T[1] = DEC(o)) = h + One(T[1] = INC(o))
      BY DEF Recounted
    <3>4. One(T[1] = DEC(o)) = 0 /\ One(T[1] = INC(o)) = 0
      BY <2>4 DEF One
    <3> QED
      BY <2>1, <3>3, <3>4
  <2> QED
    BY <2>2, <2>3, <2>4
<1>3. ASSUME NEW b \in Ids PROVE \A o : Kept(G, U, b, o) = Kept(H, T, b, o)
  <2>1. (G[b].rc > 0 <=> H[b].rc > 0) /\ G[b].f = H[b].f
    BY <1>2, <1>11
  <2> QED
    BY <1>0, <1>13, <2>1, <1>10, KeptSame
<1>4. \A o : Held(G, U, o) = Held(H, T, o)
  BY <1>3, HeldSame
<1>5. ASSUME NEW o \in Ids PROVE Moves(H, T, G, t, o)
  <2> DEFINE g == G[o].rc
             h == H[o].rc
             d == One(T[1] = DEC(o))
             i == One(T[1] = INC(o))
  <2>1. Occ(t, INC(o)) = 0 /\ Occ(t, DEC(o)) = 0
    BY <1>1
  <2>2. Held(H, T, o) \in Nat
    BY HeldType DEF Sound, Formed, Shaped
  <2>3. g \in Nat /\ h \in Nat /\ g + d = h + i
    BY <1>11 DEF Recounted
  <2>4. d \in Nat /\ i \in Nat
    BY OneType
  <2>5. g + Occ(t, INC(o)) + d + Held(H, T, o)
          = h + i + Held(G, U, o) + Occ(t, DEC(o))
    <3> HIDE DEF g, h, d, i
    <3> QED
      BY <2>1, <2>2, <2>3, <2>4, <1>4
  <2> QED
    BY <1>4, <2>2, <2>3, <2>5 DEF Moves
<1>6. ASSUME NEW o \in Ids PROVE Frees(H, T, G, t, o)
  <2>1. T[1] # FREED(o)
    BY OpFields
  <2> QED
    BY <1>1, <1>2, <1>11, <2>1, FreesNothing
<1>7. ASSUME NEW b \in Ids, G[b].rc > 0 PROVE Shaped(G, U, b)
  <2>1. H[b].rc > 0
    BY <1>2, <1>7
  <2>2. \A x : Stale(T, b, x) => Stale(U, b, x)
    BY <1>0, <1>10, StaleKept
  <2> QED
    BY <1>11, <2>1, <2>2, ShapeKept
<1>8. Lasts(H, T, G)
  <2>1. \A p \in Ids : H[p].rc > 0 /\ (T[1] = DEC(p) => H[p].rc > 1) => G[p].rc > 0
    BY <1>2
  <2>2. \A b \in Ids : \A x \in DOMAIN H[b].f : \E y \in DOMAIN G[b].f : G[b].f[y] = H[b].f[x]
    BY <1>11
  <2>3. \A b, p : T[1] \notin {APPEND(b, p), PREPEND(b, p)}
    BY OpFields
  <2> QED
    BY <2>1, <2>2, <2>3 DEF Lasts
<1>9. Typed(H, G)
  BY <1>11 DEF Typed
<1>14. \A i \in 1..Len(t) : Fits(G, t[i])
  BY <1>12
<1> QED
  BY <1>0, <1>5, <1>6, <1>7, <1>8, <1>9, <1>10, <1>13, <1>14, SoundAfter

-----------------------------------------------------------------------------
(* free.                                                                     *)
Clears(H, G, o) ==
    /\ G[o].rc = 0 /\ G[o].k = "free" /\ G[o].f = <<>>
    /\ \A p \in Ids \ {o} : G[p] = H[p]

LEMMA StepFrees ==
    ASSUME NEW H, NEW T, NEW R, Sound(H, T, R), T # <<>>, NEW o \in Ids,
           T[1] = FREED(o), NEW G, Clears(H, G, o)
    PROVE  Sound(G, Tail(T), R)
<1> DEFINE t == <<>>
           U == Rest(T, t)
<1>0. T \in Seq(Op) /\ t \in Seq(Op) /\ 1 \in 1..Len(T)
  BY LenProperties DEF Sound, Formed
<1>1. Len(t) = 0 /\ \A i \in 1..Len(t) : FALSE
  OBVIOUS
<1>2. OneStore(T, t) /\ GuardedFirst(G, T, R, t) /\ \A b : NoSet(t, b)
  BY <1>1 DEF OneStore, GuardedFirst, NoSet
<1>3. \A e : Occ(t, e) = 0
  BY OccShort
<1>4. Tail(T) = U /\ T[1].op = "free"
  BY <1>0, OpFields DEF Rest
<1> HIDE DEF t
<1>5. H[o].k # "free" /\ H[o].rc = 0
  <2>1. Occ(T, FREED(o)) > 0
    BY <1>0, OccType
  <2>2. Occ(T, FREED(o)) = One(H[o].k # "free" /\ H[o].rc = 0)
    BY DEF Sound, FreedOnce
  <2> QED
    BY <2>1, <2>2 DEF One
<1>15. \A p \in Ids : p # o => G[p] = H[p]
  BY DEF Clears
<1>16. \A p \in Ids : H[p].rc \in Nat
  BY DEF Sound, Formed
<1>6. ASSUME NEW p \in Ids
      PROVE  /\ H[p].rc \in Nat /\ G[p].rc \in Nat /\ G[p].rc = H[p].rc
             /\ H[p].rc > 0 => G[p].k = H[p].k /\ G[p].f = H[p].f /\ G[p].ps = H[p].ps
  <2>1. CASE p = o
    BY <1>5, <1>16, <2>1 DEF Clears
  <2>2. CASE p # o
    BY <1>15, <1>16, <2>2
  <2> QED
    BY <2>1, <2>2
<1>7. ASSUME NEW b \in Ids
      PROVE  /\ \A p : Kept(G, U, b, p) = Kept(H, T, b, p)
             /\ \A x : Stale(U, b, x) <=> Stale(T, b, x)
  <2>1. (G[b].rc > 0 <=> H[b].rc > 0) /\ (H[b].rc > 0 => G[b].f = H[b].f) /\ T[1].op # "set"
    BY <1>4, <1>6
  <2> QED
    BY <1>0, <1>2, <2>1, KeptSame
<1>8. \A p : Held(G, U, p) = Held(H, T, p)
  BY <1>7, HeldSame
<1>9. ASSUME NEW b \in Ids, G[b].rc > 0 PROVE Shaped(G, U, b)
  <2>1. \A p \in Ids : H[p].rc > 0 => G[p].k = H[p].k
    BY <1>6
  <2>2. H[b].rc > 0 /\ G[b].f = H[b].f /\ G[b].ps = H[b].ps
    BY <1>6, <1>9
  <2> QED
    BY <1>7, <2>1, <2>2, ShapeKept
<1>10. ASSUME NEW p \in Ids PROVE Moves(H, T, G, t, p)
  <2>1. Held(H, T, p) \in Nat
    BY HeldType DEF Sound, Formed, Shaped
  <2>2. One(T[1] = DEC(p)) = 0 /\ One(T[1] = INC(p)) = 0
    BY OpFields DEF One
  <2>3. Occ(t, INC(p)) = 0 /\ Occ(t, DEC(p)) = 0
    BY <1>3
  <2> DEFINE h == H[p].rc
  <2>4. G[p].rc = h /\ h \in Nat
    BY <1>6
  <2> HIDE DEF h
  <2>5. h + 0 + 0 + Held(H, T, p) = h + 0 + Held(H, T, p) + 0
    BY <2>1, <2>4
  <2> QED
    BY <1>8, <2>1, <2>2, <2>3, <2>4, <2>5 DEF Moves, h
<1>11. ASSUME NEW p \in Ids PROVE Frees(H, T, G, t, p)
  <2>1. CASE p = o
    <3>1. /\ One(H[p].k # "free" /\ H[p].rc = 0) = 1
          /\ One(G[p].k # "free" /\ G[p].rc = 0) = 0
          /\ One(T[1] = FREED(p)) = 1
          /\ G[p].rc = 0 /\ G[p].f = <<>>
      BY <1>5, <2>1 DEF One, Clears
    <3> QED
      BY <1>3, <3>1 DEF Frees
  <2>2. CASE p # o
    <3>1. G[p] = H[p] /\ T[1] # FREED(p)
      BY <2>2, OpEq DEF Clears
    <3> QED
      BY <1>3, <1>6, <3>1, FreesNothing
  <2> QED
    BY <2>1, <2>2
<1>12. Lasts(H, T, G)
  <2>1. \A b, p : T[1] \notin {APPEND(b, p), PREPEND(b, p)}
    BY OpFields
  <2> QED
    BY <1>6, <2>1 DEF Lasts
<1>13. Typed(H, G)
  BY <1>6 DEF Typed
<1>14. \A i \in 1..Len(t) : Fits(G, t[i])
  BY <1>1
<1> QED
  BY <1>0, <1>2, <1>4, <1>9, <1>10, <1>11, <1>12, <1>13, <1>14, SoundAfter

-----------------------------------------------------------------------------
(* DEC_REF of the last reference: the destructor drops what the object holds.*)
Dies(H, G, o) ==
    /\ G[o].rc = 0 /\ G[o].k = H[o].k /\ G[o].f = H[o].f /\ G[o].ps = H[o].ps
    /\ \A p \in Ids \ {o} : G[p] = H[p]

\* t drops the fields of o and frees it.
Drains(H, o, t) ==
    /\ \A i \in 1..Len(t) : t[i].op \in {"dec", "free"}
    /\ \A p \in Ids : /\ Occ(t, DEC(p)) = Occ(H[o].f, p)
                      /\ Occ(t, FREED(p)) = One(p = o)

LEMMA StepDies ==
    ASSUME NEW H, NEW T, NEW R, Sound(H, T, R), T # <<>>, NEW o \in Ids,
           T[1] = DEC(o), H[o].rc = 1, NEW t \in Seq(Op), Drains(H, o, t), NEW G, Dies(H, G, o)
    PROVE  Sound(G, Rest(T, t), R)
<1> DEFINE U == Rest(T, t)
<1>0. T \in Seq(Op) /\ U \in Seq(Op) /\ Len(T) \in Nat /\ Len(U) \in Nat
  BY RestType, LenProperties DEF Sound, Formed
<1>1. /\ \A p \in Ids : H[p].rc \in Nat /\ G[p].rc \in Nat /\ G[p].k = H[p].k
      /\ \A p \in Ids \ {o} : G[p] = H[p]
      /\ G[o].rc = 0 /\ G[o].f = H[o].f
  BY DEF Dies, Sound, Formed
<1>2. T[1].op = "dec"
  BY OpFields
<1>3. OneStore(T, t) /\ GuardedFirst(G, T, R, t) /\ \A b : NoSet(t, b)
  BY DEF Drains, OneStore, GuardedFirst, NoSet, Mentioned
<1>4. \A i \in 1..Len(T) : o \notin Mentioned(T[i])
  <2>1. ASSUME NEW i \in 1..Len(T), o \in Mentioned(T[i]) PROVE FALSE
    <3>1. Safe(H, T, R, i, o)
      BY <2>1 DEF Sound, Guarded
    <3>2. CASE i = 1
      BY <1>2, <2>1, <3>2 DEF Mentioned
    <3>3. CASE i # 1
      <4>1. i \in 2..Len(T)
        BY <3>3
      <4>2. H[o].rc > 1
        BY <3>1, <4>1, NoDeath
      <4> QED
        BY <4>2
    <3> QED
      BY <3>2, <3>3
  <2> QED
    BY <2>1
<1>5. \A x : ~Stale(T, o, x)
  BY <1>4 DEF Stale, Mentioned
<1>6. ASSUME NEW p PROVE Kept(H, T, o, p) = Places(H[o].f, p) /\ Kept(G, U, o, p) = {}
  <2>1. H[o].rc > 0 /\ ~(G[o].rc > 0)
    BY <1>1
  <2> QED
    BY <1>5, <2>1 DEF Kept, Places
<1>7. ASSUME NEW b \in Ids \ {o}
      PROVE  /\ \A p : Kept(G, U, b, p) = Kept(H, T, b, p)
             /\ \A x : Stale(U, b, x) <=> Stale(T, b, x)
  <2>1. (G[b].rc > 0 <=> H[b].rc > 0) /\ G[b].f = H[b].f /\ T[1].op # "set"
    BY <1>1, <1>2
  <2> QED
    BY <1>0, <1>3, <2>1, KeptSame
<1>8. ASSUME NEW b \in Ids, G[b].rc > 0 PROVE Shaped(G, U, b)
  <2>1. b \in Ids \ {o} /\ G[b] = H[b] /\ H[b].rc > 0
    BY <1>1, <1>8
  <2>2. \A x : Stale(T, b, x) => Stale(U, b, x)
    BY <1>7, <2>1
  <2> QED
    BY <1>1, <2>1, <2>2, ShapeKept
<1>9. ASSUME NEW p \in Ids PROVE Moves(H, T, G, t, p)
  <2>1. Held(G, U, p) + Occ(H[o].f, p) = Held(H, T, p) + 0
    <3>1. \A b \in Ids : H[b].rc > 0 => Shaped(H, T, b)
      BY DEF Sound, Formed
    <3>2. Held(G, U, p) + Cardinality(Kept(H, T, o, p))
            = Held(H, T, p) + Cardinality(Kept(G, U, o, p))
      BY <1>7, <1>8, <3>1, HeldChange DEF Shaped
    <3>3. Cardinality(Kept(H, T, o, p)) = Occ(H[o].f, p) /\ Cardinality(Kept(G, U, o, p)) = 0
      BY <1>6, FS_EmptySet DEF Occ
    <3> QED
      BY <3>2, <3>3
  <2>2. Held(H, T, p) \in Nat /\ Held(G, U, p) \in Nat
    BY <1>8, HeldType DEF Sound, Formed, Shaped
  <2>3. Occ(t, INC(p)) = 0
    <3>1. \A i \in 1..Len(t) : t[i] # INC(p)
      BY OpFields DEF Drains
    <3> QED
      BY <3>1, OccType
  <2>4. Occ(t, DEC(p)) = Occ(H[o].f, p) /\ Occ(t, DEC(p)) \in Nat
    BY OccType DEF Drains
  <2> DEFINE g == G[p].rc
             h == H[p].rc
             d == One(T[1] = DEC(p))
             i == One(T[1] = INC(p))
  <2>5. g \in Nat /\ h \in Nat /\ i = 0 /\ d \in Nat /\ g + d = h
    <3>1. i = 0
      BY OpFields DEF One
    <3>2. CASE p = o
      <4>1. d = 1
        BY <3>2 DEF One
      <4> QED
        BY <1>1, <3>1, <3>2, <4>1
    <3>3. CASE p # o
      <4>1. d = 0
        BY <3>3, OpEq DEF One
      <4> QED
        BY <1>1, <3>1, <3>3, <4>1
    <3> QED
      BY <3>2, <3>3
  <2> DEFINE a == Occ(t, INC(p))
             c == Occ(t, DEC(p))
             m == Held(H, T, p)
             n == Held(G, U, p)
  <2>6. m \in Nat /\ n \in Nat /\ a = 0 /\ c \in Nat /\ n + c = m + 0
    BY <2>1, <2>2, <2>3, <2>4
  <2> HIDE DEF g, h, d, i, a, c, m, n
  <2>7. g + a + d + m = h + i + n + c
    BY <2>5, <2>6
  <2> QED
    BY <2>2, <2>5, <2>7 DEF Moves, g, h, d, i, a, c, m, n
<1>10. ASSUME NEW p \in Ids PROVE Frees(H, T, G, t, p)
  <2>1. T[1] # FREED(p)
    BY OpFields
  <2>2. CASE p = o
    <3>1. H[o].k # "free" /\ G[o].k # "free"
      BY <1>1 DEF Sound, FreedOnce
    <3>2. Occ(t, FREED(p)) = 1
      BY <2>2 DEF Drains, One
    <3>3. /\ One(H[p].k # "free" /\ H[p].rc = 0) = 0
          /\ One(G[p].k # "free" /\ G[p].rc = 0) = 1
          /\ One(T[1] = FREED(p)) = 0
      BY <1>1, <2>1, <2>2, <3>1 DEF One
    <3> QED
      BY <2>2, <3>1, <3>2, <3>3 DEF Frees
  <2>3. CASE p # o
    <3>1. G[p] = H[p]
      BY <1>1, <2>3
    <3>2. Occ(t, FREED(p)) = 0
      BY <2>3 DEF Drains, One
    <3> QED
      BY <1>1, <2>1, <3>1, <3>2, FreesNothing
  <2> QED
    BY <2>2, <2>3
<1>11. Lasts(H, T, G)
  <2>1. ASSUME NEW p \in Ids, H[p].rc > 0, T[1] = DEC(p) => H[p].rc > 1 PROVE G[p].rc > 0
    <3>1. p # o
      BY <2>1
    <3> QED
      BY <1>1, <2>1, <3>1
  <2>2. \A b \in Ids : G[b].f = H[b].f
    BY <1>1
  <2>3. \A b, p : T[1] \notin {APPEND(b, p), PREPEND(b, p)}
    BY OpFields
  <2> QED
    BY <2>1, <2>2, <2>3 DEF Lasts
<1>12. Typed(H, G)
  <2>1. \A p \in Ids : H[p].rc > 0 => G[p].ps = H[p].ps
    BY <1>1 DEF Dies
  <2> QED
    BY <1>1, <2>1 DEF Typed
<1>13. \A i \in 1..Len(t) : Fits(G, t[i])
  BY DEF Drains, Fits
<1> QED
  BY <1>0, <1>3, <1>8, <1>9, <1>10, <1>11, <1>12, <1>13, SoundAfter

LEMMA OccPair ==
    ASSUME NEW a, NEW b, NEW e
    PROVE  Occ(<<a, b>>, e) = One(a = e) + One(b = e)
<1> DEFINE S == {a, b}
           s == <<a, b>>
           u == Tail(s)
<1>1. s \in Seq(S) /\ s # <<>> /\ Head(s) = a /\ u = <<b>>
  OBVIOUS
<1> HIDE DEF s, S, u
<1>2. Occ(s, e) = One(a = e) + Occ(Tail(s), e)
  BY <1>1, OccTail
<1> QED
  BY <1>1, <1>2, OccShort DEF s, u

-----------------------------------------------------------------------------
(* map_put: the old value goes before the new one is stored.                 *)
Replaces(H, m, n, v) == <<DEC(H[m].f[n]), SET(m, n, v)>>

LEMMA StepPut ==
    ASSUME NEW H, NEW T, NEW R, Sound(H, T, R), T # <<>>,
           NEW m \in Ids, NEW n \in Names, NEW v \in Maybe, T[1] = PUT(m, n, v),
           NEW t, t = Replaces(H, m, n, v)
    PROVE  t \in Seq(Op) /\ Sound(H, Rest(T, t), R)
<1> DEFINE U == Rest(T, t)
           old == H[m].f[n]
<1>0. T \in Seq(Op) /\ Alone(T) /\ Len(T) \in Nat \ {0}
  BY LenProperties DEF Sound, Formed
<1>1. T[1].op = "put" /\ T[1].o = m /\ T[1].x = n /\ T[1].v = v
  BY OpFields
<1>2. m \in Mentioned(T[1]) /\ H[m].rc > 0 /\ 1 \in 1..Len(T)
  <2>1. m \in Mentioned(T[1])
    BY <1>1 DEF Mentioned
  <2> QED
    BY <1>0, <2>1, MentionedCounted DEF Sound
<1>3. Shaped(H, T, m) /\ H[m].k = "map" /\ Accepts(H, m, n, v)
  <2>1. Fits(H, T[1])
    BY <1>2 DEF Sound, Formed
  <2> QED
    BY <1>1, <1>2, <2>1 DEF Sound, Formed, Fits
<1>4. DOMAIN H[m].f = Names /\ old \in Maybe
  BY <1>3 DEF Shaped, Framed
<1>5. t \in Seq(Op) /\ Len(t) = 2 /\ t[1] = DEC(old) /\ t[2] = SET(m, n, v)
  <2>1. DEC(old) \in Op /\ SET(m, n, v) \in Op
    BY <1>4, OpTypes
  <2> QED
    BY <2>1 DEF Replaces
<1>20. t \in Seq(Op)
  BY <1>5
<1>6. \A e : Occ(t, e) = One(DEC(old) = e) + One(SET(m, n, v) = e)
  BY OccPair DEF Replaces
<1> HIDE DEF old
<1>7. /\ t[1].op = "dec" /\ t[2].op = "set" /\ t[2].o = m /\ t[2].x = n /\ t[2].v = v
      /\ \A i \in 1..Len(t) : i = 1 \/ i = 2
  BY <1>5, OpFields
<1>8. OneStore(T, t) /\ \A b : b # m => NoSet(t, b)
  BY <1>1, <1>5, <1>7 DEF OneStore, NoSet
<1>9. \A x : ~Stale(T, m, x)
  <2>1. ASSUME NEW j \in 1..Len(T), T[j].op = "set", T[j].o = m PROVE FALSE
    <3>1. 1 < j
      BY <1>1, <2>1
    <3> QED
      BY <1>0, <1>1, <1>2, <2>1, <3>1 DEF Alone
  <2> QED
    BY <2>1 DEF Stale
<1>10. ASSUME NEW x PROVE Stale(U, m, x) <=> x = n
  <2>1. Stale(U, m, n)
    <3>1. 2 \in 1..Len(t)
      BY <1>5
    <3>2. 2 \in 1..Len(U) /\ U[2] = t[2]
      BY <1>0, <1>5, <3>1, RestEarly
    <3> QED
      BY <1>7, <3>2 DEF Stale
  <2>2. ASSUME Stale(U, m, x) PROVE x = n
    <3>1. \/ \E i \in 1..Len(t) : t[i].op = "set" /\ t[i].o = m /\ t[i].x = x
          \/ \E i \in 2..Len(T) : T[i].op = "set" /\ T[i].o = m /\ T[i].x = x
      BY <1>0, <1>20, <2>2, StaleKept
    <3>2. ASSUME NEW i \in 2..Len(T), T[i].op = "set" /\ T[i].o = m /\ T[i].x = x PROVE FALSE
      <4>1. i \in 1..Len(T)
        OBVIOUS
      <4> QED
        BY <1>9, <3>2, <4>1 DEF Stale
    <3> QED
      BY <1>7, <3>1, <3>2
  <2> QED
    BY <2>1, <2>2
<1>11. ASSUME NEW b \in Ids \ {m}
       PROVE  /\ \A p : Kept(H, U, b, p) = Kept(H, T, b, p)
              /\ \A x : Stale(U, b, x) <=> Stale(T, b, x)
  <2>1. NoSet(t, b) /\ T[1].op # "set"
    BY <1>1, <1>8
  <2> QED
    BY <1>0, <1>20, <2>1, KeptSame
<1>12. ASSUME NEW b \in Ids, H[b].rc > 0 PROVE Shaped(H, U, b)
  <2>1. \A x : Stale(T, b, x) => Stale(U, b, x)
    BY <1>9, <1>11
  <2> QED
    BY <1>12, <2>1, ShapeKept
<1>13. ASSUME NEW p \in Ids
       PROVE  /\ Held(H, T, p) = Held(H, U, p) + One(old = p)
              /\ Held(H, T, p) \in Nat /\ Held(H, U, p) \in Nat
  <2> DEFINE A == Kept(H, T, m, p)
             B == Kept(H, U, m, p)
  <2>1. A = Places(H[m].f, p) /\ B = Places(H[m].f, p) \ {n}
    BY <1>2, <1>9, <1>10 DEF Kept
  <2>2. n \in A <=> old = p
    BY <1>4, <2>1 DEF Places, old
  <2>3. IsFiniteSet(A)
    BY <1>3, KeptFinite DEF Shaped
  <2>4. \A b \in Ids : H[b].rc > 0 => Shaped(H, T, b)
    BY DEF Sound, Formed
  <2>5. Held(H, U, p) + Cardinality(A) = Held(H, T, p) + Cardinality(B)
    BY <1>11, <1>12, <2>4, HeldChange DEF Shaped
  <2>6. Held(H, T, p) \in Nat /\ Held(H, U, p) \in Nat
    BY <1>12, <2>4, HeldType DEF Shaped
  <2> HIDE DEF A, B
  <2>7. B = A \ {n}
    BY <2>1
  <2>8. Cardinality(A) \in Nat /\ Cardinality(B) = IF n \in A THEN Cardinality(A) - 1 ELSE Cardinality(A)
    BY <2>3, <2>7, FS_CardinalityType, FS_RemoveElement
  <2> QED
    BY <2>2, <2>5, <2>6, <2>8 DEF One
<1>14. ASSUME NEW p \in Ids PROVE Moves(H, T, H, t, p)
  <2>1. One(T[1] = DEC(p)) = 0 /\ One(T[1] = INC(p)) = 0
    BY OpFields DEF One
  <2>2. Occ(t, INC(p)) = 0 /\ Occ(t, DEC(p)) = One(old = p)
    <3>1. DEC(old) # INC(p) /\ SET(m, n, v) # INC(p) /\ SET(m, n, v) # DEC(p)
          /\ (DEC(old) = DEC(p) <=> old = p)
      BY OpFields, OpEq
    <3>2. /\ Occ(t, INC(p)) = One(DEC(old) = INC(p)) + One(SET(m, n, v) = INC(p))
          /\ Occ(t, DEC(p)) = One(DEC(old) = DEC(p)) + One(SET(m, n, v) = DEC(p))
      BY <1>6
    <3>3. One(DEC(old) = INC(p)) = 0 /\ One(SET(m, n, v) = INC(p)) = 0
          /\ One(SET(m, n, v) = DEC(p)) = 0 /\ One(DEC(old) = DEC(p)) = One(old = p)
          /\ One(old = p) \in Nat
      BY <3>1 DEF One
    <3> QED
      BY <3>2, <3>3
  <2> DEFINE h == H[p].rc
             d == One(old = p)
  <2>3. h \in Nat /\ d \in Nat
    BY OneType DEF Sound, Formed
  <2>4. Held(H, T, p) = Held(H, U, p) + d /\ Held(H, T, p) \in Nat /\ Held(H, U, p) \in Nat
    BY <1>13
  <2>5. Occ(t, INC(p)) = 0 /\ Occ(t, DEC(p)) = d
    BY <2>2
  <2> HIDE DEF h, d
  <2>6. h + 0 + 0 + Held(H, T, p) = h + 0 + Held(H, U, p) + d
    BY <2>3, <2>4
  <2> QED
    BY <2>1, <2>3, <2>4, <2>5, <2>6 DEF Moves, h
<1>15. ASSUME NEW p \in Ids PROVE Frees(H, T, H, t, p)
  <2>1. T[1] # FREED(p) /\ DEC(old) # FREED(p) /\ SET(m, n, v) # FREED(p)
    BY OpFields
  <2>2. Occ(t, FREED(p)) = 0
    BY <1>6, <2>1 DEF One
  <2>3. H[p].rc \in Nat
    BY DEF Sound, Formed
  <2> QED
    BY <2>1, <2>2, <2>3, FreesNothing
<1>16. Lasts(H, T, H)
  <2>1. \A b, p : T[1] \notin {APPEND(b, p), PREPEND(b, p)}
    BY OpFields
  <2> QED
    BY <2>1 DEF Lasts
<1>17. Typed(H, H)
  BY DEF Typed, Sound, Formed
<1>18. \A i \in 1..Len(t) : Fits(H, t[i])
  <2>1. Fits(H, t[1]) /\ Fits(H, t[2])
    BY <1>3, <1>7 DEF Fits
  <2> QED
    BY <1>7, <2>1
<1>19. GuardedFirst(H, T, R, t)
  <2>1. ASSUME NEW o \in Mentioned(t[2]) PROVE Safe(H, U, R, 2, o)
    <3>1. o \in Mentioned(T[1])
      BY <1>1, <1>7, <2>1 DEF Mentioned
    <3>2. PICK S \in SUBSET Ids : o \in S /\ Supported(H, T, R, 1, S)
      BY <1>2, <3>1 DEF Sound, Guarded, Safe
    <3>3. ASSUME NEW e, T[1] # e, t[2] # e PROVE OccFrom(U, 2, e) = OccFrom(T, 1, e)
      <4>1. U \in Seq(Op) /\ 2 \in 1..Len(U) /\ U[2] = t[2]
        <5>1. 2 \in 1..Len(t)
          BY <1>5
        <5>2. 2 \in 1..Len(U) /\ U[2] = t[2]
          BY <1>0, <1>20, <5>1, RestEarly
        <5>3. U \in Seq(Op)
          BY <1>0, <1>20, RestType
        <5> QED
          BY <5>2, <5>3
      <4>2. OccFrom(U, 2, e) = One(U[2] = e) + OccFrom(U, 3, e) /\ OccFrom(U, 3, e) \in Nat
        <5>1. OccFrom(U, 2, e) = One(U[2] = e) + OccFrom(U, 2 + 1, e)
          BY <4>1, FromStep
        <5>2. 3 \in Nat \ {0}
          OBVIOUS
        <5>3. OccFrom(U, 3, e) \in Nat
          BY <4>1, <5>2, FromType
        <5> QED
          BY <5>1, <5>3
      <4>3. OccFrom(U, 3, e) = OccFrom(T, 2, e)
        <5>1. 2 \in Nat /\ 2 > 1 /\ 2 + Len(t) - 1 = 3
          BY <1>5
        <5>2. OccFrom(t \o Tail(T), 2 + Len(t) - 1, e) = OccFrom(T, 2, e)
          BY <1>0, <1>20, <5>1, FromShift
        <5> QED
          BY <5>1, <5>2 DEF Rest
      <4>4. OccFrom(T, 1, e) = One(T[1] = e) + OccFrom(T, 1 + 1, e)
        BY <1>0, <1>2, FromStep
      <4>5. One(U[2] = e) = 0 /\ One(T[1] = e) = 0
        BY <3>3, <4>1 DEF One
      <4> QED
        BY <4>2, <4>3, <4>4, <4>5
    <3>4. \A b, p : Holds(H, T, b, p, 1) => Holds(H, U, b, p, 2)
      <4>1. ASSUME NEW b, NEW p, Holds(H, T, b, p, 1) PROVE Holds(H, U, b, p, 2)
        <5>1. Steady(T, b) /\ \E x \in DOMAIN H[b].f : H[b].f[x] = p
          BY <4>1 DEF Holds
        <5>2. Steady(U, b)
          BY <1>0, <1>5, <1>8, <5>1, SteadyKept
        <5> QED
          BY <5>1, <5>2 DEF Holds
      <4> QED
        BY <4>1
    <3>5. ASSUME NEW p \in S
          PROVE  OccFrom(U, 2, INC(p))
                   < R[p] + OccFrom(U, 2, DEC(p)) + One(\E b \in S : Holds(H, U, b, p, 2))
      <4>1. /\ OccFrom(U, 2, INC(p)) = OccFrom(T, 1, INC(p))
            /\ OccFrom(U, 2, DEC(p)) = OccFrom(T, 1, DEC(p))
        BY <1>1, <1>7, <3>3, OpFields
      <4> DEFINE a == \E b \in S : Holds(H, T, b, p, 1)
                 c == \E b \in S : Holds(H, U, b, p, 2)
      <4>2. a => c
        BY <3>4
      <4>3. OccFrom(T, 1, INC(p)) < R[p] + OccFrom(T, 1, DEC(p)) + One(a)
        BY <3>2 DEF Supported
      <4>4. OccFrom(T, 1, INC(p)) \in Nat /\ OccFrom(T, 1, DEC(p)) \in Nat
        BY <1>0, FromType
      <4> HIDE DEF a, c
      <4> DEFINE r == R[p]
                 d == One(a)
                 g == One(c)
      <4>5. r \in Nat /\ d \in Nat /\ g \in Nat /\ d <= g
        BY <4>2 DEF One, Sound, Formed
      <4>6. OccFrom(T, 1, INC(p)) < r + OccFrom(T, 1, DEC(p)) + d
        BY <4>3
      <4> HIDE DEF r, d, g
      <4>7. OccFrom(T, 1, INC(p)) < r + OccFrom(T, 1, DEC(p)) + g
        BY <4>4, <4>5, <4>6
      <4> QED
        BY <4>1, <4>7 DEF r, g, c
    <3>6. Supported(H, U, R, 2, S)
      BY <3>2, <3>5 DEF Supported
    <3> QED
      BY <3>2, <3>6 DEF Safe
  <2> QED
    BY <1>7, <2>1 DEF GuardedFirst, Mentioned
<1> QED
  BY <1>5, <1>8, <1>12, <1>14, <1>15, <1>16, <1>17, <1>18, <1>19, SoundAfter

\* No operation and its effects, for an operation that leaves nothing to do.
LEMMA NothingFirst ==
    ASSUME NEW G, NEW T \in Seq(Op), T # <<>>, NEW R
    PROVE  /\ <<>> \in Seq(Op) /\ Tail(T) = Rest(T, <<>>)
           /\ OneStore(T, <<>>) /\ GuardedFirst(G, T, R, <<>>)
           /\ \A b : NoSet(<<>>, b)
           /\ \A e : Occ(<<>>, e) = 0
           /\ \A i \in 1..Len(<<>>) : Fits(G, <<>>[i])
<1>1. Len(<<>>) = 0 /\ \A i \in 1..Len(<<>>) : FALSE
  OBVIOUS
<1>2. <<>> \in Seq(Op) /\ Tail(T) = <<>> \o Tail(T)
  OBVIOUS
<1>3. \A e : Occ(<<>>, e) = 0
  BY OccShort
<1>4. OneStore(T, <<>>) /\ GuardedFirst(G, T, R, <<>>) /\ \A b : NoSet(<<>>, b)
  BY <1>1 DEF OneStore, GuardedFirst, NoSet
<1> QED
  BY <1>1, <1>2, <1>3, <1>4 DEF Rest

-----------------------------------------------------------------------------
(* A value counted and stored in a field.                                    *)
Counted(H, G, v) ==
    \A p \in Ids : /\ G[p].k = H[p].k /\ G[p].ps = H[p].ps
                   /\ G[p].rc = H[p].rc + One(p = v)

\* Where a value with references is counted once more, types, deaths and
\* balance of counts follow.
LEMMA CountedMore ==
    ASSUME NEW H, NEW T, NEW R, Sound(H, T, R), T # <<>>,
           NEW v, v \in Ids => H[v].rc > 0,
           T[1].op \in {"set", "append", "prepend"},
           NEW G, Counted(H, G, v), NEW b \in Ids, H[b].rc > 0,
           \A p \in Ids \ {b} : G[p].f = H[p].f,
           NEW t, \A e : Occ(t, e) = 0
    PROVE  /\ \A p \in Ids : /\ G[p].rc \in Nat /\ H[p].rc \in Nat
                             /\ G[p].rc > 0 <=> H[p].rc > 0
                             /\ G[p].k = H[p].k
           /\ Typed(H, G)
           /\ \A p \in Ids : Frees(H, T, G, t, p)
           /\ \A p \in Ids : Held(G, Rest(T, t), p) = Held(H, T, p) + One(p = v)
                 => Moves(H, T, G, t, p)
<1>1. ASSUME NEW p \in Ids
      PROVE  /\ G[p].rc \in Nat /\ H[p].rc \in Nat /\ (G[p].rc > 0 <=> H[p].rc > 0)
             /\ G[p].k = H[p].k /\ G[p].ps = H[p].ps
  <2> DEFINE g == G[p].rc
             h == H[p].rc
             d == One(p = v)
  <2>1. h \in Nat /\ d \in Nat /\ g = h + d /\ (d > 0 => h > 0)
    BY DEF Sound, Formed, Counted, One
  <2>2. G[p].k = H[p].k /\ G[p].ps = H[p].ps
    BY DEF Counted
  <2> HIDE DEF g, h, d
  <2>3. g \in Nat /\ h \in Nat /\ (g > 0 <=> h > 0)
    BY <2>1
  <2> QED
    BY <2>2, <2>3 DEF g, h
<1>2. ASSUME NEW p \in Ids PROVE Frees(H, T, G, t, p)
  <2>1. T[1] # FREED(p)
    BY OpFields
  <2>2. G[p].k = "free" => G[p].f = H[p].f
    <3>1. H[b].k # "free"
      BY DEF Sound, FreedOnce
    <3> QED
      BY <1>1, <3>1
  <2> QED
    BY <1>1, <2>1, <2>2, FreesNothing
<1>3. ASSUME NEW p \in Ids, Held(G, Rest(T, t), p) = Held(H, T, p) + One(p = v)
      PROVE  Moves(H, T, G, t, p)
  <2>1. One(T[1] = DEC(p)) = 0 /\ One(T[1] = INC(p)) = 0
    BY OpFields DEF One
  <2>2. Held(H, T, p) \in Nat
    BY HeldType DEF Sound, Formed, Shaped
  <2>3. Occ(t, INC(p)) = 0 /\ Occ(t, DEC(p)) = 0
    OBVIOUS
  <2> DEFINE g == G[p].rc
             h == H[p].rc
             d == One(p = v)
             u == Held(G, Rest(T, t), p)
  <2>4. h \in Nat /\ d \in Nat /\ g = h + d /\ u = Held(H, T, p) + d
    BY <1>1, <1>3, OneType DEF Counted
  <2> HIDE DEF g, h, d, u
  <2>5. g \in Nat /\ u \in Nat /\ g + 0 + 0 + Held(H, T, p) = h + 0 + u + 0
    BY <2>2, <2>4
  <2> QED
    BY <2>1, <2>3, <2>5 DEF Moves, g, h, u
<1>4. Typed(H, G)
  BY <1>1 DEF Typed
<1> QED
  BY <1>1, <1>2, <1>3, <1>4

LEMMA StepSet ==
    ASSUME NEW H, NEW T, NEW R, Sound(H, T, R), T # <<>>,
           NEW b \in Ids, NEW x, NEW v \in Maybe, T[1] = SET(b, x, v),
           NEW G, Counted(H, G, v), G[b].f = [H[b].f EXCEPT ![x] = v],
           \A p \in Ids \ {b} : G[p].f = H[p].f
    PROVE  Sound(G, Tail(T), R)
<1> DEFINE t == <<>>
           U == Rest(T, t)
<1>0. T \in Seq(Op) /\ Alone(T) /\ t \in Seq(Op)
  BY DEF Sound, Formed
<1>1. /\ Tail(T) = U /\ OneStore(T, t) /\ GuardedFirst(G, T, R, t)
      /\ \A h : NoSet(t, h)
  BY <1>0, NothingFirst
<1>2. (\A e : Occ(t, e) = 0) /\ \A i \in 1..Len(t) : Fits(G, t[i])
  BY <1>0, NothingFirst
<1>3. ~\E i \in 1..Len(t) : t[i].op = "set" /\ t[i].o = b /\ t[i].x = x
  OBVIOUS
<1> HIDE DEF t
<1>4. T[1].op = "set" /\ T[1].o = b /\ T[1].x = x /\ T[1].v = v
  BY OpFields
<1>5. 1 \in 1..Len(T) /\ H[b].rc > 0 /\ (v \in Ids => H[v].rc > 0)
  <2>1. 1 \in 1..Len(T)
    BY <1>0, LenProperties
  <2>2. b \in Mentioned(T[1]) /\ (v \in Ids => v \in Mentioned(T[1]))
    BY <1>4 DEF Mentioned
  <2> QED
    BY <2>1, <2>2, MentionedCounted DEF Sound
<1>6. Shaped(H, T, b) /\ H[b].k # "list" /\ Accepts(H, b, x, v)
  BY <1>4, <1>5 DEF Sound, Formed, Fits
<1>7. Framed(H, b) /\ x \in DOMAIN H[b].f
  <2>1. Framed(H, b)
    BY <1>6 DEF Shaped
  <2> QED
    BY <1>6, <2>1 DEF Framed, Accepts
<1>8. DOMAIN G[b].f = DOMAIN H[b].f /\ G[b].f[x] = v
      /\ \A y \in DOMAIN H[b].f : y # x => G[b].f[y] = H[b].f[y]
  BY <1>7
<1>9. T[1].op \in {"set", "append", "prepend"}
  BY <1>4
<1>10. /\ \A p \in Ids : /\ G[p].rc \in Nat /\ H[p].rc \in Nat
                         /\ G[p].rc > 0 <=> H[p].rc > 0
                         /\ G[p].k = H[p].k
       /\ Typed(H, G)
       /\ \A p \in Ids : Frees(H, T, G, t, p)
       /\ \A p \in Ids : Held(G, U, p) = Held(H, T, p) + One(p = v) => Moves(H, T, G, t, p)
  BY <1>2, <1>5, <1>9, CountedMore, ZenonT(60)
<1>11. Stale(T, b, x) /\ ~Stale(U, b, x)
  <2>1. Stale(T, b, x)
    BY <1>4, <1>5 DEF Stale
  <2>2. ASSUME Stale(U, b, x) PROVE FALSE
    <3>0. \/ \E i \in 1..Len(t) : t[i].op = "set" /\ t[i].o = b /\ t[i].x = x
          \/ \E i \in 2..Len(T) : T[i].op = "set" /\ T[i].o = b /\ T[i].x = x
      BY <1>0, <2>2, StaleKept
    <3>1. PICK i \in 2..Len(T) : T[i].op = "set" /\ T[i].o = b /\ T[i].x = x
      BY <1>3, <3>0
    <3>2. i \in 1..Len(T) /\ 1 < i
      OBVIOUS
    <3> QED
      BY <1>0, <1>4, <1>5, <3>1, <3>2 DEF Alone
  <2> QED
    BY <2>1, <2>2
<1>12. ASSUME NEW y, y # x PROVE Stale(U, b, y) <=> Stale(T, b, y)
  <2>1. ASSUME Stale(U, b, y) PROVE Stale(T, b, y)
    <3>1. \/ \E i \in 1..Len(t) : t[i].op = "set" /\ t[i].o = b /\ t[i].x = y
          \/ \E i \in 2..Len(T) : T[i].op = "set" /\ T[i].o = b /\ T[i].x = y
      BY <1>0, <2>1, StaleKept
    <3>2. PICK i \in 2..Len(T) : T[i].op = "set" /\ T[i].o = b /\ T[i].x = y
      BY <1>1, <3>1 DEF NoSet
    <3>3. i \in 1..Len(T)
      OBVIOUS
    <3> QED
      BY <3>2, <3>3 DEF Stale
  <2> QED
    BY <1>0, <1>4, <1>12, <2>1, StaleKept
<1>13. ASSUME NEW h \in Ids \ {b}
       PROVE  /\ \A p : Kept(G, U, h, p) = Kept(H, T, h, p)
              /\ \A y : Stale(U, h, y) <=> Stale(T, h, y)
  <2>1. NoSet(t, h) /\ T[1].o # h /\ (G[h].rc > 0 <=> H[h].rc > 0) /\ G[h].f = H[h].f
    BY <1>1, <1>4, <1>10
  <2> QED
    BY <1>0, <2>1, KeptSame
<1>14. ASSUME NEW h \in Ids, G[h].rc > 0 PROVE Shaped(G, U, h)
  <2>1. \A p \in Ids : H[p].rc > 0 => G[p].k = H[p].k
    BY <1>10
  <2>2. H[h].rc > 0 /\ G[h].ps = H[h].ps
    BY <1>10, <1>14 DEF Counted
  <2>3. CASE h # b
    <3>1. G[h].f = H[h].f /\ \A y : Stale(T, h, y) => Stale(U, h, y)
      BY <1>13, <2>3
    <3> QED
      BY <2>1, <2>2, <3>1, ShapeKept
  <2>4. CASE h = b
    <3>1. Framed(G, b)
      BY <1>6, <1>7, <1>8, <1>10, <2>2, <2>4 DEF Framed, Accepts
    <3>2. Accepts(G, b, x, v)
      BY <1>6, <1>10, AcceptsKept
    <3>3. ASSUME NEW y \in DOMAIN G[b].f
          PROVE  \/ G[b].f[y] \in Maybe /\ Accepts(G, b, y, G[b].f[y])
                 \/ /\ y \in DOMAIN H[b].f /\ G[b].f[y] = H[b].f[y]
                    /\ Stale(T, b, y) => Stale(U, b, y)
      BY <1>8, <1>12, <3>2
    <3> QED
      BY <1>5, <2>1, <2>4, <3>1, <3>3, ShapeStored
  <2> QED
    BY <2>3, <2>4
<1>15. ASSUME NEW p \in Ids PROVE Moves(H, T, G, t, p)
  <2> DEFINE A == Kept(H, T, b, p)
             B == Kept(G, U, b, p)
  <2>1. x \notin A
    BY <1>11 DEF Kept
  <2>2. B = IF p = v THEN A \cup {x} ELSE A
    <3>1. \A y : y # x => (y \in B <=> y \in A)
      BY <1>5, <1>8, <1>10, <1>12 DEF Kept, Places
    <3>2. x \in B <=> p = v
      BY <1>5, <1>7, <1>8, <1>10, <1>11 DEF Kept, Places
    <3> HIDE DEF A, B
    <3>3. CASE p = v
      <4>1. \A y : y \in B <=> y \in A \cup {x}
        BY <3>1, <3>2, <3>3
      <4> QED
        BY <3>3, <4>1
    <3>4. CASE p # v
      <4>1. \A y : y \in B <=> y \in A
        BY <2>1, <3>1, <3>2, <3>4
      <4> QED
        BY <3>4, <4>1
    <3> QED
      BY <3>3, <3>4
  <2>3. IsFiniteSet(A)
    BY <1>6, KeptFinite DEF Shaped
  <2>4. \A h \in Ids : H[h].rc > 0 => Shaped(H, T, h)
    BY DEF Sound, Formed
  <2>5. Held(G, U, p) + Cardinality(A) = Held(H, T, p) + Cardinality(B)
    BY <1>13, <1>14, <2>4, HeldChange DEF Shaped
  <2>6. Held(H, T, p) \in Nat /\ Held(G, U, p) \in Nat
    BY <1>14, <2>4, HeldType DEF Shaped
  <2> HIDE DEF A, B
  <2>7. Cardinality(A) \in Nat /\ Cardinality(A \cup {x}) = Cardinality(A) + 1
    BY <2>1, <2>3, FS_CardinalityType, FS_AddElement
  <2>8. Cardinality(B) = Cardinality(A) + One(p = v)
    BY <2>2, <2>7 DEF One
  <2> DEFINE d == One(p = v)
  <2>9. d \in Nat /\ Cardinality(B) = Cardinality(A) + d
    BY <2>8, OneType
  <2> HIDE DEF d
  <2>10. Held(G, U, p) = Held(H, T, p) + d
    BY <2>5, <2>6, <2>7, <2>9
  <2> QED
    BY <1>10, <2>10 DEF d
<1>16. Lasts(H, T, G)
  <2>1. \A h, p : T[1] \notin {APPEND(h, p), PREPEND(h, p)}
    BY OpFields
  <2>2. ASSUME NEW h \in Ids, Steady(T, h) PROVE G[h].f = H[h].f
    BY <1>4, <1>5, <2>2 DEF Steady
  <2>3. \A h \in Ids : Steady(T, h) /\ H[h].rc > 0 =>
           \A y \in DOMAIN H[h].f : \E z \in DOMAIN G[h].f : G[h].f[z] = H[h].f[y]
    BY <2>2
  <2> QED
    BY <1>10, <2>1, <2>3 DEF Lasts
<1> QED
  BY <1>0, <1>1, <1>2, <1>10, <1>14, <1>15, <1>16, SoundAfter, ZenonT(60)

-----------------------------------------------------------------------------
(* list_append and list_prepend.                                             *)
Inserted(f, g, v) == g = Append(f, v) \/ g = <<v>> \o f

LEMMA InsertedSeq ==
    ASSUME NEW S, NEW f \in Seq(S), NEW v \in S, NEW g, Inserted(f, g, v)
    PROVE  /\ g \in Seq(S) /\ \A p : Occ(g, p) = Occ(f, p) + One(v = p)
           /\ \E y \in DOMAIN g : g[y] = v
           /\ \A y \in DOMAIN f : \E z \in DOMAIN g : g[z] = f[y]
           /\ \A y \in DOMAIN g : g[y] = v \/ \E z \in DOMAIN f : g[y] = f[z]
<1>4. Append(f, v) \in Seq(S) /\ <<v>> \o f \in Seq(S)
  <2>1. <<v>> \in Seq(S)
    OBVIOUS
  <2> QED
    BY <2>1
<1>5. ASSUME NEW p
      PROVE  /\ Occ(Append(f, v), p) = Occ(f, p) + One(v = p)
             /\ Occ(<<v>> \o f, p) = Occ(f, p) + One(v = p)
  BY OccAppend
<1>1. g \in Seq(S)
  BY <1>4, Zenon DEF Inserted
<1>2. \A p : Occ(g, p) = Occ(f, p) + One(v = p)
  BY <1>5, Zenon DEF Inserted
<1>3. ASSUME NEW p
      PROVE  (\E y \in DOMAIN g : g[y] = p) <=> (\E y \in DOMAIN f : f[y] = p) \/ v = p
  <2>1. Occ(f, p) \in Nat /\ (Occ(f, p) > 0 <=> \E y \in DOMAIN f : f[y] = p)
    BY SeqFinite, PlacesFinite
  <2>2. Occ(g, p) \in Nat /\ (Occ(g, p) > 0 <=> \E y \in DOMAIN g : g[y] = p)
    BY <1>1, SeqFinite, PlacesFinite
  <2>3. Occ(g, p) = Occ(f, p) + IF v = p THEN 1 ELSE 0
    BY <1>2 DEF One
  <2>4. Occ(g, p) > 0 <=> Occ(f, p) > 0 \/ v = p
    BY <2>1, <2>2, <2>3
  <2> QED
    BY <2>1, <2>2, <2>4
<1> QED
  BY <1>1, <1>2, <1>3

LEMMA StepInsert ==
    ASSUME NEW H, NEW T, NEW R, Sound(H, T, R), T # <<>>,
           NEW l \in Ids, NEW v \in Ids, T[1] \in {APPEND(l, v), PREPEND(l, v)},
           NEW G, Counted(H, G, v),
           Inserted(H[l].f, G[l].f, v),
           \A p \in Ids \ {l} : G[p].f = H[p].f
    PROVE  Sound(G, Tail(T), R)
<1> DEFINE t == <<>>
           U == Rest(T, t)
<1>0. T \in Seq(Op) /\ t \in Seq(Op)
  BY DEF Sound, Formed
<1>1. /\ Tail(T) = U /\ OneStore(T, t) /\ GuardedFirst(G, T, R, t)
      /\ \A h : NoSet(t, h)
  BY <1>0, NothingFirst
<1>2. (\A e : Occ(t, e) = 0) /\ \A i \in 1..Len(t) : Fits(G, t[i])
  BY <1>0, NothingFirst
<1> HIDE DEF t
<1>4. T[1].op \in {"append", "prepend"} /\ T[1].o = l /\ T[1].v = v
  BY OpFields
<1>5. 1 \in 1..Len(T) /\ H[l].rc > 0 /\ H[v].rc > 0
  <2>1. 1 \in 1..Len(T)
    BY <1>0, LenProperties
  <2>2. l \in Mentioned(T[1]) /\ v \in Mentioned(T[1])
    BY <1>4 DEF Mentioned
  <2> QED
    BY <2>1, <2>2, MentionedCounted DEF Sound
<1>6. Shaped(H, T, l) /\ H[l].k = "list" /\ IsA(H, v, Items)
  BY <1>4, <1>5 DEF Sound, Formed, Fits, IsA
<1>7. H[l].f \in Seq(Ids)
  BY <1>6 DEF Shaped, Framed
<1>8. G[l].f \in Seq(Ids) /\ \A p : Occ(G[l].f, p) = Occ(H[l].f, p) + One(v = p)
  BY <1>7, InsertedSeq
<1>9. /\ \E y \in DOMAIN G[l].f : G[l].f[y] = v
      /\ \A y \in DOMAIN H[l].f : \E z \in DOMAIN G[l].f : G[l].f[z] = H[l].f[y]
      /\ \A y \in DOMAIN G[l].f : G[l].f[y] = v \/ \E z \in DOMAIN H[l].f : G[l].f[y] = H[l].f[z]
  BY <1>7, InsertedSeq
<1>10. /\ \A p \in Ids : /\ G[p].rc \in Nat /\ H[p].rc \in Nat
                         /\ G[p].rc > 0 <=> H[p].rc > 0
                         /\ G[p].k = H[p].k
       /\ Typed(H, G)
       /\ \A p \in Ids : Frees(H, T, G, t, p)
       /\ \A p \in Ids : Held(G, U, p) = Held(H, T, p) + One(p = v) => Moves(H, T, G, t, p)
  <2>1. T[1].op \in {"set", "append", "prepend"}
    BY <1>4
  <2> QED
    BY <1>2, <1>5, <2>1, CountedMore, ZenonT(60)
<1>11. ASSUME NEW h \in Ids
       PROVE  \A y : Stale(U, h, y) <=> Stale(T, h, y)
  <2>1. T[1].op # "set" /\ NoSet(t, h)
    BY <1>1, <1>4
  <2>2. ASSUME NEW y, Stale(U, h, y) PROVE Stale(T, h, y)
    <3>1. \/ \E i \in 1..Len(t) : t[i].op = "set" /\ t[i].o = h /\ t[i].x = y
          \/ \E i \in 2..Len(T) : T[i].op = "set" /\ T[i].o = h /\ T[i].x = y
      BY <1>0, <2>2, StaleKept
    <3>2. PICK i \in 2..Len(T) : T[i].op = "set" /\ T[i].o = h /\ T[i].x = y
      BY <2>1, <3>1 DEF NoSet
    <3>3. i \in 1..Len(T)
      OBVIOUS
    <3> QED
      BY <3>2, <3>3 DEF Stale
  <2> QED
    BY <1>0, <2>1, <2>2, StaleKept
<1>12. ASSUME NEW h \in Ids \ {l} PROVE \A p : Kept(G, U, h, p) = Kept(H, T, h, p)
  <2>1. T[1].op # "set" /\ NoSet(t, h) /\ (G[h].rc > 0 <=> H[h].rc > 0) /\ G[h].f = H[h].f
    BY <1>1, <1>4, <1>10
  <2> QED
    BY <1>0, <2>1, KeptSame
<1>13. \A y : ~Stale(T, l, y) /\ ~Stale(U, l, y)
  <2>1. ASSUME NEW i \in 1..Len(T), T[i].op = "set" PROVE T[i].o # l
    BY <1>6, <2>1 DEF Sound, Formed, Fits
  <2> QED
    BY <1>11, <2>1 DEF Stale
<1>14. ASSUME NEW h \in Ids, G[h].rc > 0 PROVE Shaped(G, U, h)
  <2>1. \A p \in Ids : H[p].rc > 0 => G[p].k = H[p].k
    BY <1>10
  <2>2. H[h].rc > 0 /\ G[h].ps = H[h].ps
    BY <1>10, <1>14 DEF Counted
  <2>3. CASE h # l
    <3>1. G[h].f = H[h].f /\ \A y : Stale(T, h, y) => Stale(U, h, y)
      BY <1>11, <2>3
    <3> QED
      BY <2>1, <2>2, <3>1, ShapeKept
  <2>4. CASE h = l
    <3>1. Framed(G, l) /\ G[l].k = "list"
      BY <1>6, <1>8, <1>10 DEF Framed
    <3>2. ASSUME NEW y \in DOMAIN G[l].f
          PROVE  G[l].f[y] \in Maybe /\ Accepts(G, l, y, G[l].f[y])
      <4>1. CASE G[l].f[y] = v
        BY <1>6, <1>10, <3>1, <4>1 DEF Accepts, IsA, Maybe
      <4>2. CASE \E z \in DOMAIN H[l].f : G[l].f[y] = H[l].f[z]
        <5>1. PICK z \in DOMAIN H[l].f : G[l].f[y] = H[l].f[z]
          BY <4>2
        <5> DEFINE w == H[l].f[z]
        <5>2. Accepts(H, l, z, w)
          BY <1>6, <1>13 DEF Shaped
        <5>3. IsA(H, w, Items)
          BY <1>6, <5>2 DEF Accepts
        <5>4. w \in Ids
          BY <5>3 DEF IsA
        <5>5. H[w].rc > 0
          BY <1>5, <1>13, <5>4, FieldCounted
        <5>6. IsA(G, w, Items)
          BY <1>10, <5>3, <5>4 DEF IsA
        <5> HIDE DEF w
        <5>7. w \in Maybe /\ Accepts(G, l, y, w)
          BY <3>1, <5>4, <5>6 DEF Accepts, Maybe
        <5> QED
          BY <5>1, <5>7 DEF w
      <4> QED
        BY <1>9, <4>1, <4>2
    <3> QED
      BY <2>4, <3>1, <3>2 DEF Shaped
  <2> QED
    BY <2>3, <2>4
<1>15. ASSUME NEW p \in Ids PROVE Moves(H, T, G, t, p)
  <2>1. Cardinality(Kept(H, T, l, p)) = Occ(H[l].f, p)
        /\ Cardinality(Kept(G, U, l, p)) = Occ(G[l].f, p)
    <3>1. Kept(H, T, l, p) = Places(H[l].f, p) /\ Kept(G, U, l, p) = Places(G[l].f, p)
      BY <1>5, <1>10, <1>13 DEF Kept, Places
    <3> QED
      BY <3>1 DEF Occ
  <2>2. \A h \in Ids : H[h].rc > 0 => Shaped(H, T, h)
    BY DEF Sound, Formed
  <2>3. Held(G, U, p) + Cardinality(Kept(H, T, l, p)) = Held(H, T, p) + Cardinality(Kept(G, U, l, p))
    BY <1>12, <1>14, <2>2, HeldChange DEF Shaped
  <2>4. Held(H, T, p) \in Nat /\ Held(G, U, p) \in Nat
    BY <1>14, <2>2, HeldType DEF Shaped
  <2> DEFINE d == One(p = v)
             c == Occ(H[l].f, p)
             g == Occ(G[l].f, p)
  <2>5. c \in Nat /\ d \in Nat /\ g = c + d
    <3>1. g = c + One(v = p) /\ c \in Nat
      BY <1>7, <1>8, OccType
    <3>2. d = One(v = p) /\ d \in Nat
      BY DEF One
    <3> QED
      BY <3>1, <3>2
  <2>6. Held(G, U, p) + c = Held(H, T, p) + g
    BY <2>1, <2>3
  <2> HIDE DEF d, c, g
  <2>7. Held(G, U, p) = Held(H, T, p) + d
    BY <2>4, <2>5, <2>6
  <2> QED
    BY <1>10, <2>7 DEF d
<1>16. Lasts(H, T, G)
  <2>1. ASSUME NEW h \in Ids, NEW p \in Ids, T[1] \in {APPEND(h, p), PREPEND(h, p)}
        PROVE  \E y \in DOMAIN G[h].f : G[h].f[y] = p
    <3>1. h = l /\ p = v
      BY <1>4, <2>1, OpFields
    <3> QED
      BY <1>9, <3>1
  <2>2. ASSUME NEW h \in Ids
        PROVE  \A y \in DOMAIN H[h].f : \E z \in DOMAIN G[h].f : G[h].f[z] = H[h].f[y]
    <3>1. CASE h = l
      BY <1>9, <3>1
    <3>2. CASE h # l
      BY <3>2
    <3> QED
      BY <3>1, <3>2
  <2> QED
    BY <1>10, <2>1, <2>2 DEF Lasts
<1> QED
  BY <1>0, <1>1, <1>2, <1>10, <1>14, <1>15, <1>16, SoundAfter, ZenonT(60)

-----------------------------------------------------------------------------
(* What a destructor does.                                                   *)

LEMMA Numbered ==
    ASSUME NEW S, IsFiniteSet(S)
    PROVE  Cardinality(S) \in Nat /\ SetToSeq(S) \in Bijection(1..Cardinality(S), S)
<1> DEFINE n == Cardinality(S)
           f == SetToSeq(S)
<1>1. n \in Nat /\ ExistsBijection(1..n, S)
  BY FS_CardinalityType
<1>2. \E g \in [1..n -> S] : IsInjective(g)
  BY <1>1 DEF ExistsBijection, Bijection, Injection
<1>3. f \in [1..n -> S] /\ IsInjective(f)
  BY <1>2 DEF SetToSeq
<1>4. f \in Injection(1..n, S)
  BY <1>3 DEF Injection
<1>5. Cardinality(1..n) = n
  BY <1>1, FS_Interval
<1> HIDE DEF f, n
<1>6. f \in Surjection(1..n, S)
  <2>1. Cardinality(1..n) = Cardinality(S)
    BY <1>5 DEF n
  <2> QED
    BY <1>4, <2>1, FS_Injection
<1> QED
  BY <1>1, <1>4, <1>6 DEF Bijection, f, n

\* s lists, by way of a numbering of the domain of f, what f has there.
LEMMA OccThrough ==
    ASSUME NEW D, NEW f, DOMAIN f = D, NEW I, IsFiniteSet(I), NEW g \in Bijection(I, D),
           NEW s, DOMAIN s = I, NEW w, NEW e, \A i \in I : s[i] = w <=> f[g[i]] = e
    PROVE  Occ(s, w) = Occ(f, e)
<1> DEFINE A == Places(s, w)
           B == Places(f, e)
           h == [i \in A |-> g[i]]
<1>1. /\ g \in [I -> D] /\ \A i, j \in I : g[i] = g[j] => i = j
      /\ \A x \in D : \E i \in I : g[i] = x
  BY DEF Bijection, Injection, Surjection, IsInjective
<1>2. A \in SUBSET I /\ \A i \in I : i \in A <=> f[g[i]] = e
  BY DEF Places
<1>3. B \in SUBSET D /\ \A x \in D : x \in B <=> f[x] = e
  BY DEF Places
<1> HIDE DEF A, B
<1>4. h \in [A -> B]
  BY <1>1, <1>2, <1>3
<1>5. \A i, j \in A : h[i] = h[j] => i = j
  BY <1>1, <1>2
<1>6. \A x \in B : \E i \in A : h[i] = x
  BY <1>1, <1>2, <1>3
<1>7. h \in Bijection(A, B)
  BY <1>4, <1>5, <1>6 DEF Bijection, Injection, Surjection, IsInjective
<1>8. IsFiniteSet(A)
  BY <1>2, FS_Subset
<1>9. Cardinality(A) = Cardinality(B)
  BY <1>7, <1>8, FS_Bijection DEF ExistsBijection
<1> QED
  BY <1>9 DEF Occ, A, B

LEMMA DestructDrains ==
    ASSUME NEW R, NEW T, Sound(heap, T, R), NEW o \in Ids, heap[o].rc > 0
    PROVE  Destruct(o) \in Seq(Op) /\ Drains(heap, o, Destruct(o))
<1> DEFINE f == heap[o].f
           D == DOMAIN f
           fs == Order(o)
           d == [i \in DOMAIN fs |-> DEC(Field(o, fs[i]))]
<1>1. Shaped(heap, T, o)
  BY DEF Sound, Formed
<1>2. \A x \in D : f[x] \in Maybe
  BY <1>1 DEF Shaped
<1>3. \E n \in Nat : DOMAIN fs = 1..n /\ fs \in Bijection(1..n, D)
  <2>1. CASE heap[o].k = "map"
    <3>1. fs = SetToSeq(Names) /\ D = Names
      BY <1>1, <2>1 DEF Order, Shaped, Framed
    <3>2. Cardinality(Names) \in Nat /\ fs \in Bijection(1..Cardinality(Names), D)
      BY <3>1, Numbered, NamesAssumption
    <3>3. DOMAIN fs = 1..Cardinality(Names)
      BY <3>2 DEF Bijection, Injection
    <3> QED
      BY <3>2, <3>3
  <2>2. CASE heap[o].k # "map"
    <3>1. fs = [i \in D |-> i]
      BY <2>2 DEF Order
    <3>2. fs \in Bijection(D, D) /\ DOMAIN fs = D
      BY <3>1 DEF Bijection, Injection, Surjection, IsInjective
    <3>3. \E n \in Nat : D = 1..n
      <4>1. CASE f \in Seq(Ids)
        BY <4>1, LenProperties
      <4>2. CASE D = 1..3
        BY <4>2
      <4>3. CASE D = 1..1
        BY <4>3
      <4>4. CASE f = <<>>
        <5>1. D = 1..0
          BY <4>4
        <5> QED
          BY <5>1
      <4> QED
        BY <1>1, <2>2, <4>1, <4>2, <4>3, <4>4 DEF Shaped, Framed
    <3> QED
      BY <3>2, <3>3
  <2> QED
    BY <2>1, <2>2
<1>4. PICK n \in Nat : DOMAIN fs = 1..n /\ fs \in Bijection(1..n, D)
  BY <1>3
<1>5. \A i \in 1..n : fs[i] \in D
  BY <1>4 DEF Bijection, Injection
<1> HIDE DEF fs
<1>6. DOMAIN d = 1..n /\ \A i \in 1..n : d[i] = DEC(f[fs[i]])
  BY <1>4 DEF Field
<1>7. d \in Seq(Drops) /\ Len(d) = n
  <2>1. \A i \in 1..n : d[i] \in Drops
    BY <1>2, <1>5, <1>6 DEF Drops
  <2>2. d \in [1..n -> Drops]
    BY <1>6, <2>1
  <2> QED
    BY <2>2
<1>8. Destruct(o) = Append(d, FREED(o)) /\ d \in Seq(Op) /\ FREED(o) \in Op
  <2>1. Destruct(o) = d \o <<FREED(o)>>
    BY DEF Destruct, fs
  <2>2. d \in Seq(Op)
    BY <1>7 DEF Op
  <2>3. FREED(o) \in Op
    BY OpTypes
  <2> HIDE DEF d
  <2> QED
    BY <2>1, <2>2, <2>3
<1>9. \A i \in 1..n : d[i].op = "dec"
  BY <1>6, OpFields
<1>10. ASSUME NEW p PROVE Occ(d, DEC(p)) = Occ(f, p)
  <2>1. \A i \in 1..n : d[i] = DEC(p) <=> f[fs[i]] = p
    BY <1>6, OpEq
  <2>2. IsFiniteSet(1..n)
    BY FS_Interval
  <2> HIDE DEF d
  <2> QED
    BY <1>4, <1>6, <2>1, <2>2, OccThrough
<1> HIDE DEF d
<1>11. ASSUME NEW p PROVE Occ(d, FREED(p)) = 0 /\ Occ(d, DEC(p)) \in Nat
  <2>1. \A i \in 1..Len(d) : d[i] # FREED(p)
    BY <1>7, <1>9, OpFields
  <2> QED
    BY <1>8, <2>1, OccType
<1>12. ASSUME NEW i \in 1..Len(Destruct(o)) PROVE Destruct(o)[i].op \in {"dec", "free"}
  <2>1. i \in 1..n + 1
    BY <1>7, <1>8, AppendProperties
  <2>2. CASE i = n + 1
    BY <1>7, <1>8, <2>2, OpFields, AppendProperties
  <2>3. CASE i \in 1..n
    BY <1>7, <1>8, <1>9, <2>3, AppendProperties
  <2> QED
    BY <2>1, <2>2, <2>3
<1>13. ASSUME NEW p \in Ids
       PROVE  /\ Occ(Destruct(o), DEC(p)) = Occ(f, p)
              /\ Occ(Destruct(o), FREED(p)) = One(p = o)
  <2>1. FREED(o) # DEC(p) /\ (FREED(o) = FREED(p) <=> p = o)
    BY OpFields, OpEq
  <2> DEFINE z == FREED(o)
  <2>4. d \in Seq(Op) /\ z \in Op
    BY <1>8
  <2>5. <<z>> \in Seq(Op) /\ Append(d, z) = d \o <<z>>
    BY <2>4
  <2>6. \A e : Occ(d \o <<z>>, e) = Occ(d, e) + Occ(<<z>>, e)
    BY <2>4, <2>5, OccConcat
  <2>2. \A e : Occ(Append(d, z), e) = Occ(d, e) + One(z = e)
    BY <2>5, <2>6, OccShort
  <2>3. One(FREED(o) = DEC(p)) = 0 /\ One(FREED(o) = FREED(p)) = One(p = o)
        /\ One(p = o) \in Nat
    BY <2>1 DEF One
  <2> QED
    BY <1>8, <1>10, <1>11, <2>2, <2>3
<1> QED
  BY <1>8, <1>12, <1>13 DEF Drains

-----------------------------------------------------------------------------
(* The step of the specification.                                            *)

Boxed(h) == h = [k |-> h.k, rc |-> h.rc, f |-> h.f, ps |-> h.ps]

LEMMA AfterDec ==
    ASSUME NEW s, s.op = "dec", NEW o, Boxed(heap[o])
    PROVE  /\ Boxed(After(s, o)) /\ After(s, o).k = heap[o].k
           /\ After(s, o).f = heap[o].f /\ After(s, o).ps = heap[o].ps
           /\ After(s, o).rc = IF o = s.o THEN heap[o].rc - 1 ELSE heap[o].rc
<1> DEFINE h == heap[o]
<1>1. After(s, o) = IF o = s.o THEN [h EXCEPT !.rc = @ - 1] ELSE [h EXCEPT !.f = @, !.rc = @]
  BY DEF After
<1>2. h = [k |-> h.k, rc |-> h.rc, f |-> h.f, ps |-> h.ps]
  BY DEF Boxed
<1> HIDE DEF h
<1> QED
  BY <1>1, <1>2 DEF Boxed, h

LEMMA AfterFree ==
    ASSUME NEW s, s.op = "free", NEW o, Boxed(heap[o])
    PROVE  /\ Boxed(After(s, o))
           /\ After(s, o) = IF o = s.o THEN FREE ELSE heap[o]
<1> DEFINE h == heap[o]
<1>1. After(s, o) = IF o = s.o THEN FREE ELSE [h EXCEPT !.f = @, !.rc = @]
  BY DEF After
<1>2. h = [k |-> h.k, rc |-> h.rc, f |-> h.f, ps |-> h.ps]
  BY DEF Boxed
<1> HIDE DEF h
<1>3. [h EXCEPT !.f = @, !.rc = @] = h
  BY <1>2
<1>4. Boxed(FREE)
  BY DEF Boxed, FREE
<1> QED
  BY <1>1, <1>3, <1>4 DEF h

\* What a count and a store make of the fields and the count of o.
Fielded(s, o) ==
    IF s.op = "set" /\ o = s.o THEN [heap[o].f EXCEPT ![s.x] = s.v]
    ELSE IF s.op = "append" /\ o = s.o THEN Append(heap[o].f, s.v)
    ELSE IF s.op = "prepend" /\ o = s.o THEN <<s.v>> \o heap[o].f
    ELSE heap[o].f
Raised(s, o) ==
    IF s.op = "inc" /\ o = s.o THEN heap[o].rc + 1
    ELSE IF s.op \in {"set", "append", "prepend"} /\ o = s.v THEN heap[o].rc + 1
    ELSE heap[o].rc

LEMMA AfterOther ==
    ASSUME NEW s, s.op # "dec", s.op # "free", NEW o, Boxed(heap[o])
    PROVE  /\ Boxed(After(s, o))
           /\ After(s, o).k = heap[o].k /\ After(s, o).ps = heap[o].ps
           /\ After(s, o).f = Fielded(s, o) /\ After(s, o).rc = Raised(s, o)
<1> DEFINE h == heap[o]
           g == Fielded(s, o)
           c == Raised(s, o)
<1>1. After(s, o) = [h EXCEPT !.f = g, !.rc = c]
  BY DEF After, Fielded, Raised
<1>2. h = [k |-> h.k, rc |-> h.rc, f |-> h.f, ps |-> h.ps]
  BY DEF Boxed
<1> HIDE DEF h, g, c
<1>3. [h EXCEPT !.f = g, !.rc = c] = [k |-> h.k, rc |-> c, f |-> g, ps |-> h.ps]
  <2> DEFINE a == h.k
             b == h.rc
             d == h.f
             e == h.ps
  <2>1. h = [k |-> a, rc |-> b, f |-> d, ps |-> e]
    BY <1>2
  <2> HIDE DEF a, b, d, e
  <2>2. [[k |-> a, rc |-> b, f |-> d, ps |-> e] EXCEPT !.f = g]
          = [k |-> a, rc |-> b, f |-> g, ps |-> e]
    OBVIOUS
  <2>3. [[k |-> a, rc |-> b, f |-> g, ps |-> e] EXCEPT !.rc = c]
          = [k |-> a, rc |-> c, f |-> g, ps |-> e]
    OBVIOUS
  <2>4. [h EXCEPT !.f = g, !.rc = c] = [k |-> a, rc |-> c, f |-> g, ps |-> e]
    BY <2>1, <2>2, <2>3
  <2> QED
    BY <2>4 DEF a, e
<1>4. /\ Boxed(After(s, o)) /\ After(s, o).k = h.k /\ After(s, o).ps = h.ps
      /\ After(s, o).f = g /\ After(s, o).rc = c
  BY <1>1, <1>3 DEF Boxed
<1> QED
  BY <1>4 DEF g, c, h

\* The heap after an operation.
Done(s) == [o \in Ids |-> After(s, o)]
Records(H) == H = [o \in Ids |-> H[o]] /\ \A o \in Ids : Boxed(H[o])

LEMMA StepSound ==
    ASSUME NEW R, NEW T, Sound(heap, T, R), T # <<>>, Records(heap)
    PROVE  /\ Sound(Done(Head(T)), Then(Head(T)) \o Tail(T), R)
           /\ \A o \in Ids : Boxed(Done(Head(T))[o])
<1> DEFINE s == Head(T)
           G == Done(s)
           U == Then(s) \o Tail(T)
<1>0. T \in Seq(Op) /\ T[1] = s /\ s \in Op /\ 1 \in 1..Len(T) /\ Tail(T) \in Seq(Op)
  <2>1. T \in Seq(Op)
    BY DEF Sound, Formed
  <2>2. <<>> \in Seq(Op)
    OBVIOUS
  <2> QED
    BY <2>1, <2>2, RestType, HeadTailProperties
<1>1. \A o \in Ids : G[o] = After(s, o) /\ Boxed(heap[o])
  BY DEF Records, Done
<1>2. \A o \in Ids : heap[o].rc \in Nat
  BY DEF Sound, Formed
<1> HIDE DEF s, G
<1>3. ASSUME NEW o \in Ids PROVE Boxed(G[o])
  BY <1>1, AfterDec, AfterFree, AfterOther
<1>12. ASSUME s.op # "dec", s.op # "free", NEW o \in Ids
       PROVE  /\ G[o].k = heap[o].k /\ G[o].ps = heap[o].ps
              /\ G[o].f = Fielded(s, o) /\ G[o].rc = Raised(s, o)
  BY <1>1, <1>12, AfterOther
<1>4. ASSUME s.op \notin {"dec", "put"} PROVE Then(s) = <<>> /\ U = Tail(T)
  <2>1. Then(s) = <<>>
    BY <1>4 DEF Then
  <2> QED
    BY <1>0, <2>1
<1>5. ASSUME s.op \in {"inc", "read", "name"} PROVE Sound(G, U, R)
  <2>1. ASSUME NEW o \in Ids
        PROVE  /\ G[o].k = heap[o].k /\ G[o].f = heap[o].f /\ G[o].ps = heap[o].ps
               /\ G[o].rc = IF s.op = "inc" /\ o = s.o THEN heap[o].rc + 1 ELSE heap[o].rc
    BY <1>5, <1>12 DEF Fielded, Raised
  <2>2. ASSUME NEW o \in Ids PROVE s = INC(o) <=> s.op = "inc" /\ o = s.o
    BY <1>0, <1>5, OpForms, OpFields, OpEq
  <2>3. Recounted(heap, T, G)
    <3> SUFFICES ASSUME NEW o \in Ids
                 PROVE  /\ G[o].rc + One(s = DEC(o)) = heap[o].rc + One(s = INC(o))
                        /\ G[o].rc \in Nat /\ s # DEC(o)
      BY <1>0, <2>1 DEF Recounted
    <3>1. s # DEC(o) /\ One(s = DEC(o)) = 0
      BY <1>5, OpFields DEF One
    <3> DEFINE h == heap[o].rc
               i == One(s = INC(o))
    <3>2. h \in Nat /\ G[o].rc = h + i /\ i \in Nat
      BY <1>2, <2>1, <2>2 DEF One
    <3> HIDE DEF h, i
    <3>3. G[o].rc + 0 = h + i /\ G[o].rc \in Nat
      BY <3>2
    <3> QED
      BY <3>1, <3>3 DEF h, i
  <2> QED
    BY <1>0, <1>4, <1>5, <2>3, StepCounted
<1>6. ASSUME NEW o \in Ids, s = FREED(o) PROVE Sound(G, U, R)
  <2>1. s.op = "free" /\ s.o = o
    BY <1>6, OpFields
  <2>2. Clears(heap, G, o)
    <3>1. G[o] = FREE /\ \A p \in Ids \ {o} : G[p] = heap[p]
      BY <1>1, <2>1, AfterFree
    <3> QED
      BY <3>1 DEF Clears, FREE
  <2> QED
    BY <1>0, <1>4, <1>6, <2>1, <2>2, StepFrees
<1>7. ASSUME NEW o \in Maybe, s = DEC(o) PROVE Sound(G, U, R)
  <2>1. s.op = "dec" /\ s.o = o
    BY <1>7, OpFields
  <2>2. ASSUME NEW p \in Ids
        PROVE  /\ G[p].k = heap[p].k /\ G[p].f = heap[p].f /\ G[p].ps = heap[p].ps
               /\ G[p].rc = IF p = o THEN heap[p].rc - 1 ELSE heap[p].rc
    BY <1>1, <2>1, AfterDec
  <2>3. CASE o \in Ids /\ heap[o].rc = 1
    <3>1. Then(s) = Destruct(o)
      <4>1. o # NULL
        BY <2>3, IdsFinite
      <4> QED
        BY <2>1, <2>3, <4>1 DEF Then
    <3>2. Dies(heap, G, o)
      <4>1. ASSUME NEW p \in Ids \ {o} PROVE G[p] = heap[p]
        <5>1. G[p].k = heap[p].k /\ G[p].f = heap[p].f /\ G[p].ps = heap[p].ps
              /\ G[p].rc = heap[p].rc
          BY <2>2
        <5> QED
          BY <1>1, <1>3, <5>1 DEF Boxed
      <4>2. G[o].rc = 0
        BY <2>2, <2>3
      <4> QED
        BY <2>2, <2>3, <4>1, <4>2 DEF Dies
    <3>3. Destruct(o) \in Seq(Op) /\ Drains(heap, o, Destruct(o))
      BY <2>3, DestructDrains
    <3>4. T[1] = DEC(o) /\ o \in Ids /\ heap[o].rc = 1
      BY <1>0, <1>7, <2>3
    <3>5. Sound(G, Rest(T, Destruct(o)), R)
      BY <3>2, <3>3, <3>4, StepDies
    <3> QED
      BY <3>1, <3>5 DEF Rest
  <2>4. CASE ~(o \in Ids /\ heap[o].rc = 1)
    <3>1. o \in Ids => heap[o].rc > 1
      <4>1. ASSUME o \in Ids PROVE heap[o].rc > 0
        <5>1. Occ(T, DEC(o)) > 0
          BY <1>0, <1>7, OccType
        <5> QED
          BY <4>1, <5>1, RefCounted
      <4> QED
        BY <1>2, <2>4, <4>1
    <3>2. Then(s) = <<>>
      BY <2>1, <2>4, <1>7 DEF Then, Maybe
    <3>3. Recounted(heap, T, G)
      <4> SUFFICES ASSUME NEW p \in Ids
                   PROVE  /\ G[p].rc + One(s = DEC(p)) = heap[p].rc + One(s = INC(p))
                          /\ G[p].rc \in Nat /\ (s = DEC(p) => heap[p].rc > 1)
        BY <1>0, <2>2 DEF Recounted
      <4>1. (s = DEC(p) <=> p = o) /\ s # INC(p)
        BY <1>7, <2>1, OpEq, OpFields
      <4>2. One(s = INC(p)) = 0
        BY <4>1 DEF One
      <4>3. CASE p = o
        <5>1. One(s = DEC(p)) = 1
          BY <4>1, <4>3 DEF One
        <5> DEFINE h == heap[p].rc
        <5>2. h \in Nat /\ h > 1 /\ G[p].rc = h - 1
          BY <1>2, <2>2, <3>1, <4>3
        <5> HIDE DEF h
        <5>3. G[p].rc + 1 = h + 0 /\ G[p].rc \in Nat /\ h > 1
          BY <5>2
        <5> QED
          BY <4>2, <5>1, <5>3 DEF h
      <4>4. CASE p # o
        <5>1. One(s = DEC(p)) = 0 /\ s # DEC(p)
          BY <4>1, <4>4 DEF One
        <5>2. G[p].rc = heap[p].rc /\ heap[p].rc \in Nat
          BY <1>2, <2>2, <4>4
        <5> QED
          BY <4>2, <5>1, <5>2
      <4> QED
        BY <4>3, <4>4
    <3>4. U = Tail(T)
      BY <1>0, <3>2
    <3> QED
      BY <1>0, <2>1, <3>3, <3>4, StepCounted
  <2> QED
    BY <2>3, <2>4
<1>8. ASSUME NEW m \in Ids, NEW n \in Names, NEW v \in Maybe, s = PUT(m, n, v)
      PROVE  Sound(G, U, R)
  <2>1. s.op = "put" /\ s.o = m /\ s.x = n /\ s.v = v
    BY <1>8, OpFields
  <2>2. Then(s) = Replaces(heap, m, n, v)
    BY <2>1 DEF Then, Replaces, Field
  <2>3. G = heap
    <3>1. ASSUME NEW p \in Ids PROVE G[p] = heap[p]
      <4>1. G[p].k = heap[p].k /\ G[p].f = heap[p].f /\ G[p].ps = heap[p].ps
            /\ G[p].rc = heap[p].rc
        BY <2>1, <1>12 DEF Fielded, Raised
      <4> QED
        BY <1>1, <1>3, <4>1 DEF Boxed
    <3>2. G = [p \in Ids |-> G[p]] /\ heap = [p \in Ids |-> heap[p]]
      <4>1. G = [p \in Ids |-> After(s, p)]
        BY DEF G, Done
      <4>2. heap = [p \in Ids |-> heap[p]]
        BY DEF Records
      <4>3. G = [p \in Ids |-> G[p]]
        BY <4>1
      <4> QED
        BY <4>2, <4>3
    <3> QED
      BY <3>1, <3>2
  <2>4. T[1] = PUT(m, n, v)
    BY <1>0, <1>8
  <2>5. Sound(heap, Rest(T, Replaces(heap, m, n, v)), R)
    BY <2>4, StepPut
  <2> QED
    BY <2>2, <2>3, <2>5 DEF Rest
<1>9. ASSUME NEW b \in Ids, NEW x, NEW v \in Maybe, s = SET(b, x, v)
      PROVE  Sound(G, U, R)
  <2>1. s.op = "set" /\ s.o = b /\ s.x = x /\ s.v = v
    BY <1>9, OpFields
  <2>2. ASSUME NEW p \in Ids
        PROVE  /\ G[p].k = heap[p].k /\ G[p].ps = heap[p].ps
               /\ G[p].f = IF p = b THEN [heap[p].f EXCEPT ![x] = v] ELSE heap[p].f
               /\ G[p].rc = IF p = v THEN heap[p].rc + 1 ELSE heap[p].rc
    BY <2>1, <1>12 DEF Fielded, Raised
  <2>3. Counted(heap, G, v)
    <3> SUFFICES ASSUME NEW p \in Ids PROVE G[p].rc = heap[p].rc + One(p = v)
      BY <2>2 DEF Counted
    <3> DEFINE h == heap[p].rc
    <3>1. h \in Nat /\ G[p].rc = IF p = v THEN h + 1 ELSE h
      BY <1>2, <2>2
    <3>2. One(p = v) = IF p = v THEN 1 ELSE 0
      BY DEF One
    <3> HIDE DEF h
    <3>3. G[p].rc = h + One(p = v)
      BY <3>1, <3>2
    <3> QED
      BY <3>3 DEF h
  <2>4. G[b].f = [heap[b].f EXCEPT ![x] = v] /\ \A p \in Ids \ {b} : G[p].f = heap[p].f
    BY <2>2
  <2>5. T[1] = SET(b, x, v)
    BY <1>0, <1>9
  <2>6. Sound(G, Tail(T), R)
    BY <2>3, <2>4, <2>5, StepSet
  <2> QED
    BY <1>4, <2>1, <2>6
<1>10. ASSUME NEW l \in Ids, NEW v \in Ids, s \in {APPEND(l, v), PREPEND(l, v)}
       PROVE  Sound(G, U, R)
  <2>1. s.op \in {"append", "prepend"} /\ s.o = l /\ s.v = v
    BY <1>10, OpFields
  <2>2. ASSUME NEW p \in Ids
        PROVE  /\ G[p].k = heap[p].k /\ G[p].ps = heap[p].ps
               /\ G[p].f = IF p = l THEN IF s.op = "append" THEN Append(heap[p].f, v)
                                         ELSE <<v>> \o heap[p].f
                           ELSE heap[p].f
               /\ G[p].rc = IF p = v THEN heap[p].rc + 1 ELSE heap[p].rc
    BY <2>1, <1>12 DEF Fielded, Raised
  <2>3. Counted(heap, G, v)
    <3> SUFFICES ASSUME NEW p \in Ids PROVE G[p].rc = heap[p].rc + One(p = v)
      BY <2>2 DEF Counted
    <3> DEFINE h == heap[p].rc
    <3>1. h \in Nat /\ G[p].rc = IF p = v THEN h + 1 ELSE h
      BY <1>2, <2>2
    <3>2. One(p = v) = IF p = v THEN 1 ELSE 0
      BY DEF One
    <3> HIDE DEF h
    <3>3. G[p].rc = h + One(p = v)
      BY <3>1, <3>2
    <3> QED
      BY <3>3 DEF h
  <2>4. Inserted(heap[l].f, G[l].f, v) /\ \A p \in Ids \ {l} : G[p].f = heap[p].f
    BY <2>2 DEF Inserted
  <2>5. T[1] \in {APPEND(l, v), PREPEND(l, v)}
    BY <1>0, <1>10
  <2>6. Sound(G, Tail(T), R)
    BY <2>3, <2>4, <2>5, StepInsert
  <2> QED
    BY <1>4, <2>1, <2>6
<1>11. Sound(G, U, R)
  <2>1. ASSUME NEW o \in Ids, s \in {INC(o), READ(o), FREED(o), NAME(o)} PROVE Sound(G, U, R)
    <3>1. s = FREED(o) \/ s.op \in {"inc", "read", "name"}
      BY <2>1, OpFields
    <3> QED
      BY <1>5, <1>6, <3>1
  <2> HIDE DEF U
  <2> QED
    BY <1>0, <1>7, <1>8, <1>9, <1>10, <2>1, OpForms
<1> QED
  BY <1>3, <1>11 DEF G, s

-----------------------------------------------------------------------------
(* Instructions: one operation after another is added to what is left to do. *)

Plus(T, s) == T \o <<s>>

LEMMA PlusType ==
    ASSUME NEW T \in Seq(Op), NEW s \in Op
    PROVE  /\ Plus(T, s) \in Seq(Op) /\ Len(T) \in Nat /\ Len(Plus(T, s)) = Len(T) + 1
           /\ Plus(T, s)[Len(T) + 1] = s /\ Len(T) + 1 \in 1..Len(Plus(T, s))
           /\ \A e : Occ(Plus(T, s), e) = Occ(T, e) + One(s = e)
<1>1. <<s>> \in Seq(Op) /\ Len(<<s>>) = 1 /\ <<s>>[1] = s
  OBVIOUS
<1>2. Len(T) \in Nat
  OBVIOUS
<1>3. T \o <<s>> \in Seq(Op) /\ Len(T \o <<s>>) = Len(T) + 1
  BY <1>1
<1>4. (T \o <<s>>)[Len(T) + 1] = s
  BY <1>1, <1>2
<1>5. \A e : Occ(T \o <<s>>, e) = Occ(T, e) + One(s = e)
  <2>1. \A e : Occ(T \o <<s>>, e) = Occ(T, e) + Occ(<<s>>, e)
    BY <1>1, OccConcat
  <2> QED
    BY <2>1, OccShort
<1>6. Len(T) + 1 \in 1..Len(T) + 1
  BY <1>2
<1> QED
  BY <1>2, <1>3, <1>4, <1>5, <1>6 DEF Plus

LEMMA PlusAt ==
    ASSUME NEW T \in Seq(Op), NEW s \in Op, NEW i \in 1..Len(T)
    PROVE  Plus(T, s)[i] = T[i] /\ i \in 1..Len(Plus(T, s))
<1>1. Plus(T, s)[i] = T[i]
  BY DEF Plus
<1> QED
  BY <1>1, PlusType

LEMMA PlusWhere ==
    ASSUME NEW T \in Seq(Op), NEW s \in Op, NEW i \in 1..Len(Plus(T, s))
    PROVE  \/ i \in 1..Len(T) /\ Plus(T, s)[i] = T[i]
           \/ i = Len(T) + 1 /\ Plus(T, s)[i] = s
<1>1. Len(T) \in Nat /\ Len(Plus(T, s)) = Len(T) + 1 /\ Plus(T, s)[Len(T) + 1] = s
  BY PlusType
<1>2. i \in 1..Len(T) \/ i = Len(T) + 1
  BY <1>1
<1>3. i \in 1..Len(T) => Plus(T, s)[i] = T[i]
  BY PlusAt
<1>4. i = Len(T) + 1 => Plus(T, s)[i] = s
  BY <1>1, Zenon
<1> QED
  BY <1>2, <1>3, <1>4

LEMMA PlusFrom ==
    ASSUME NEW T \in Seq(Op), NEW s \in Op, NEW j \in 1..Len(T) + 1, NEW e
    PROVE  OccFrom(Plus(T, s), j, e) = OccFrom(T, j, e) + One(s = e)
<1> DEFINE U == Plus(T, s)
           n == Len(T)
           A == {i \in j..n : T[i] = e}
           B == {i \in j..n + 1 : U[i] = e}
<1>1. n \in Nat /\ Len(U) = n + 1 /\ U[n + 1] = s
  BY PlusType
<1>2. \A i \in 1..n : U[i] = T[i]
  BY PlusAt
<1> HIDE DEF U
<1>3. B = IF s = e THEN A \cup {n + 1} ELSE A
  BY <1>1, <1>2
<1>4. n + 1 \notin A /\ A \in SUBSET (j..n) /\ IsFiniteSet(j..n)
  <2>1. j \in Int /\ n \in Int
    BY <1>1
  <2>2. IsFiniteSet(j..n)
    BY <2>1, FS_Interval
  <2> QED
    BY <1>1, <2>2
<1>5. OccFrom(T, j, e) = Cardinality(A) /\ OccFrom(U, j, e) = Cardinality(B)
  BY <1>1 DEF OccFrom
<1> HIDE DEF A, B, n
<1>6. IsFiniteSet(A)
  BY <1>4, FS_Subset
<1>7. Cardinality(A) \in Nat /\ Cardinality(A \cup {n + 1}) = Cardinality(A) + 1
  BY <1>4, <1>6, FS_CardinalityType, FS_AddElement
<1> QED
  BY <1>3, <1>5, <1>7 DEF One, U

-----------------------------------------------------------------------------
(* What holds while an instruction is prepared: as in Sound, but a field     *)
(* that waits for its store is NULL.                                         *)

Drafted(H, b) ==
    /\ H[b].k # "free" /\ Framed(H, b)
    /\ \A x \in DOMAIN H[b].f : H[b].f[x] = NULL \/ Accepts(H, b, x, H[b].f[x])

Fillable(H, s) == s.op # "free" /\ (s.op = "set" => H[s.o].f[s.x] = NULL)

Weighed(H, T, R) ==
    \A o \in Ids : H[o].rc + Occ(T, INC(o)) = Held(H, <<>>, o) + R[o] + Occ(T, DEC(o))

Begun(H, T, R) ==
    /\ T \in Seq(Op) /\ \A o \in Ids : R[o] \in Nat /\ H[o].rc \in Nat
    /\ \A o \in Ids : H[o].rc > 0 => Drafted(H, o)
    /\ \A o \in Ids : H[o].rc = 0 => H[o].k = "free" /\ H[o].f = <<>>
    /\ \A j \in 1..Len(T) : Fits(H, T[j]) /\ Fillable(H, T[j])
    /\ Weighed(H, T, R) /\ Guarded(H, T, R) /\ Alone(T)

LEMMA EmptyTodo ==
    /\ <<>> \in Seq(Op) /\ Len(<<>>) = 0 /\ (\A i \in 1..Len(<<>>) : FALSE)
    /\ \A e : Occ(<<>>, e) = 0
    /\ \A b, x : ~Stale(<<>>, b, x)
<1>1. <<>> \in Seq(Op) /\ Len(<<>>) = 0 /\ (\A i \in 1..Len(<<>>) : FALSE)
  OBVIOUS
<1> QED
  BY <1>1, OccShort DEF Stale

\* An instruction starts from nothing to do.
LEMMA SoundBegun ==
    ASSUME NEW H, NEW R, Sound(H, <<>>, R)
    PROVE  Begun(H, <<>>, R)
<1>1. ASSUME NEW o \in Ids, H[o].rc > 0 PROVE Drafted(H, o)
  <2>1. Shaped(H, <<>>, o)
    BY <1>1 DEF Sound, Formed
  <2>2. H[o].k # "free"
    BY <1>1 DEF Sound, FreedOnce
  <2> QED
    BY <2>1, <2>2, EmptyTodo DEF Shaped, Drafted
<1>2. ASSUME NEW o \in Ids, H[o].rc = 0 PROVE H[o].k = "free" /\ H[o].f = <<>>
  BY <1>2, EmptyTodo DEF Sound, FreedOnce, One
<1>3. Weighed(H, <<>>, R)
  BY DEF Sound, Balanced, Weighed
<1>4. \A j \in 1..Len(<<>>) : Fits(H, <<>>[j]) /\ Fillable(H, <<>>[j])
  BY EmptyTodo
<1> QED
  BY <1>1, <1>2, <1>3, <1>4 DEF Begun, Sound, Formed

\* It is prepared when every field of a new object that may not stay NULL waits
\* for its store.
Filled(H, T) ==
    \A b \in Ids : H[b].k \in {"block", "function"} =>
        \A x \in DOMAIN H[b].f : H[b].f[x] = NULL => Stale(T, b, x)

LEMMA BegunSound ==
    ASSUME NEW H, NEW T, NEW R, Begun(H, T, R), Filled(H, T)
    PROVE  Sound(H, T, R)
<1>0. T \in Seq(Op) /\ \A o \in Ids : R[o] \in Nat /\ H[o].rc \in Nat
  BY DEF Begun
<1>1. ASSUME NEW b \in Ids, H[b].rc > 0 PROVE Shaped(H, T, b)
  <2>1. Drafted(H, b)
    BY <1>1 DEF Begun
  <2>2. ASSUME NEW x \in DOMAIN H[b].f
        PROVE  H[b].f[x] \in Maybe /\ (Stale(T, b, x) \/ Accepts(H, b, x, H[b].f[x]))
    <3>1. CASE Accepts(H, b, x, H[b].f[x])
      BY <3>1 DEF Accepts, IsA, Maybe
    <3>2. CASE H[b].f[x] = NULL
      <4>1. CASE H[b].k \in {"block", "function"}
        BY <3>2, <4>1 DEF Filled, Maybe
      <4>2. CASE H[b].k = "map"
        BY <2>1, <3>2, <4>2 DEF Drafted, Framed, Accepts, Maybe
      <4>3. CASE H[b].k = "list"
        <5>1. H[b].f \in Seq(Ids)
          BY <2>1, <4>3 DEF Drafted, Framed
        <5>2. H[b].f[x] \in Ids
          BY <5>1
        <5> QED
          BY <3>2, <5>2, IdsFinite
      <4>4. CASE H[b].k \in {"value", "static"}
        BY <2>1, <4>4 DEF Drafted, Framed
      <4> QED
        BY <2>1, <4>1, <4>2, <4>3, <4>4 DEF Drafted, Framed
    <3> QED
      BY <2>1, <3>1, <3>2 DEF Drafted
  <2> QED
    BY <2>1, <2>2 DEF Shaped, Drafted
<1>2. ASSUME NEW b \in Ids, NEW o \in Ids PROVE Kept(H, T, b, o) = Kept(H, <<>>, b, o)
  <2>1. \A x : Stale(T, b, x) => H[b].f[x] = NULL
    BY DEF Begun, Fillable, Stale
  <2>2. \A x \in Places(H[b].f, o) : ~Stale(T, b, x) /\ ~Stale(<<>>, b, x)
    BY <2>1, EmptyTodo, IdsFinite DEF Places
  <2> QED
    BY <2>2 DEF Kept
<1>3. Balanced(H, T, R)
  BY <1>2, HeldSame DEF Balanced, Begun, Weighed
<1>4. ASSUME NEW o \in Ids
      PROVE  /\ Occ(T, FREED(o)) = One(H[o].k # "free" /\ H[o].rc = 0)
             /\ H[o].k = "free" => H[o].rc = 0 /\ H[o].f = <<>>
  <2>1. \A i \in 1..Len(T) : T[i] # FREED(o)
    BY OpFields DEF Begun, Fillable
  <2>2. Occ(T, FREED(o)) = 0
    BY <1>0, <2>1, OccType
  <2>3. H[o].rc > 0 => H[o].k # "free"
    BY DEF Begun, Drafted
  <2>4. H[o].rc = 0 => H[o].k = "free" /\ H[o].f = <<>>
    BY DEF Begun
  <2>5. H[o].k = "free" => H[o].rc = 0
    BY <1>0, <2>3
  <2> QED
    BY <2>2, <2>4, <2>5 DEF One
<1>5. FreedOnce(H, T)
  BY <1>4 DEF FreedOnce
<1>6. Formed(H, T, R)
  BY <1>0, <1>1 DEF Formed, Begun
<1> QED
  BY <1>3, <1>5, <1>6 DEF Sound, Begun

\* What the next operation s needs is held, by roots in the end.
Leads(H, T, s, b, p) ==
    Holds(H, T, b, p, Len(T) + 1) /\ (s.op \in {"put", "set"} => b # s.o)
Reached(H, T, s, R, S) ==
    \A p \in S : H[p].rc > 0 /\ (R[p] > 0 \/ \E b \in S : Leads(H, T, s, b, p))
Backed(H, T, s, R, p) == \E S \in SUBSET Ids : p \in S /\ Reached(H, T, s, R, S)

\* s turns a root into a reference that is dropped later, or makes one.
Passes(R, s, Q) ==
    \A o \in Ids : Q[o] \in Nat /\ Q[o] + One(s = DEC(o)) = R[o] + One(s = INC(o))

\* Nothing earlier relies on a field of the object that s stores into, and
\* nothing earlier stores into the same field.
Unrelied(H, T, s) ==
    s.op \in {"put", "set"} => \A j \in 1..Len(T), p \in Ids : ~Holds(H, T, s.o, p, j)
Lone(T, s) ==
    s.op = "set" => \A i \in 1..Len(T) : T[i].o = s.o =>
        (T[i].op = "set" => T[i].x # s.x) /\ T[i].op # "put"

Follows(H, T, R, s) ==
    /\ Fits(H, s) /\ Fillable(H, s) /\ Unrelied(H, T, s) /\ Lone(T, s)
    /\ \A p \in Mentioned(s) : Backed(H, T, s, R, p)

LEMMA PlusHolds ==
    ASSUME NEW H, NEW T \in Seq(Op), NEW s \in Op, NEW b, NEW p \in Ids, NEW j \in 1..Len(T) + 1,
           Holds(H, T, b, p, j), s.op \in {"put", "set"} => s.o # b
    PROVE  Holds(H, Plus(T, s), b, p, j)
<1> DEFINE U == Plus(T, s)
<1>1. Steady(U, b)
  <2>1. ASSUME NEW i \in 1..Len(U), U[i].op \in {"put", "set"} PROVE U[i].o # b
    <3>1. Steady(T, b)
      BY DEF Holds
    <3>2. CASE i \in 1..Len(T) /\ U[i] = T[i]
      BY <2>1, <3>1, <3>2 DEF Steady
    <3>3. CASE U[i] = s
      BY <2>1, <3>3
    <3> QED
      BY <3>2, <3>3, PlusWhere
  <2> QED
    BY <2>1 DEF Steady
<1>2. CASE \E x \in DOMAIN H[b].f : H[b].f[x] = p
  BY <1>1, <1>2 DEF Holds
<1>3. CASE \E i \in 1..Len(T) : i < j /\ T[i] \in {APPEND(b, p), PREPEND(b, p)}
  <2>1. PICK i \in 1..Len(T) : i < j /\ T[i] \in {APPEND(b, p), PREPEND(b, p)}
    BY <1>3
  <2>2. i \in 1..Len(U) /\ U[i] = T[i]
    BY PlusAt
  <2> QED
    BY <1>1, <2>1, <2>2 DEF Holds
<1> QED
  BY <1>2, <1>3 DEF Holds

LEMMA PlusSupported ==
    ASSUME NEW H, NEW T, NEW R, Begun(H, T, R), NEW s \in Op, NEW Q, Passes(R, s, Q),
           Unrelied(H, T, s), NEW j \in 1..Len(T), NEW S \in SUBSET Ids, Supported(H, T, R, j, S)
    PROVE  Supported(H, Plus(T, s), Q, j, S)
<1> DEFINE U == Plus(T, s)
<1>0. T \in Seq(Op) /\ j \in 1..Len(T) + 1 /\ j \in Nat \ {0} /\ \A o \in Ids : R[o] \in Nat
  BY DEF Begun
<1>1. ASSUME NEW p \in S
      PROVE  OccFrom(U, j, INC(p))
               < Q[p] + OccFrom(U, j, DEC(p)) + One(\E b \in S : Holds(H, U, b, p, j))
  <2> DEFINE old == \E b \in S : Holds(H, T, b, p, j)
             new == \E b \in S : Holds(H, U, b, p, j)
             c == One(old)
             d == One(new)
             i == One(s = INC(p))
             e == One(s = DEC(p))
             r == R[p]
             q == Q[p]
  <2>1. old => new
    BY <1>0, PlusHolds DEF Unrelied
  <2>2. c \in Nat /\ d \in Nat /\ c <= d
    BY <2>1 DEF One
  <2>3. i \in Nat /\ e \in Nat
    BY OneType
  <2>4. r \in Nat /\ q \in Nat /\ q + e = r + i
    BY <1>0 DEF Passes
  <2>5. OccFrom(T, j, INC(p)) < r + OccFrom(T, j, DEC(p)) + c
    BY DEF Supported
  <2>6. /\ OccFrom(U, j, INC(p)) = OccFrom(T, j, INC(p)) + i
        /\ OccFrom(U, j, DEC(p)) = OccFrom(T, j, DEC(p)) + e
    BY <1>0, PlusFrom
  <2>7. OccFrom(T, j, INC(p)) \in Nat /\ OccFrom(T, j, DEC(p)) \in Nat
    BY <1>0, FromType
  <2> HIDE DEF old, new, c, d, i, e, r, q, U
  <2>8. OccFrom(U, j, INC(p)) < q + OccFrom(U, j, DEC(p)) + d
    BY <2>2, <2>3, <2>4, <2>5, <2>6, <2>7
  <2> QED
    BY <2>8 DEF q, d, new, U
<1> QED
  BY <1>1 DEF Supported

LEMMA BackedSafe ==
    ASSUME NEW H, NEW T, NEW R, Begun(H, T, R), NEW s \in Op, NEW Q, Passes(R, s, Q),
           NEW p \in Mentioned(s), Backed(H, T, s, R, p)
    PROVE  Safe(H, Plus(T, s), Q, Len(T) + 1, p)
<1> DEFINE U == Plus(T, s)
           n == Len(T) + 1
<1>0. T \in Seq(Op) /\ \A o \in Ids : R[o] \in Nat
  BY DEF Begun
<1>1. n \in Nat \ {0} /\ n > Len(T) /\ n \in 1..Len(T) + 1
  BY <1>0, LenProperties
<1>2. PICK S \in SUBSET Ids : p \in S /\ Reached(H, T, s, R, S)
  BY DEF Backed
<1>3. s.op # "dec"
  BY DEF Mentioned
<1>4. ASSUME NEW o \in S
      PROVE  OccFrom(U, n, INC(o))
               < Q[o] + OccFrom(U, n, DEC(o)) + One(\E b \in S : Holds(H, U, b, o, n))
  <2> DEFINE new == \E b \in S : Holds(H, U, b, o, n)
             d == One(new)
             i == One(s = INC(o))
             r == R[o]
             q == Q[o]
  <2>1. OccFrom(U, n, INC(o)) = OccFrom(T, n, INC(o)) + i
        /\ OccFrom(U, n, DEC(o)) = OccFrom(T, n, DEC(o)) + One(s = DEC(o))
    BY <1>0, <1>1, PlusFrom
  <2>2. OccFrom(T, n, INC(o)) = 0 /\ OccFrom(T, n, DEC(o)) = 0
    BY <1>0, <1>1, FromEnd
  <2>3. One(s = DEC(o)) = 0 /\ i \in Nat
    BY <1>3, OpFields, OneType DEF One
  <2>4. r \in Nat /\ q \in Nat /\ q = r + i
    <3>1. q + One(s = DEC(o)) = r + i /\ q \in Nat /\ r \in Nat
      BY <1>0 DEF Passes
    <3> HIDE DEF q, r, i
    <3> QED
      BY <2>3, <3>1
  <2>5. r > 0 \/ new
    <3>1. R[o] > 0 \/ \E b \in S : Leads(H, T, s, b, o)
      BY <1>2 DEF Reached
    <3>2. ASSUME NEW b \in S, Leads(H, T, s, b, o) PROVE Holds(H, U, b, o, n)
      <4>1. Holds(H, T, b, o, n) /\ (s.op \in {"put", "set"} => s.o # b)
        BY <3>2 DEF Leads
      <4> HIDE DEF n
      <4> QED
        BY <1>0, <1>1, <4>1, PlusHolds
    <3> QED
      BY <3>1, <3>2
  <2>6. d \in Nat /\ (new => d = 1)
    BY DEF One
  <2> HIDE DEF new, d, i, r, q, U, n
  <2>7. OccFrom(U, n, INC(o)) < q + OccFrom(U, n, DEC(o)) + d
    BY <2>1, <2>2, <2>3, <2>4, <2>5, <2>6
  <2> QED
    BY <2>7 DEF q, d, new
<1>5. \A o \in S : H[o].rc > 0
  BY <1>2 DEF Reached
<1> HIDE DEF n, U
<1>6. Supported(H, U, Q, n, S)
  BY <1>4, <1>5 DEF Supported
<1>7. Safe(H, U, Q, n, p)
  BY <1>2, <1>6 DEF Safe
<1> QED
  BY <1>7 DEF n, U

LEMMA Extend ==
    ASSUME NEW H, NEW T, NEW R, Begun(H, T, R), NEW s \in Op, NEW Q, Passes(R, s, Q),
           Follows(H, T, R, s)
    PROVE  Begun(H, Plus(T, s), Q)
<1> DEFINE U == Plus(T, s)
<1>0. T \in Seq(Op) /\ Alone(T)
  BY DEF Begun
<1>1. U \in Seq(Op)
  BY <1>0, PlusType
<1>2. ASSUME NEW j \in 1..Len(U) PROVE Fits(H, U[j]) /\ Fillable(H, U[j])
  BY <1>0, PlusWhere DEF Begun, Follows
<1>3. ASSUME NEW o \in Ids
      PROVE  H[o].rc + Occ(U, INC(o)) = Held(H, <<>>, o) + Q[o] + Occ(U, DEC(o))
  <2> DEFINE h == H[o].rc
             k == Held(H, <<>>, o)
             r == R[o]
             q == Q[o]
             i == One(s = INC(o))
             d == One(s = DEC(o))
  <2>1. Occ(U, INC(o)) = Occ(T, INC(o)) + i /\ Occ(U, DEC(o)) = Occ(T, DEC(o)) + d
    <3>1. \A e : Occ(U, e) = Occ(T, e) + One(s = e)
      BY <1>0, PlusType
    <3> QED
      BY <3>1, Zenon
  <2>2. Occ(T, INC(o)) \in Nat /\ Occ(T, DEC(o)) \in Nat
    BY <1>0, OccType
  <2>3. h \in Nat /\ r \in Nat /\ h + Occ(T, INC(o)) = k + r + Occ(T, DEC(o))
    BY DEF Begun, Weighed
  <2>4. q \in Nat /\ q + d = r + i
    BY DEF Passes
  <2>5. i \in Nat /\ d \in Nat
    BY OneType
  <2>6. k \in Nat
    BY HeldType DEF Begun, Drafted
  <2> HIDE DEF h, k, r, q, i, d, U
  <2>7. h + Occ(U, INC(o)) = k + q + Occ(U, DEC(o))
    BY <2>1, <2>2, <2>3, <2>4, <2>5, <2>6
  <2> QED
    BY <2>7 DEF h, k, q
<1>4. ASSUME NEW j \in 1..Len(U), NEW p \in Mentioned(U[j]) PROVE Safe(H, U, Q, j, p)
  <2>1. CASE j \in 1..Len(T) /\ U[j] = T[j]
    <3>1. PICK S \in SUBSET Ids : p \in S /\ Supported(H, T, R, j, S)
      BY <1>4, <2>1 DEF Begun, Guarded, Safe
    <3>2. Supported(H, U, Q, j, S)
      BY <2>1, <3>1, PlusSupported DEF Follows
    <3> QED
      BY <3>1, <3>2 DEF Safe
  <2>2. CASE j = Len(T) + 1 /\ U[j] = s
    <3>1. Backed(H, T, s, R, p)
      BY <1>4, <2>2 DEF Follows
    <3> QED
      BY <1>4, <2>2, <3>1, BackedSafe
  <2> QED
    BY <1>0, <2>1, <2>2, PlusWhere
<1>5. Alone(U)
  <2> SUFFICES ASSUME NEW i \in 1..Len(U), NEW j \in 1..Len(U), i < j,
                      U[j].op = "set", U[i].o = U[j].o
               PROVE  (U[i].op = "set" => U[i].x # U[j].x) /\ U[i].op # "put"
    BY Zenon DEF Alone
  <2>1. Len(T) \in Nat /\ Len(U) = Len(T) + 1
    BY <1>0, PlusType
  <2>2. i \in 1..Len(T)
    BY <2>1
  <2>3. U[i] = T[i]
    BY <1>0, <2>2, PlusAt
  <2>4. CASE j \in 1..Len(T) /\ U[j] = T[j]
    BY <1>0, <2>2, <2>3, <2>4 DEF Alone
  <2>5. CASE U[j] = s
    BY <2>2, <2>3, <2>5 DEF Follows, Lone
  <2> QED
    BY <1>0, <2>4, <2>5, PlusWhere
<1>6. Weighed(H, U, Q)
  BY <1>3 DEF Weighed
<1>7. Guarded(H, U, Q)
  BY <1>4 DEF Guarded
<1>8. \A o \in Ids : Q[o] \in Nat
  BY DEF Passes
<1> QED
  BY <1>1, <1>2, <1>5, <1>6, <1>7, <1>8 DEF Begun

-----------------------------------------------------------------------------
(* What is held.                                                             *)

LEMMA RootHeld ==
    ASSUME NEW H, NEW T, NEW R, Begun(H, T, R), NEW p \in Ids, R[p] > 0 \/ Held(H, <<>>, p) > 0
    PROVE  H[p].rc > 0 /\ Drafted(H, p)
<1> DEFINE h == H[p].rc
           k == Held(H, <<>>, p)
           r == R[p]
<1>1. h \in Nat /\ r \in Nat /\ h + Occ(T, INC(p)) = k + r + Occ(T, DEC(p))
  BY DEF Begun, Weighed
<1>2. k \in Nat
  BY HeldType DEF Begun, Drafted
<1>3. Occ(T, INC(p)) \in Nat /\ Occ(T, DEC(p)) \in Nat
      /\ (Occ(T, INC(p)) > 0 => \E i \in 1..Len(T) : T[i] = INC(p))
  BY OccType DEF Begun
<1>4. ASSUME NEW i \in 1..Len(T), T[i] = INC(p) PROVE h > 0
  <2>1. p \in Mentioned(T[i])
    BY <1>4, OpFields DEF Mentioned
  <2> QED
    BY <2>1, MentionedCounted DEF Begun
<1>5. r > 0 \/ k > 0
  OBVIOUS
<1>6. h > 0
  <2> HIDE DEF h, k, r
  <2> QED
    BY <1>1, <1>2, <1>3, <1>4, <1>5
<1> QED
  BY <1>6 DEF Begun

LEMMA BackRoot ==
    ASSUME NEW H, NEW T, NEW R, Begun(H, T, R), NEW s, NEW p \in Ids, R[p] > 0
    PROVE  Backed(H, T, s, R, p)
<1>1. H[p].rc > 0
  BY RootHeld
<1>2. Reached(H, T, s, R, {p})
  BY <1>1 DEF Reached
<1> QED
  BY <1>2 DEF Backed

\* One more object, that one of the set leads to.
LEMMA BackMore ==
    ASSUME NEW H, NEW T, NEW s, NEW R, NEW b, Backed(H, T, s, R, b),
           NEW p \in Ids, H[p].rc > 0, Leads(H, T, s, b, p)
    PROVE  Backed(H, T, s, R, p)
<1>1. PICK S \in SUBSET Ids : b \in S /\ Reached(H, T, s, R, S)
  BY DEF Backed
<1>2. ASSUME NEW q \in S \cup {p}
      PROVE  H[q].rc > 0 /\ (R[q] > 0 \/ \E a \in S \cup {p} : Leads(H, T, s, a, q))
  BY <1>1 DEF Reached
<1>3. Reached(H, T, s, R, S \cup {p})
  BY <1>2 DEF Reached
<1> QED
  BY <1>3 DEF Backed

\* s stores into another object than b.
Elsewhere(s, b) == s.op \in {"put", "set"} => b # s.o

LEMMA BackField ==
    ASSUME NEW H, NEW T, NEW R, Begun(H, T, R), NEW s, NEW b \in Ids, Backed(H, T, s, R, b),
           NEW x \in DOMAIN H[b].f, H[b].f[x] \in Ids, Steady(T, b), Elsewhere(s, b)
    PROVE  Backed(H, T, s, R, H[b].f[x])
<1> DEFINE p == H[b].f[x]
<1>1. H[b].rc > 0
  BY DEF Backed, Reached
<1>2. x \in Kept(H, <<>>, b, p)
  BY <1>1, EmptyTodo DEF Kept, Places
<1>3. \E y \in DOMAIN H[b].f : H[b].f[y] = p
  OBVIOUS
<1> HIDE DEF p
<1>4. Held(H, <<>>, p) > 0
  BY <1>2, HeldType DEF Begun, Drafted
<1>5. p \in Ids
  BY DEF p
<1>6. H[p].rc > 0
  BY <1>4, <1>5, RootHeld
<1>7. Leads(H, T, s, b, p)
  BY <1>3 DEF Leads, Holds, Elsewhere
<1>8. Backed(H, T, s, R, p)
  BY <1>5, <1>6, <1>7, BackMore
<1> QED
  BY <1>8 DEF p

LEMMA BackItem ==
    ASSUME NEW H, NEW T, NEW R, Begun(H, T, R), NEW s, NEW b \in Ids, Backed(H, T, s, R, b),
           NEW p \in Ids, NEW i \in 1..Len(T), T[i] = PREPEND(b, p), Steady(T, b), Elsewhere(s, b)
    PROVE  Backed(H, T, s, R, p)
<1>1. p \in Mentioned(T[i])
  BY OpFields DEF Mentioned
<1>2. H[p].rc > 0
  BY <1>1, MentionedCounted DEF Begun
<1>3. i < Len(T) + 1
  BY LenProperties DEF Begun
<1>4. Leads(H, T, s, b, p)
  BY <1>3 DEF Leads, Holds, Elsewhere
<1> QED
  BY <1>2, <1>4, BackMore

-----------------------------------------------------------------------------
(* The operations.                                                           *)

More(R, p) == [o \in Ids |-> R[o] + One(o = p)]
Less(R, p) == [o \in Ids |-> R[o] - One(o = p)]

\* An operation that does not store in a field.
LEMMA AddPlain ==
    ASSUME NEW H, NEW T, NEW R, NEW s, s.op \in {"inc", "dec", "read", "name"},
           \A p \in Mentioned(s) : Backed(H, T, s, R, p)
    PROVE  Follows(H, T, R, s)
  BY DEF Follows, Fits, Fillable, Unrelied, Lone

LEMMA SamePasses ==
    ASSUME NEW H, NEW T, NEW R, Begun(H, T, R), NEW s, s.op \notin {"inc", "dec"}
    PROVE  Passes(R, s, R)
<1>1. ASSUME NEW o \in Ids PROVE One(s = DEC(o)) = 0 /\ One(s = INC(o)) = 0
  BY OpFields DEF One
<1> QED
  BY <1>1 DEF Passes, Begun

LEMMA AddDec ==
    ASSUME NEW H, NEW T, NEW R, Begun(H, T, R), NEW p \in Maybe, p \in Ids => R[p] > 0
    PROVE  Begun(H, Plus(T, DEC(p)), Less(R, p))
<1> DEFINE s == DEC(p)
           Q == Less(R, p)
<1>1. s \in Op /\ s.op = "dec"
  BY OpTypes, OpFields
<1>2. ASSUME NEW o \in Ids
      PROVE  Q[o] \in Nat /\ Q[o] + One(s = DEC(o)) = R[o] + One(s = INC(o))
  <2>1. One(s = INC(o)) = 0
    BY <1>1, OpFields DEF One
  <2>2. (s = DEC(o)) <=> (o = p)
    BY OpEq
  <2> DEFINE d == One(o = p)
             r == R[o]
  <2>3. One(s = DEC(o)) = d
    BY <2>2 DEF One
  <2>4. r \in Nat
    BY DEF Begun
  <2>5. d \in 0..1 /\ (d = 1 => r > 0)
    BY DEF One
  <2>6. Q[o] = r - d
    BY DEF Less
  <2> HIDE DEF d, r, Q
  <2>7. Q[o] \in Nat /\ Q[o] + d = r + 0
    BY <2>4, <2>5, <2>6
  <2> QED
    BY <2>1, <2>3, <2>7 DEF r
<1>3. Passes(R, s, Q)
  BY <1>2 DEF Passes
<1>4. Follows(H, T, R, s)
  <2>1. Mentioned(s) = {}
    BY <1>1 DEF Mentioned
  <2> QED
    BY <1>1, <2>1, AddPlain
<1> QED
  BY <1>1, <1>3, <1>4, Extend

LEMMA AddInc ==
    ASSUME NEW H, NEW T, NEW R, Begun(H, T, R), NEW p \in Ids, Backed(H, T, INC(p), R, p)
    PROVE  Begun(H, Plus(T, INC(p)), More(R, p))
<1> DEFINE s == INC(p)
           Q == More(R, p)
<1>1. s \in Op /\ s.op = "inc" /\ s.o = p
  BY OpTypes, OpFields
<1>2. ASSUME NEW o \in Ids
      PROVE  Q[o] \in Nat /\ Q[o] + One(s = DEC(o)) = R[o] + One(s = INC(o))
  <2>1. One(s = DEC(o)) = 0
    BY <1>1, OpFields DEF One
  <2>2. (s = INC(o)) <=> (o = p)
    BY OpEq
  <2> DEFINE d == One(o = p)
             r == R[o]
  <2>3. One(s = INC(o)) = d /\ d \in Nat
    BY <2>2 DEF One
  <2>4. r \in Nat
    BY DEF Begun
  <2>6. Q[o] = r + d
    BY DEF More
  <2> HIDE DEF d, r, Q
  <2>7. Q[o] \in Nat /\ Q[o] + 0 = r + d
    BY <2>3, <2>4, <2>6
  <2> QED
    BY <2>1, <2>3, <2>7 DEF r
<1>3. Passes(R, s, Q)
  BY <1>2 DEF Passes
<1>4. Follows(H, T, R, s)
  <2>1. Mentioned(s) \subseteq {p}
    BY <1>1 DEF Mentioned
  <2> QED
    BY <1>1, <2>1, AddPlain
<1> QED
  BY <1>1, <1>3, <1>4, Extend

LEMMA AddRead ==
    ASSUME NEW H, NEW T, NEW R, Begun(H, T, R), NEW p \in Ids, Backed(H, T, READ(p), R, p)
    PROVE  Begun(H, Plus(T, READ(p)), R)
<1> DEFINE s == READ(p)
<1>1. s \in Op /\ s.op = "read" /\ s.o = p
  BY OpTypes, OpFields
<1>2. Passes(R, s, R)
  BY <1>1, SamePasses
<1>3. Follows(H, T, R, s)
  <2>1. Mentioned(s) \subseteq {p}
    BY <1>1 DEF Mentioned
  <2> QED
    BY <1>1, <2>1, AddPlain
<1> QED
  BY <1>1, <1>2, <1>3, Extend

LEMMA AddName ==
    ASSUME NEW H, NEW T, NEW R, Begun(H, T, R), NEW p \in Ids
    PROVE  Begun(H, Plus(T, NAME(p)), R)
<1> DEFINE s == NAME(p)
<1>1. s \in Op /\ s.op = "name"
  BY OpTypes, OpFields
<1>2. Passes(R, s, R)
  BY <1>1, SamePasses
<1>3. Follows(H, T, R, s)
  <2>1. Mentioned(s) = {}
    BY <1>1 DEF Mentioned
  <2> QED
    BY <1>1, <2>1, AddPlain
<1> QED
  BY <1>1, <1>2, <1>3, Extend

LEMMA AddItem ==
    ASSUME NEW H, NEW T, NEW R, Begun(H, T, R), NEW l, IsA(H, l, {"list"}),
           NEW v, IsA(H, v, Items), NEW s, s \in {APPEND(l, v), PREPEND(l, v)},
           Backed(H, T, s, R, l), Backed(H, T, s, R, v)
    PROVE  Begun(H, Plus(T, s), R)
<1>1. /\ s \in Op /\ s.op \in {"append", "prepend"} /\ s.o = l /\ s.v = v
  BY OpTypes, OpFields DEF IsA
<1>2. Passes(R, s, R)
  BY <1>1, SamePasses
<1>3. Follows(H, T, R, s)
  <2>1. Mentioned(s) \subseteq {l, v}
    BY <1>1 DEF Mentioned
  <2>2. Fits(H, s)
    BY <1>1 DEF Fits
  <2>3. Fillable(H, s) /\ Unrelied(H, T, s) /\ Lone(T, s)
    BY <1>1 DEF Fillable, Unrelied, Lone
  <2> QED
    BY <2>1, <2>2, <2>3 DEF Follows
<1> QED
  BY <1>1, <1>2, <1>3, Extend

LEMMA AddPut ==
    ASSUME NEW H, NEW T, NEW R, Begun(H, T, R), NEW m, IsA(H, m, {"map"}), NEW n \in Names,
           NEW v, v = NULL \/ IsA(H, v, Items), NEW s, s = PUT(m, n, v),
           Unrelied(H, T, s), Backed(H, T, s, R, m), v \in Ids => Backed(H, T, s, R, v)
    PROVE  Begun(H, Plus(T, s), R)
<1>1. /\ s \in Op /\ s.op = "put" /\ s.o = m /\ s.x = n /\ s.v = v
  BY OpTypes, OpFields DEF IsA, Maybe
<1>2. Passes(R, s, R)
  BY <1>1, SamePasses
<1>3. Follows(H, T, R, s)
  <2>1. \A p \in Mentioned(s) : Backed(H, T, s, R, p)
    BY <1>1 DEF Mentioned
  <2>2. Fits(H, s)
    BY <1>1 DEF Fits, Accepts, IsA
  <2>3. Fillable(H, s) /\ Lone(T, s)
    BY <1>1 DEF Fillable, Lone
  <2> QED
    BY <2>1, <2>2, <2>3 DEF Follows
<1> QED
  BY <1>1, <1>2, <1>3, Extend

LEMMA AddSet ==
    ASSUME NEW H, NEW T, NEW R, Begun(H, T, R), NEW b \in Ids, NEW x \in 1..3, NEW v \in Ids,
           H[b].k # "list", Accepts(H, b, x, v), H[b].f[x] = NULL, NEW s, s = SET(b, x, v),
           Unrelied(H, T, s), Lone(T, s), Backed(H, T, s, R, b), Backed(H, T, s, R, v)
    PROVE  Begun(H, Plus(T, s), R)
<1>1. /\ s \in Op /\ s.op = "set" /\ s.o = b /\ s.x = x /\ s.v = v
  <2>1. x \in Names \cup (1..3) /\ v \in Maybe
    BY DEF Maybe
  <2>2. s \in Op
    BY <2>1, OpTypes, Zenon
  <2> QED
    BY <2>2, OpFields
<1>2. Passes(R, s, R)
  BY <1>1, SamePasses
<1>3. Follows(H, T, R, s)
  <2>1. \A p \in Mentioned(s) : Backed(H, T, s, R, p)
    BY <1>1 DEF Mentioned
  <2>2. Fits(H, s)
    BY <1>1 DEF Fits
  <2>3. Fillable(H, s)
    BY <1>1 DEF Fillable
  <2> QED
    BY <2>1, <2>2, <2>3 DEF Follows
<1> QED
  BY <1>1, <1>2, <1>3, Extend

-----------------------------------------------------------------------------
(* New objects.                                                              *)

Birth(H, n, v) == [H EXCEPT ![n] = v]

\* R with a reference to a new object n, and without those that became fields.
Bears(H, R, n, v, Q) ==
    \A o \in Ids : Q[o] \in Nat /\ Q[o] + Occ(v.f, o) = R[o] + IF o = n THEN v.rc ELSE 0

LEMMA NewBegun ==
    ASSUME NEW H, DOMAIN H = Ids, NEW R, Begun(H, <<>>, R), NEW n \in Ids, H[n].k = "free",
           NEW v, v.rc \in Nat \ {0}, NEW Q, Bears(H, R, n, v, Q), Drafted(Birth(H, n, v), n)
    PROVE  Begun(Birth(H, n, v), <<>>, Q)
<1> DEFINE G == Birth(H, n, v)
<1>1. G[n] = v /\ \A p \in Ids : p # n => G[p] = H[p]
  BY DEF Birth
<1> HIDE DEF G
<1>2. H[n].rc = 0
  BY DEF Begun, Drafted
<1>3. \A p \in Ids : H[p].rc > 0 => p # n /\ G[p] = H[p]
  BY <1>1, <1>2
<1>4. ASSUME NEW p \in Ids, G[p].rc > 0 PROVE Drafted(G, p)
  <2>1. CASE p # n
    <3>1. G[p] = H[p] /\ Drafted(H, p)
      BY <1>1, <1>4, <2>1 DEF Begun
    <3>2. ASSUME NEW x, NEW q, Accepts(H, p, x, q) PROVE Accepts(G, p, x, q)
      <4>1. \A ks \in SUBSET {"map", "list", "block", "value", "static", "function"} :
               IsA(H, q, ks) => IsA(G, q, ks)
        BY <1>1 DEF IsA
      <4> QED
        BY <3>1, <3>2, <4>1 DEF Accepts, Items
    <3> QED
      BY <3>1, <3>2 DEF Drafted, Framed
  <2>2. CASE p = n
    BY <2>2 DEF G
  <2> QED
    BY <2>1, <2>2
<1>5. \A p \in Ids : G[p].rc \in Nat /\ (G[p].rc = 0 => G[p].k = "free" /\ G[p].f = <<>>)
  <2>1. ASSUME NEW p \in Ids, p # n
        PROVE  G[p].rc \in Nat /\ (G[p].rc = 0 => G[p].k = "free" /\ G[p].f = <<>>)
    BY <1>1, <2>1 DEF Begun
  <2>2. G[n].rc \in Nat \ {0}
    BY <1>1
  <2> QED
    BY <2>1, <2>2
<1>6. ASSUME NEW o \in Ids PROVE G[o].rc = Held(G, <<>>, o) + Q[o]
  <2>1. Held(G, <<>>, o) + Cardinality(Kept(H, <<>>, n, o))
          = Held(H, <<>>, o) + Cardinality(Kept(G, <<>>, n, o))
    <3>1. \A p \in Ids \ {n} : Kept(G, <<>>, p, o) = Kept(H, <<>>, p, o)
      BY <1>1 DEF Kept
    <3>2. \A p \in Ids : /\ H[p].rc > 0 => Framed(H, p)
                         /\ G[p].rc > 0 => Framed(G, p)
      BY <1>4 DEF Begun, Drafted
    <3> QED
      BY <3>1, <3>2, HeldChange
  <2>2. Kept(H, <<>>, n, o) = {} /\ Kept(G, <<>>, n, o) = Places(v.f, o)
    <3>1. G[n].rc > 0 /\ ~(H[n].rc > 0)
      <4>1. G[n].rc \in Nat \ {0} /\ H[n].rc = 0
        BY <1>1, <1>2
      <4> QED
        BY <4>1
    <3> QED
      BY <1>1, <3>1, EmptyTodo DEF Kept, Places
  <2>3. Cardinality(Kept(H, <<>>, n, o)) = 0 /\ Cardinality(Kept(G, <<>>, n, o)) = Occ(v.f, o)
    BY <2>2, FS_EmptySet DEF Occ
  <2>4. Held(H, <<>>, o) \in Nat /\ Held(G, <<>>, o) \in Nat
    BY <1>4, HeldType DEF Begun, Drafted
  <2>5. Occ(<<>>, INC(o)) = 0 /\ Occ(<<>>, DEC(o)) = 0
    BY EmptyTodo
  <2> DEFINE h == H[o].rc
             g == G[o].rc
             r == R[o]
             q == Q[o]
             d == IF o = n THEN v.rc ELSE 0
             k == Held(H, <<>>, o)
             l == Held(G, <<>>, o)
             c == Occ(v.f, o)
  <2>6. h \in Nat /\ r \in Nat /\ h + 0 = k + r + 0
    BY <2>5 DEF Begun, Weighed
  <2>7. q \in Nat /\ q + c = r + d
    BY DEF Bears
  <2>8. g = h + d
    <3>1. CASE o = n
      <4>1. g = v.rc /\ h = 0 /\ d = v.rc /\ v.rc \in Nat
        BY <1>1, <1>2, <3>1
      <4> HIDE DEF g, h, d
      <4> QED
        BY <4>1
    <3>2. CASE o # n
      <4>1. g = h /\ d = 0
        BY <1>1, <3>2
      <4> HIDE DEF g, h, d
      <4> QED
        BY <2>6, <4>1
    <3> QED
      BY <3>1, <3>2
  <2>9. l + 0 = k + c /\ k \in Nat /\ l \in Nat /\ d \in Nat
    BY <2>1, <2>3, <2>4
  <2> HIDE DEF h, g, r, q, d, k, l
  <2>11. c \in Nat
    <3>1. IsFiniteSet(DOMAIN v.f)
      <4>1. Framed(G, n)
        BY DEF Drafted, G
      <4> QED
        BY <1>1, <4>1, FieldsFinite
    <3> QED
      BY <3>1, PlacesFinite
  <2> HIDE DEF c
  <2>10. g = l + q
    BY <2>6, <2>7, <2>8, <2>9, <2>11
  <2> QED
    BY <2>10 DEF g, l, q
<1>7. Weighed(G, <<>>, Q)
  <2>1. ASSUME NEW o \in Ids
        PROVE  G[o].rc + Occ(<<>>, INC(o)) = Held(G, <<>>, o) + Q[o] + Occ(<<>>, DEC(o))
    <3> DEFINE g == G[o].rc
               l == Held(G, <<>>, o)
               q == Q[o]
    <3>1. g \in Nat /\ l \in Nat /\ q \in Nat /\ g = l + q
      BY <1>4, <1>5, <1>6, HeldType DEF Bears, Drafted
    <3>2. Occ(<<>>, INC(o)) = 0 /\ Occ(<<>>, DEC(o)) = 0
      BY EmptyTodo
    <3> HIDE DEF g, l, q
    <3>3. g + 0 = l + q + 0
      BY <3>1
    <3> QED
      BY <3>2, <3>3 DEF g, l, q
  <2> QED
    BY <2>1 DEF Weighed
<1>8. Guarded(G, <<>>, Q) /\ Alone(<<>>) /\ \A j \in 1..Len(<<>>) : Fits(G, <<>>[j]) /\ Fillable(G, <<>>[j])
  BY EmptyTodo DEF Guarded, Alone
<1>9. \A o \in Ids : Q[o] \in Nat
  BY DEF Bears
<1>10. Begun(G, <<>>, Q)
  BY <1>4, <1>5, <1>7, <1>8, <1>9, EmptyTodo DEF Begun
<1> QED
  BY <1>10 DEF G

\* What new objects look like whose fields are still NULL.
Blanks ==
    {New("map", EmptyMap), New("list", <<>>), New("value", <<>>),
     New("block", <<NULL, NULL, NULL>>)}
      \cup {[New("function", <<NULL>>) EXCEPT !.ps = ps] : ps \in Params}

LEMMA BlankFacts ==
    ASSUME NEW v \in Blanks
    PROVE  /\ v.rc = 1 /\ v.k # "free" /\ Boxed(v)
           /\ \A x \in DOMAIN v.f : v.f[x] = NULL
           /\ \A H, n : H[n] = v => Framed(H, n)
<1>1. CASE v = New("map", EmptyMap)
  BY <1>1 DEF New, EmptyMap, Boxed, Framed
<1>2. CASE v \in {New("list", <<>>), New("value", <<>>)}
  <2>1. <<>> \in Seq(Ids) /\ DOMAIN <<>> = {}
    OBVIOUS
  <2>2. v.f = <<>> /\ v.rc = 1 /\ v.k \in {"list", "value"} /\ Boxed(v)
    BY <1>2 DEF New, Boxed
  <2> QED
    BY <2>1, <2>2, Zenon DEF Framed
<1>3. CASE v = New("block", <<NULL, NULL, NULL>>)
  BY <1>3 DEF New, Boxed, Framed
<1>4. ASSUME NEW ps \in Params, v = [New("function", <<NULL>>) EXCEPT !.ps = ps]
      PROVE  /\ v.rc = 1 /\ v.k # "free" /\ Boxed(v)
             /\ \A x \in DOMAIN v.f : v.f[x] = NULL
             /\ \A H, n : H[n] = v => Framed(H, n)
  <2>1. v = [k |-> "function", rc |-> 1, f |-> <<NULL>>, ps |-> ps]
    BY <1>4 DEF New
  <2> QED
    BY <2>1 DEF Boxed, Framed
<1> QED
  BY <1>1, <1>2, <1>3, <1>4 DEF Blanks

LEMMA BlankBegun ==
    ASSUME NEW H, DOMAIN H = Ids, NEW R, Begun(H, <<>>, R), NEW n \in Ids, H[n].k = "free",
           NEW v \in Blanks
    PROVE  Begun(Birth(H, n, v), <<>>, More(R, n))
<1>1. ASSUME NEW o \in Ids
      PROVE  /\ More(R, n)[o] \in Nat
             /\ More(R, n)[o] + Occ(v.f, o) = R[o] + IF o = n THEN v.rc ELSE 0
  <2>1. Places(v.f, o) = {}
    BY BlankFacts, IdsFinite DEF Places
  <2>2. Occ(v.f, o) = 0
    BY <2>1, FS_EmptySet DEF Occ
  <2>3. R[o] \in Nat /\ One(o = n) \in Nat /\ More(R, n)[o] = R[o] + One(o = n)
    BY OneType DEF Begun, More
  <2> DEFINE r == R[o]
             d == One(o = n)
             q == More(R, n)[o]
  <2>4. r \in Nat /\ d \in Nat /\ q = r + d
    BY <2>3
  <2> HIDE DEF r, d, q
  <2>5. q \in Nat /\ q + 0 = r + d
    BY <2>4
  <2>6. d = IF o = n THEN v.rc ELSE 0
    BY BlankFacts DEF One, d
  <2> QED
    BY <2>2, <2>5, <2>6 DEF q, r
<1>2. Bears(H, R, n, v, More(R, n))
  BY <1>1 DEF Bears
<1>3. Birth(H, n, v)[n] = v
  BY DEF Birth
<1>4. Drafted(Birth(H, n, v), n)
  BY <1>3, BlankFacts DEF Drafted
<1> QED
  BY <1>2, <1>4, BlankFacts, NewBegun

\* Where malloc finds it.
LEMMA FreshIn ==
    ASSUME NEW taken \in SUBSET Ids, Unused \ taken # {}
    PROVE  Fresh(taken) \in Ids \ taken /\ heap[Fresh(taken)].k = "free"
<1> DEFINE S == Unused \ taken
<1>1. S \subseteq Nat /\ S # {}
  BY IdsFinite DEF Unused
<1>2. \E x \in S : \A y \in S : x <= y
  <2> HIDE DEF S
  <2> QED
    BY <1>1, Smallest
<1>3. Fresh(taken) \in S
  BY <1>2 DEF Fresh, Min
<1> QED
  BY <1>3 DEF Unused, Live

LEMMA RoomFor ==
    ASSUME NEW n \in Nat, Room(n)
    PROVE  /\ n > 0 => Unused # {}
           /\ n > 1 => \A a : Unused \ {a} # {}
           /\ n > 2 => \A a, b : Unused \ {a, b} # {}
<1>1. Unused \in SUBSET Ids /\ IsFiniteSet(Unused)
  BY IdsFinite, FS_Subset DEF Unused
<1>2. Cardinality(Unused) \in Nat /\ Cardinality(Unused) >= n
  BY <1>1, FS_CardinalityType DEF Room
<1> DEFINE S == Unused
<1> HIDE DEF S
<1>3. \A A : IsFiniteSet(A) => Cardinality(A) \in Nat /\ (Cardinality(A) = 0 <=> A = {})
  BY FS_EmptySet, FS_CardinalityType
<1>4. ASSUME NEW A, IsFiniteSet(A), NEW a
      PROVE  IsFiniteSet(A \ {a}) /\ Cardinality(A \ {a}) >= Cardinality(A) - 1
  <2>1. IsFiniteSet(A \ {a})
        /\ Cardinality(A \ {a}) = IF a \in A THEN Cardinality(A) - 1 ELSE Cardinality(A)
    BY <1>4, FS_RemoveElement
  <2>2. Cardinality(A) \in Nat
    BY <1>3, <1>4
  <2> QED
    BY <2>1, <2>2
<1>5. ASSUME NEW a, NEW b
      PROVE  /\ IsFiniteSet(Unused \ {a}) /\ Cardinality(Unused \ {a}) >= n - 1
             /\ IsFiniteSet(Unused \ {a, b}) /\ Cardinality(Unused \ {a, b}) >= n - 2
  <2> DEFINE A == Unused \ {a}
  <2>1. IsFiniteSet(A) /\ Cardinality(A) >= Cardinality(Unused) - 1
    BY <1>1, <1>4
  <2>2. Unused \ {a, b} = A \ {b}
    OBVIOUS
  <2>3. Cardinality(A) \in Nat
    BY <1>3, <2>1
  <2> HIDE DEF A
  <2>4. IsFiniteSet(A \ {b}) /\ Cardinality(A \ {b}) >= Cardinality(A) - 1
    BY <1>4, <2>1
  <2>5. Cardinality(A \ {b}) \in Nat
    BY <1>3, <2>4
  <2>6. Cardinality(A) >= n - 1 /\ Cardinality(A \ {b}) >= n - 2
    BY <1>2, <2>1, <2>3, <2>4, <2>5
  <2> QED
    BY <2>1, <2>2, <2>4, <2>6 DEF A
<1>6. n > 0 => Unused # {}
  BY <1>1, <1>2, <1>3
<1>7. ASSUME n > 1, NEW a PROVE Unused \ {a} # {}
  <2> DEFINE A == Unused \ {a}
  <2>1. IsFiniteSet(A) /\ Cardinality(A) >= n - 1
    BY <1>5
  <2> HIDE DEF A
  <2> QED
    BY <1>3, <1>7, <2>1 DEF A
<1>8. ASSUME n > 2, NEW a, NEW b PROVE Unused \ {a, b} # {}
  <2> DEFINE A == Unused \ {a, b}
  <2>1. IsFiniteSet(A) /\ Cardinality(A) >= n - 2
    BY <1>5
  <2> HIDE DEF A
  <2> QED
    BY <1>3, <1>8, <2>1 DEF A
<1> QED
  BY <1>6, <1>7, <1>8

-----------------------------------------------------------------------------
(* What eval holds.                                                          *)

FrameType == [lb : Ids, stk : Seq(Ids)]

LEMMA FramesCounted ==
    ASSUME NEW fs \in Seq(FrameType), NEW o
    PROVE  /\ OnStacks(fs, o) \in Nat /\ OnChain(fs, o) \in Nat
           /\ OnStacks(fs, o) > 0 <=> \E x \in DOMAIN fs : \E i \in DOMAIN fs[x].stk : fs[x].stk[i] = o
           /\ OnChain(fs, o) > 0 <=> \E x \in DOMAIN fs : fs[x].lb = o
<1> DEFINE X == [x \in DOMAIN fs |-> Places(fs[x].stk, o)]
           B == {x \in DOMAIN fs : fs[x].lb = o}
<1>1. IsFiniteSet(DOMAIN fs) /\ \A x \in DOMAIN fs : fs[x] \in FrameType
  BY SeqFinite
<1>2. ASSUME NEW x \in DOMAIN fs PROVE IsFiniteSet(Places(fs[x].stk, o))
  <2>1. fs[x].stk \in Seq(Ids)
    BY <1>1 DEF FrameType
  <2> QED
    BY <2>1, SeqFinite, PlacesFinite
<1>3. DOMAIN X = DOMAIN fs /\ \A x \in DOMAIN fs : X[x] = Places(fs[x].stk, o)
  OBVIOUS
<1>4. OnStacks(fs, o) = Tally(X) /\ OnChain(fs, o) = Cardinality(B)
  BY DEF OnStacks, OnChain
<1>5. B \in SUBSET DOMAIN fs
  OBVIOUS
<1>6. B # {} <=> \E x \in DOMAIN fs : fs[x].lb = o
  OBVIOUS
<1> HIDE DEF X, B
<1>7. Tally(X) \in Nat /\ (Tally(X) > 0 <=> \E x \in DOMAIN X : X[x] # {})
  BY <1>1, <1>2, <1>3, TallyType
<1>8. IsFiniteSet(B)
  BY <1>1, <1>5, FS_Subset
<1>9. Cardinality(B) \in Nat /\ (Cardinality(B) = 0 <=> B = {})
  BY <1>8, FS_CardinalityType, FS_EmptySet
<1>10. \A x \in DOMAIN fs : X[x] # {} <=> \E i \in DOMAIN fs[x].stk : fs[x].stk[i] = o
  BY <1>3 DEF Places
<1> QED
  BY <1>3, <1>4, <1>6, <1>7, <1>9, <1>10

\* The stack of the running block changes.
WithTop(fs, s) == [fs EXCEPT ![Len(fs)].stk = s]

LEMMA TopChanged ==
    ASSUME NEW fs \in Seq(FrameType), fs # <<>>, NEW s \in Seq(Ids),
           NEW gs, gs = WithTop(fs, s)
    PROVE  /\ gs \in Seq(FrameType) /\ Len(gs) = Len(fs) /\ gs # <<>>
           /\ gs[Len(fs)].lb = fs[Len(fs)].lb /\ gs[Len(fs)].stk = s
           /\ \A x \in 1..Len(fs) : gs[x].lb = fs[x].lb /\ (x # Len(fs) => gs[x] = fs[x])
           /\ \A o : /\ OnStacks(gs, o) + Occ(fs[Len(fs)].stk, o) = OnStacks(fs, o) + Occ(s, o)
                     /\ OnChain(gs, o) = OnChain(fs, o)
<1> DEFINE n == Len(fs)
<1>1. n \in Nat \ {0} /\ DOMAIN fs = 1..n /\ n \in 1..n /\ \A x \in 1..n : fs[x] \in FrameType
  BY LenProperties
<1>2. gs[n] = [fs[n] EXCEPT !.stk = s] /\ \A x \in 1..n : x # n => gs[x] = fs[x]
  BY <1>1 DEF WithTop
<1>3. DOMAIN gs = 1..n /\ Len(gs) = n
  BY <1>1 DEF WithTop
<1>4. gs[n] \in FrameType /\ gs[n].lb = fs[n].lb /\ gs[n].stk = s
  BY <1>1, <1>2 DEF FrameType
<1>5. gs \in Seq(FrameType)
  <2>1. \A x \in 1..n : gs[x] \in FrameType
    BY <1>1, <1>2, <1>4
  <2>2. gs = [x \in 1..n |-> gs[x]]
    BY <1>1 DEF WithTop
  <2> HIDE DEF n
  <2> QED
    BY <1>1, <2>1, <2>2
<1>6. ASSUME NEW o
      PROVE  /\ OnStacks(gs, o) + Occ(fs[n].stk, o) = OnStacks(fs, o) + Occ(s, o)
             /\ OnChain(gs, o) = OnChain(fs, o)
  <2> DEFINE D == 1..n
             X == [x \in DOMAIN fs |-> Places(fs[x].stk, o)]
             Y == [x \in DOMAIN gs |-> Places(gs[x].stk, o)]
  <2>1. /\ DOMAIN X = D /\ \A x \in D : X[x] = Places(fs[x].stk, o)
        /\ DOMAIN Y = D /\ \A x \in D : Y[x] = Places(gs[x].stk, o)
    BY <1>1, <1>3
  <2>2. OnStacks(fs, o) = Tally(X) /\ OnStacks(gs, o) = Tally(Y)
    BY DEF OnStacks
  <2>3. IsFiniteSet(D) /\ n \in D
    BY <1>1, SeqFinite
  <2>4. \A x \in D : IsFiniteSet(Places(fs[x].stk, o)) /\ IsFiniteSet(Places(gs[x].stk, o))
    <3>1. ASSUME NEW t \in Seq(Ids) PROVE IsFiniteSet(Places(t, o))
      BY SeqFinite, PlacesFinite
    <3>2. ASSUME NEW x \in D PROVE fs[x].stk \in Seq(Ids) /\ gs[x].stk \in Seq(Ids)
      BY <1>1, <1>2, <1>4 DEF FrameType
    <3> QED
      BY <3>1, <3>2
  <2>5. X[n] = Places(fs[n].stk, o) /\ Y[n] = Places(s, o)
    BY <1>4, <2>1, <2>3
  <2>6. \A x \in D : x # n => Y[x] = X[x]
    BY <1>2, <2>1
  <2>7. OnChain(gs, o) = OnChain(fs, o)
    <3>1. \A x \in D : gs[x].lb = fs[x].lb
      BY <1>2, <1>4
    <3>2. {x \in DOMAIN gs : gs[x].lb = o} = {x \in DOMAIN fs : fs[x].lb = o}
      BY <1>1, <1>3, <3>1
    <3> QED
      BY <3>2 DEF OnChain
  <2>9. \A x \in D : IsFiniteSet(X[x]) /\ IsFiniteSet(Y[x])
    BY <2>1, <2>4
  <2> HIDE DEF X, Y, D, n
  <2>8. Tally(Y) + Cardinality(X[n]) = Tally(X) + Cardinality(Y[n])
    BY <2>1, <2>3, <2>6, <2>9, TallyChange
  <2> QED
    BY <2>2, <2>5, <2>7, <2>8 DEF Occ
<1>7. gs # <<>>
  BY <1>1, <1>3
<1>8. \A x \in 1..n : gs[x].lb = fs[x].lb
  BY <1>1, <1>2, <1>4
<1> HIDE DEF n
<1> QED
  BY <1>2, <1>3, <1>4, <1>5, <1>6, <1>7, <1>8 DEF n

LEMMA StackChanged ==
    ASSUME NEW fs \in Seq(FrameType), fs # <<>>, NEW s \in Seq(Ids)
    PROVE  /\ WithTop(fs, s) \in Seq(FrameType) /\ WithTop(fs, s) # <<>>
           /\ Len(WithTop(fs, s)) = Len(fs)
           /\ WithTop(fs, s)[Len(fs)].lb = fs[Len(fs)].lb /\ WithTop(fs, s)[Len(fs)].stk = s
           /\ \A x \in 1..Len(fs) :
                 /\ WithTop(fs, s)[x].lb = fs[x].lb
                 /\ x # Len(fs) => WithTop(fs, s)[x] = fs[x]
  BY TopChanged

LEMMA StackCounts ==
    ASSUME NEW fs \in Seq(FrameType), fs # <<>>, NEW s \in Seq(Ids), NEW o
    PROVE  /\ OnStacks(WithTop(fs, s), o) + Occ(fs[Len(fs)].stk, o) = OnStacks(fs, o) + Occ(s, o)
           /\ OnChain(WithTop(fs, s), o) = OnChain(fs, o)
  BY TopChanged

\* A block starts to run.
LEMMA PushedCounts ==
    ASSUME NEW fs \in Seq(FrameType), NEW f \in FrameType, NEW o
    PROVE  /\ OnStacks(fs \o <<f>>, o) = OnStacks(fs, o) + Occ(f.stk, o)
           /\ OnChain(fs \o <<f>>, o) = OnChain(fs, o) + One(f.lb = o)
<1> DEFINE n == Len(fs)
           gs == fs \o <<f>>
<1>1. n \in Nat /\ DOMAIN fs = 1..n /\ \A x \in 1..n : fs[x] \in FrameType
  BY LenProperties
<1>2. gs \in Seq(FrameType) /\ Len(gs) = n + 1 /\ gs[n + 1] = f /\ \A x \in 1..n : gs[x] = fs[x]
  BY <1>1
<1>3. DOMAIN gs = 1..n + 1
  BY <1>2
<1> HIDE DEF gs
<1>4. OnStacks(gs, o) = OnStacks(fs, o) + Occ(f.stk, o)
  <2> DEFINE X == [x \in DOMAIN fs |-> Places(fs[x].stk, o)]
             Y == [x \in DOMAIN gs |-> Places(gs[x].stk, o)]
             h == n + 1
  <2>1. /\ DOMAIN X = 1..n /\ \A x \in 1..n : X[x] = Places(fs[x].stk, o)
        /\ DOMAIN Y = 1..h /\ \A x \in 1..h : Y[x] = Places(gs[x].stk, o)
    BY <1>1, <1>3
  <2>2. OnStacks(fs, o) = Tally(X) /\ OnStacks(gs, o) = Tally(Y)
    BY DEF OnStacks
  <2>3. IsFiniteSet(1..n) /\ h \notin 1..n /\ 1..h = (1..n) \cup {h} /\ h \in 1..h
    <3>1. IsFiniteSet(1..n)
      BY <1>1, SeqFinite
    <3> QED
      BY <1>1, <3>1
  <2>4. ASSUME NEW t \in Seq(Ids) PROVE IsFiniteSet(Places(t, o))
    BY SeqFinite, PlacesFinite
  <2>5. ASSUME NEW x \in 1..n PROVE IsFiniteSet(X[x])
    <3>1. fs[x].stk \in Seq(Ids)
      BY <1>1 DEF FrameType
    <3> QED
      BY <2>1, <2>4, <3>1
  <2>6. Y[h] = Places(f.stk, o) /\ IsFiniteSet(Y[h])
    <3>1. f.stk \in Seq(Ids)
      BY DEF FrameType
    <3>2. Y[h] = Places(f.stk, o)
      BY <1>2, <2>1, <2>3
    <3> QED
      BY <2>4, <3>1, <3>2
  <2>7. \A x \in 1..n : Y[x] = X[x]
    BY <1>2, <2>1, <2>3
  <2>9. /\ IsFiniteSet(DOMAIN X) /\ \A x \in DOMAIN X : IsFiniteSet(X[x])
        /\ DOMAIN Y = DOMAIN X \cup {h} /\ h \notin DOMAIN X
        /\ \A x \in DOMAIN X : Y[x] = X[x]
    BY <2>1, <2>3, <2>5, <2>7
  <2> HIDE DEF X, Y, h, n
  <2>8. Tally(Y) = Tally(X) + Cardinality(Y[h])
    BY <2>6, <2>9, TallyMore
  <2> QED
    BY <2>2, <2>6, <2>8 DEF Occ
<1>5. OnChain(gs, o) = OnChain(fs, o) + One(f.lb = o)
  <2> DEFINE A == {x \in 1..n : fs[x].lb = o}
             B == {x \in 1..n + 1 : gs[x].lb = o}
  <2>1. OnChain(fs, o) = Cardinality(A) /\ OnChain(gs, o) = Cardinality(B)
    BY <1>1, <1>3 DEF OnChain
  <2>2. B = IF f.lb = o THEN A \cup {n + 1} ELSE A
    BY <1>1, <1>2
  <2>3. A \in SUBSET (1..n) /\ IsFiniteSet(1..n) /\ n + 1 \notin A
    <3>1. IsFiniteSet(1..n)
      BY <1>1, SeqFinite
    <3> QED
      BY <1>1, <3>1
  <2> HIDE DEF A, B, n
  <2>4. IsFiniteSet(A)
    BY <2>3, FS_Subset
  <2>5. Cardinality(A) \in Nat /\ Cardinality(A \cup {n + 1}) = Cardinality(A) + 1
    BY <2>3, <2>4, FS_CardinalityType, FS_AddElement
  <2> QED
    BY <2>1, <2>2, <2>5 DEF One
<1> QED
  BY <1>4, <1>5 DEF gs

LEMMA FramePushed ==
    ASSUME NEW fs \in Seq(FrameType), NEW f \in FrameType, NEW gs, gs = fs \o <<f>>
    PROVE  /\ gs \in Seq(FrameType) /\ Len(gs) = Len(fs) + 1 /\ gs[Len(fs) + 1] = f
           /\ \A x \in 1..Len(fs) : gs[x] = fs[x]
           /\ \A o : /\ OnStacks(gs, o) = OnStacks(fs, o) + Occ(f.stk, o)
                     /\ OnChain(gs, o) = OnChain(fs, o) + One(f.lb = o)
<1>1. /\ gs \in Seq(FrameType) /\ Len(gs) = Len(fs) + 1 /\ gs[Len(fs) + 1] = f
      /\ \A x \in 1..Len(fs) : gs[x] = fs[x]
  OBVIOUS
<1> QED
  BY <1>1, PushedCounts

\* It ends.
LEMMA FramePopped ==
    ASSUME NEW fs \in Seq(FrameType), fs # <<>>, NEW gs, gs = Front(fs)
    PROVE  /\ gs \in Seq(FrameType) /\ Len(gs) = Len(fs) - 1 /\ fs[Len(fs)] \in FrameType
           /\ \A x \in 1..Len(gs) : gs[x] = fs[x] /\ x \in 1..Len(fs)
           /\ \A o : /\ OnStacks(fs, o) = OnStacks(gs, o) + Occ(fs[Len(fs)].stk, o)
                     /\ OnChain(fs, o) = OnChain(gs, o) + One(fs[Len(fs)].lb = o)
<1> DEFINE n == Len(fs)
<1>1. n \in Nat \ {0} /\ fs[n] \in FrameType
  BY LenProperties
<1>2. gs = SubSeq(fs, 1, n - 1)
  BY DEF Front
<1>3. gs \in Seq(FrameType) /\ Len(gs) = n - 1 /\ \A x \in 1..n - 1 : gs[x] = fs[x]
  <2> DEFINE m == n - 1
  <2>1. m \in 0..n /\ 1 \in 1..m + 1 /\ m = m - 1 + 1
    BY <1>1
  <2>2. gs = SubSeq(fs, 1, m)
    BY <1>2
  <2> HIDE DEF m
  <2>3. gs \in Seq(FrameType) /\ Len(gs) = m /\ \A x \in 1..m : gs[x] = fs[x]
    BY <2>1, <2>2
  <2> QED
    BY <2>3 DEF m
<1>4. fs = gs \o <<fs[n]>>
  BY <1>1, <1>3
<1>5. \A o : /\ OnStacks(fs, o) = OnStacks(gs, o) + Occ(fs[n].stk, o)
             /\ OnChain(fs, o) = OnChain(gs, o) + One(fs[n].lb = o)
  <2>1. ASSUME NEW f \in FrameType, fs = gs \o <<f>>, NEW o
        PROVE  /\ OnStacks(fs, o) = OnStacks(gs, o) + Occ(f.stk, o)
               /\ OnChain(fs, o) = OnChain(gs, o) + One(f.lb = o)
    <3>1. gs \in Seq(FrameType)
      BY <1>3
    <3> QED
      BY <2>1, <3>1, PushedCounts, SMTT(30)
  <2> QED
    BY <1>1, <1>4, <2>1
<1> QED
  BY <1>1, <1>3, <1>5

LEMMA NoFrames ==
    ASSUME NEW o PROVE OnStacks(<<>>, o) = 0 /\ OnChain(<<>>, o) = 0
<1>1. ASSUME NEW fs \in Seq(FrameType), DOMAIN fs = {}
      PROVE  OnStacks(fs, o) = 0 /\ OnChain(fs, o) = 0
  <2>1. /\ OnStacks(fs, o) \in Nat /\ OnChain(fs, o) \in Nat
        /\ OnStacks(fs, o) > 0 => \E x \in DOMAIN fs : \E i \in DOMAIN fs[x].stk : fs[x].stk[i] = o
        /\ OnChain(fs, o) > 0 => \E x \in DOMAIN fs : fs[x].lb = o
    BY FramesCounted
  <2> QED
    BY <1>1, <2>1
<1>2. <<>> \in Seq(FrameType) /\ DOMAIN <<>> = {}
  OBVIOUS
<1> QED
  BY <1>1, <1>2, Zenon

-----------------------------------------------------------------------------
(* The invariant of the specification. *)

\* The references from outside the heap, as a function.
RootsOf(fs, r, ph, ds, l) ==
    [o \in Ids |-> OnStacks(fs, o) + OnChain(fs, o) + One(o = r) + One(o \in Statics)
                     + One(o = Main /\ ph # "done") + 2 * Occ(ds, o) + l[o]]

\* What the variables hold in each phase.
Phased(fs, r, ph, ds, l) ==
    /\ ph \in {"compile", "eval", "evaled", "done"}
    /\ fs \in Seq(FrameType) /\ r \in Maybe /\ ds \in Seq(Ids) /\ l \in [Ids -> Nat]
    /\ ph # "compile" => ds = <<>>
    /\ ph = "eval" <=> fs # <<>>
    /\ ph # "eval" => r = NULL
    /\ ph \in {"compile", "eval"} => \A o \in Ids : l[o] = 0

\* The types of the objects that they hold.
FrameHolds(H, f) == H[f.lb].k = "block" /\ \A i \in DOMAIN f.stk : H[f.stk[i]].k \in Items
Anchored(H, fs, r, ph, ds) ==
    /\ \A x \in DOMAIN fs : FrameHolds(H, fs[x])
    /\ r # NULL => H[r].k \in Items
    /\ \A i \in DOMAIN ds : H[ds[i]].k = "block"
    /\ \A o \in Statics : H[o].k = "static"
    /\ ph # "done" => H[Main].k = "block"

Holding(H, T, fs, r, ph, ds, l) ==
    /\ Records(H) /\ Sound(H, T, RootsOf(fs, r, ph, ds, l))
    /\ Phased(fs, r, ph, ds, l) /\ Anchored(H, fs, r, ph, ds)

Root == RootsOf(frames, ret, phase, defs, lost)
IInv == Holding(heap, todo, frames, ret, phase, defs, lost)

LEMMA StaticMain ==
    /\ Static \in Ids /\ Main \in Ids /\ Globals \in Ids /\ Nil \in Ids /\ Static # Main
    /\ Nil # Main /\ Nil # Static
    /\ Static \in Statics /\ Nil \in Statics /\ Statics \subseteq Ids
  BY BoundsAssumption DEF Static, Main, Globals, Nil, Statics, Ids

\* What is held from outside the heap.
LEMMA Rooted ==
    ASSUME NEW fs, NEW r, NEW ph, NEW ds, NEW l, Phased(fs, r, ph, ds, l), NEW o \in Ids
    PROVE  /\ RootsOf(fs, r, ph, ds, l)[o] \in Nat
           /\ RootsOf(fs, r, ph, ds, l)[o]
                = OnStacks(fs, o) + OnChain(fs, o) + One(o = r) + One(o \in Statics)
                     + One(o = Main /\ ph # "done") + 2 * Occ(ds, o) + l[o]
           /\ \/ \E x \in DOMAIN fs : fs[x].lb = o
              \/ \E x \in DOMAIN fs : \E i \in DOMAIN fs[x].stk : fs[x].stk[i] = o
              \/ o = r \/ o \in Statics \/ (o = Main /\ ph # "done")
              \/ \E i \in DOMAIN ds : ds[i] = o
              => RootsOf(fs, r, ph, ds, l)[o] > 0
<1> DEFINE R == RootsOf(fs, r, ph, ds, l)[o]
           s == OnStacks(fs, o)
           c == OnChain(fs, o)
           a == One(o = r)
           t == One(o \in Statics)
           m == One(o = Main /\ ph # "done")
           d == Occ(ds, o)
<1>1. R = s + c + a + t + m + 2 * d + l[o]
  BY DEF RootsOf
<1>2. fs \in Seq(FrameType) /\ ds \in Seq(Ids) /\ l[o] \in Nat
  BY DEF Phased
<1>3. /\ s \in Nat /\ c \in Nat
      /\ s > 0 <=> \E x \in DOMAIN fs : \E i \in DOMAIN fs[x].stk : fs[x].stk[i] = o
      /\ c > 0 <=> \E x \in DOMAIN fs : fs[x].lb = o
  BY <1>2, FramesCounted
<1>4. /\ a \in 0..1 /\ t \in 0..1 /\ m \in 0..1
      /\ (a = 1 <=> o = r) /\ (t = 1 <=> o \in Statics) /\ (m = 1 <=> o = Main /\ ph # "done")
  BY DEF One
<1>5. d \in Nat /\ (d > 0 <=> \E i \in DOMAIN ds : ds[i] = o)
  BY <1>2, SeqFinite, PlacesFinite
<1> HIDE DEF R, s, c, a, t, m, d
<1>6. R \in Nat /\ (s > 0 \/ c > 0 \/ a = 1 \/ t = 1 \/ m = 1 \/ d > 0 => R > 0)
  BY <1>1, <1>2, <1>3, <1>4, <1>5
<1> QED
  BY <1>1, <1>3, <1>4, <1>5, <1>6 DEF R, s, c, a, t, m, d

\* The types of what is held stay when those of the objects with roots do.
LEMMA AnchoredKept ==
    ASSUME NEW fs, NEW r, NEW ph, NEW ds, NEW l, Phased(fs, r, ph, ds, l),
           NEW H, Anchored(H, fs, r, ph, ds), NEW G,
           \A o \in Ids : RootsOf(fs, r, ph, ds, l)[o] > 0 => G[o].k = H[o].k
    PROVE  Anchored(G, fs, r, ph, ds)
<1>1. /\ \A x \in DOMAIN fs : fs[x].lb \in Ids /\ fs[x].stk \in Seq(Ids)
      /\ \A x \in DOMAIN fs : \A i \in DOMAIN fs[x].stk : fs[x].stk[i] \in Ids
      /\ \A i \in DOMAIN ds : ds[i] \in Ids
  <2>1. \A x \in DOMAIN fs : fs[x] \in FrameType
    BY DEF Phased
  <2>2. ASSUME NEW x \in DOMAIN fs PROVE fs[x].lb \in Ids /\ fs[x].stk \in Seq(Ids)
    BY <2>1 DEF FrameType
  <2> QED
    BY <2>2 DEF Phased
<1>2. \A x \in DOMAIN fs : FrameHolds(G, fs[x])
  <2>1. ASSUME NEW x \in DOMAIN fs PROVE FrameHolds(G, fs[x])
    <3>1. G[fs[x].lb].k = H[fs[x].lb].k
      BY <1>1, Rooted
    <3>2. \A i \in DOMAIN fs[x].stk : G[fs[x].stk[i]].k = H[fs[x].stk[i]].k
      BY <1>1, Rooted
    <3> QED
      BY <3>1, <3>2 DEF FrameHolds, Anchored
  <2> QED
    BY <2>1
<1>3. r # NULL => G[r].k \in Items
  <2>1. r # NULL => r \in Ids
    BY DEF Phased, Maybe
  <2> QED
    BY <2>1, Rooted DEF Anchored
<1>4. \A i \in DOMAIN ds : G[ds[i]].k = "block"
  BY <1>1, Rooted DEF Anchored
<1>5. (\A o \in Statics : G[o].k = "static") /\ (ph # "done" => G[Main].k = "block")
  BY StaticMain, Rooted DEF Anchored
<1> QED
  BY <1>2, <1>3, <1>4, <1>5 DEF Anchored

-----------------------------------------------------------------------------
(* A step of what is left to do. *)

LEMMA StepHolds ==
    ASSUME IInv, Step PROVE IInv'
<1> DEFINE s == Head(todo)
           G == Done(s)
           U == Then(s) \o Tail(todo)
<1>1. Records(heap) /\ Sound(heap, todo, Root) /\ todo # <<>>
  BY DEF IInv, Holding, Step, Root
<1>2. Sound(G, U, Root) /\ \A o \in Ids : Boxed(G[o])
  BY <1>1, StepSound
<1>3. heap' = G /\ todo' = U
  BY DEF Step, Done
<1>4. Records(G)
  <2>1. G = [o \in Ids |-> G[o]]
    BY DEF Done
  <2> HIDE DEF G
  <2> QED
    BY <1>2, <2>1 DEF Records
<1>5. ASSUME NEW o \in Ids, Root[o] > 0 PROVE G[o].k = heap[o].k
  <2>1. heap[o].rc > 0
    BY <1>1, <1>5, RefCounted
  <2>2. ~(s.op = "free" /\ o = s.o)
    <3>1. todo \in Seq(Op) /\ 1 \in 1..Len(todo) /\ s = todo[1] /\ s \in Op
      <4>1. todo \in Seq(Op)
        BY <1>1 DEF Sound, Formed
      <4>2. <<>> \in Seq(Op)
        OBVIOUS
      <4> QED
        BY <1>1, <4>1, <4>2, RestType
    <3>2. ASSUME s = FREED(o) PROVE FALSE
      <4>1. Occ(todo, FREED(o)) > 0
        BY <3>1, <3>2, OccType
      <4>2. Occ(todo, FREED(o)) = One(heap[o].k # "free" /\ heap[o].rc = 0)
        BY <1>1 DEF Sound, FreedOnce
      <4> QED
        BY <2>1, <4>1, <4>2 DEF One
    <3>3. s.op = "free" /\ o = s.o => s = FREED(o)
      BY <3>1, OpForms, OpFields
    <3> QED
      BY <3>2, <3>3
  <2>3. G[o] = After(s, o) /\ Boxed(heap[o])
    BY <1>1 DEF Records, Done
  <2> HIDE DEF s, G
  <2>4. CASE s.op = "dec"
    BY <2>3, <2>4, AfterDec
  <2>5. CASE s.op = "free"
    BY <2>2, <2>3, <2>5, AfterFree
  <2>6. CASE s.op # "dec" /\ s.op # "free"
    BY <2>3, <2>6, AfterOther
  <2> QED
    BY <2>4, <2>5, <2>6
<1>6. Anchored(G, frames, ret, phase, defs)
  <2> HIDE DEF G
  <2> QED
    BY <1>5, AnchoredKept DEF IInv, Holding, Root
<1>7. Holding(G, U, frames, ret, phase, defs, lost)
  <2> HIDE DEF G, U
  <2> QED
    BY <1>2, <1>4, <1>6 DEF IInv, Holding, Root
<1>8. frames' = frames /\ ret' = ret /\ phase' = phase /\ defs' = defs /\ lost' = lost
  BY DEF Step
<1> HIDE DEF G, U
<1> QED
  BY <1>3, <1>7, <1>8 DEF IInv
=============================================================================
