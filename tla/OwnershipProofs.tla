--------------------------- MODULE OwnershipProofs ---------------------------
(***************************************************************************)
(* Proofs about Ownership: for every program and every bound, each count   *)
(* is the number of references whenever an instruction is over, and        *)
(* nothing is touched after it was freed, in the middle of one either.     *)
(* Here is why every instruction begins with operations that keep the      *)
(* invariant of OwnershipSteps, and what follows from it.                  *)
(*                                                                         *)
(* Then, after destruct_compiler nothing is left but rings through the     *)
(* globals and what a quit abandoned.  Counts are exact, so what is left   *)
(* is held; and the references that do not come from the globals never     *)
(* make a ring, which is the second invariant.                             *)
(***************************************************************************)
EXTENDS OwnershipSteps

-----------------------------------------------------------------------------
(* An instruction begins. *)

\* No field of a block or a function is NULL.
Full(H) ==
    \A b \in Ids : H[b].k \in {"block", "function"} => \A x \in DOMAIN H[b].f : H[b].f[x] # NULL

\* The objects that there are keep their types.
Alike(H, G) == \A o \in Ids : H[o].k # "free" => G[o].k = H[o].k

LEMMA SoundFull ==
    ASSUME NEW H, NEW R, Sound(H, <<>>, R)
    PROVE  Full(H)
<1>1. Begun(H, <<>>, R)
  BY SoundBegun
<1>2. ASSUME NEW b \in Ids, H[b].k \in {"block", "function"}, NEW x \in DOMAIN H[b].f
      PROVE  H[b].f[x] # NULL
  <2>1. H[b].rc > 0
    BY <1>1, <1>2 DEF Begun
  <2>2. Shaped(H, <<>>, b)
    BY <2>1 DEF Sound, Formed
  <2>3. Accepts(H, b, x, H[b].f[x])
    BY <2>2, EmptyTodo DEF Shaped
  <2> QED
    BY <1>2, <2>3, IdsFinite DEF Accepts, IsA
<1> QED
  BY <1>2 DEF Full

LEMMA FullFilled ==
    ASSUME NEW H, Full(H), NEW T
    PROVE  Filled(H, T)
  BY DEF Full, Filled

LEMMA BirthFilled ==
    ASSUME NEW H, NEW T, Filled(H, T), DOMAIN H = Ids, NEW n \in Ids, NEW v,
           v.k \in {"block", "function"} =>
               \A x \in DOMAIN v.f : v.f[x] = NULL => Stale(T, n, x)
    PROVE  Filled(Birth(H, n, v), T)
<1>1. ASSUME NEW b \in Ids PROVE Birth(H, n, v)[b] = IF b = n THEN v ELSE H[b]
  BY DEF Birth
<1> QED
  BY <1>1 DEF Filled

LEMMA BirthRecords ==
    ASSUME NEW H, Records(H), NEW n \in Ids, NEW v, Boxed(v)
    PROVE  /\ Records(Birth(H, n, v)) /\ DOMAIN H = Ids
           /\ Birth(H, n, v)[n] = v /\ \A o : o # n => Birth(H, n, v)[o] = H[o]
<1>1. H = [o \in Ids |-> H[o]] /\ DOMAIN H = Ids
  BY DEF Records
<1>2. Birth(H, n, v)[n] = v /\ \A o : o # n => Birth(H, n, v)[o] = H[o]
  BY <1>1 DEF Birth
<1>3. Birth(H, n, v) = [o \in Ids |-> Birth(H, n, v)[o]]
  BY <1>1 DEF Birth
<1> QED
  BY <1>1, <1>2, <1>3 DEF Records

LEMMA BirthAlike ==
    ASSUME NEW H, NEW G, Alike(H, G), DOMAIN G = Ids, NEW n \in Ids, H[n].k = "free", NEW v
    PROVE  Alike(H, Birth(G, n, v))
<1>1. \A o : o # n => Birth(G, n, v)[o] = G[o]
  BY DEF Birth
<1> QED
  BY <1>1 DEF Alike

LEMMA SelfAlike == \A H : Alike(H, H)
  BY DEF Alike

\* One operation after another.
LEMMA List1 ==
    ASSUME NEW a
    PROVE  <<a>> = Plus(<<>>, a)
  BY DEF Plus

LEMMA List2 ==
    ASSUME NEW a, NEW b
    PROVE  <<a, b>> = Plus(<<a>>, b)
<1>1. <<a, b>> = Append(<<a>>, b)
  OBVIOUS
<1>2. Append(<<a>>, b) = <<a>> \o <<b>>
  OBVIOUS
<1> QED
  BY <1>1, <1>2, Zenon DEF Plus

LEMMA List3 ==
    ASSUME NEW a, NEW b, NEW c
    PROVE  <<a, b, c>> = Plus(<<a, b>>, c)
  BY DEF Plus

LEMMA List4 ==
    ASSUME NEW a, NEW b, NEW c, NEW d
    PROVE  <<a, b, c, d>> = Plus(<<a, b, c>>, d)
  BY DEF Plus

LEMMA List5 ==
    ASSUME NEW a, NEW b, NEW c, NEW d, NEW e
    PROVE  <<a, b, c, d, e>> = Plus(<<a, b, c, d>>, e)
  BY DEF Plus

LEMMA List6 ==
    ASSUME NEW a, NEW b, NEW c, NEW d, NEW e, NEW f
    PROVE  <<a, b, c, d, e, f>> = Plus(<<a, b, c, d, e>>, f)
  BY DEF Plus

LEMMA PlusConcat ==
    ASSUME NEW T \in Seq(Op), NEW U \in Seq(Op), NEW s \in Op
    PROVE  T \o Plus(U, s) = Plus(T \o U, s)
<1> DEFINE t == <<s>>
<1>1. t \in Seq(Op)
  OBVIOUS
<1> HIDE DEF t
<1>2. T \o (U \o t) = (T \o U) \o t
  BY <1>1
<1> QED
  BY <1>2 DEF Plus, t

LEMMA MoreAt == ASSUME NEW R, NEW p, NEW o \in Ids PROVE More(R, p)[o] = R[o] + One(o = p)
  BY DEF More

LEMMA LessAt == ASSUME NEW R, NEW p, NEW o \in Ids PROVE Less(R, p)[o] = R[o] - One(o = p)
  BY DEF Less

\* What the invariant says before an instruction.
LEMMA Idle ==
    ASSUME IInv, todo = <<>>
    PROVE  /\ Records(heap) /\ DOMAIN heap = Ids
           /\ Sound(heap, <<>>, Root) /\ Begun(heap, <<>>, Root) /\ Full(heap)
           /\ Phased(frames, ret, phase, defs, lost)
           /\ Anchored(heap, frames, ret, phase, defs)
<1>1. Records(heap) /\ Sound(heap, <<>>, Root)
  BY DEF IInv, Holding, Root
<1>2. DOMAIN heap = Ids
  BY <1>1 DEF Records
<1> QED
  BY <1>1, <1>2, SoundBegun, SoundFull DEF IInv, Holding

\* What is held has references and a type.
LEMMA IdleHeld ==
    ASSUME NEW H, NEW R, Sound(H, <<>>, R), NEW o \in Ids, R[o] > 0
    PROVE  H[o].rc > 0 /\ H[o].k # "free" /\ Drafted(H, o)
  BY SoundBegun, RefCounted, RootHeld

\* The fields of a block and of a function.
LEMMA BlockFields ==
    ASSUME NEW H, NEW R, Sound(H, <<>>, R), NEW b \in Ids, H[b].rc > 0, H[b].k = "block"
    PROVE  /\ DOMAIN H[b].f = 1..3
           /\ IsA(H, H[b].f[1], {"map"}) /\ IsA(H, H[b].f[2], {"map"})
           /\ IsA(H, H[b].f[3], {"list"})
           /\ \A x \in 1..3 : H[H[b].f[x]].rc > 0
<1>1. Shaped(H, <<>>, b)
  BY DEF Sound, Formed
<1>2. DOMAIN H[b].f = 1..3
  BY <1>1 DEF Shaped, Framed
<1>3. ASSUME NEW x \in 1..3 PROVE Accepts(H, b, x, H[b].f[x]) /\ ~Stale(<<>>, b, x)
  BY <1>1, <1>2, EmptyTodo DEF Shaped
<1>4. IsA(H, H[b].f[1], {"map"}) /\ IsA(H, H[b].f[2], {"map"}) /\ IsA(H, H[b].f[3], {"list"})
  <2>1. Accepts(H, b, 1, H[b].f[1]) /\ Accepts(H, b, 2, H[b].f[2]) /\ Accepts(H, b, 3, H[b].f[3])
    BY <1>3
  <2> QED
    BY <2>1 DEF Accepts
<1>5. ASSUME NEW x \in 1..3 PROVE H[H[b].f[x]].rc > 0
  <2>1. H[b].f[x] \in Ids
    BY <1>4 DEF IsA
  <2> QED
    BY <1>2, <1>3, <2>1, FieldCounted
<1> QED
  BY <1>2, <1>4, <1>5

LEMMA FunctionFields ==
    ASSUME NEW H, NEW R, Sound(H, <<>>, R), NEW b \in Ids, H[b].rc > 0, H[b].k = "function"
    PROVE  /\ DOMAIN H[b].f = 1..1 /\ H[b].ps \in Params
           /\ IsA(H, H[b].f[1], {"block"}) /\ H[H[b].f[1]].rc > 0
<1>1. Shaped(H, <<>>, b)
  BY DEF Sound, Formed
<1>2. DOMAIN H[b].f = 1..1 /\ H[b].ps \in Params /\ 1 \in DOMAIN H[b].f
  BY <1>1 DEF Shaped, Framed
<1>3. Accepts(H, b, 1, H[b].f[1]) /\ ~Stale(<<>>, b, 1)
  BY <1>1, <1>2, EmptyTodo DEF Shaped
<1>4. IsA(H, H[b].f[1], {"block"})
  BY <1>3 DEF Accepts
<1>5. H[b].f[1] \in Ids
  BY <1>4 DEF IsA
<1> QED
  BY <1>2, <1>3, <1>4, <1>5, FieldCounted

\* The items of a list and of a map.
LEMMA ItemFields ==
    ASSUME NEW H, NEW R, Sound(H, <<>>, R), NEW b \in Ids, H[b].rc > 0,
           H[b].k \in {"list", "map"}, NEW x \in DOMAIN H[b].f, H[b].f[x] # NULL
    PROVE  IsA(H, H[b].f[x], Items) /\ H[H[b].f[x]].rc > 0
<1>1. Shaped(H, <<>>, b)
  BY DEF Sound, Formed
<1>2. Accepts(H, b, x, H[b].f[x]) /\ ~Stale(<<>>, b, x)
  BY <1>1, EmptyTodo DEF Shaped
<1>3. IsA(H, H[b].f[x], Items)
  BY <1>2 DEF Accepts
<1>4. H[b].f[x] \in Ids
  BY <1>3 DEF IsA
<1> QED
  BY <1>2, <1>3, <1>4, FieldCounted

-----------------------------------------------------------------------------
(* The running block.                                                        *)

LEMMA Runs ==
    ASSUME IInv, Running
    PROVE  /\ phase = "eval" /\ todo = <<>> /\ defs = <<>> /\ \A o \in Ids : lost[o] = 0
           /\ frames \in Seq(FrameType) /\ frames # <<>>
           /\ lb = frames[Len(frames)].lb /\ Stack = frames[Len(frames)].stk
           /\ Len(frames) \in Nat /\ Len(frames) \in 1..Len(frames)
           /\ lb \in Ids /\ heap[lb].k = "block"
           /\ Stack \in Seq(Ids)
           /\ \A i \in 1..Len(Stack) : Stack[i] \in Ids /\ heap[Stack[i]].k \in Items
           /\ ret \in Maybe /\ (ret # NULL => heap[ret].k \in Items)
<1>1. phase = "eval" /\ todo = <<>>
  BY DEF Running, Ready
<1>2. Phased(frames, ret, phase, defs, lost) /\ Anchored(heap, frames, ret, phase, defs)
  BY DEF IInv, Holding
<1>3. /\ frames \in Seq(FrameType) /\ frames # <<>> /\ defs = <<>> /\ ret \in Maybe
      /\ \A o \in Ids : lost[o] = 0
  BY <1>1, <1>2 DEF Phased
<1>4. Len(frames) \in Nat /\ Len(frames) \in 1..Len(frames) /\ DOMAIN frames = 1..Len(frames)
  BY <1>3, LenProperties
<1>5. lb = frames[Len(frames)].lb /\ Stack = frames[Len(frames)].stk
  BY DEF lb, Stack, Last
<1>6. frames[Len(frames)] \in FrameType
  BY <1>3, <1>4
<1>7. lb \in Ids /\ Stack \in Seq(Ids)
  BY <1>5, <1>6 DEF FrameType
<1>8. FrameHolds(heap, frames[Len(frames)]) /\ (ret # NULL => heap[ret].k \in Items)
  BY <1>2, <1>4 DEF Anchored
<1>9. heap[lb].k = "block" /\ \A i \in 1..Len(Stack) : heap[Stack[i]].k \in Items
  <2>1. DOMAIN Stack = 1..Len(Stack)
    BY <1>7
  <2> QED
    BY <1>5, <1>8, <2>1 DEF FrameHolds
<1> QED
  BY <1>1, <1>3, <1>4, <1>5, <1>7, <1>8, <1>9

\* What the roots hold while it runs, and what is left of them without it.
Besides(o) == OnStacks(Front(frames), o) + OnChain(Front(frames), o)

LEMMA RunningRoots ==
    ASSUME IInv, Running, NEW o \in Ids
    PROVE  /\ Root[o] = Besides(o) + Occ(Stack, o) + One(o = lb) + One(o = ret)
                          + One(o \in Statics) + One(o = Main)
           /\ Besides(o) \in Nat /\ Occ(Stack, o) \in Nat
           /\ Root[o] \in Nat
<1>0. Phased(frames, ret, phase, defs, lost)
  BY DEF IInv, Holding
<1>1. /\ Root[o] \in Nat
      /\ Root[o] = OnStacks(frames, o) + OnChain(frames, o) + One(o = ret) + One(o \in Statics)
                     + One(o = Main /\ phase # "done") + 2 * Occ(defs, o) + lost[o]
  BY <1>0, Rooted DEF Root
<1>2. /\ phase = "eval" /\ defs = <<>> /\ lost[o] = 0 /\ frames \in Seq(FrameType) /\ frames # <<>>
      /\ lb = frames[Len(frames)].lb /\ Stack = frames[Len(frames)].stk /\ Stack \in Seq(Ids)
  BY Runs
<1>3. Occ(defs, o) = 0 /\ One(o = Main /\ phase # "done") = One(o = Main)
  BY <1>2, OccShort
<1> DEFINE fs == Front(frames)
<1>4. /\ fs \in Seq(FrameType)
      /\ OnStacks(frames, o) = OnStacks(fs, o) + Occ(Stack, o)
      /\ OnChain(frames, o) = OnChain(fs, o) + One(lb = o)
  BY <1>2, FramePopped
<1>5. OnStacks(fs, o) \in Nat /\ OnChain(fs, o) \in Nat /\ Occ(Stack, o) \in Nat
  BY <1>2, <1>4, FramesCounted, OccType
<1>6. One(lb = o) = One(o = lb)
  BY DEF One
<1> DEFINE b == Besides(o)
           s == OnStacks(fs, o)
           c == OnChain(fs, o)
           u == Occ(Stack, o)
           l == One(o = lb)
           r == One(o = ret)
           t == One(o \in Statics)
           m == One(o = Main)
<1>7. b = s + c
  BY DEF Besides
<1>8. l \in Nat /\ r \in Nat /\ t \in Nat /\ m \in Nat
  BY OneType
<1>9. OnStacks(frames, o) = s + u /\ OnChain(frames, o) = c + l
  BY <1>4, <1>6
<1>10. Root[o] = (s + u) + (c + l) + r + t + m + 2 * 0 + 0
  BY <1>1, <1>2, <1>3, <1>9
<1>11. s \in Nat /\ c \in Nat /\ u \in Nat
  BY <1>5
<1> HIDE DEF b, s, c, u, l, r, t, m
<1>12. Root[o] = b + u + l + r + t + m /\ b \in Nat
  BY <1>7, <1>8, <1>10, <1>11
<1> QED
  BY <1>1, <1>11, <1>12 DEF b, u, l, r, t, m

OnIds(Q) == Q = [o \in Ids |-> Q[o]]

LEMMA AllOnIds ==
    /\ \A R, p : OnIds(More(R, p)) /\ OnIds(Less(R, p))
    /\ \A fs, r, ph, ds, l : OnIds(RootsOf(fs, r, ph, ds, l))
    /\ \A Q, R : OnIds(Q) /\ OnIds(R) /\ (\A o \in Ids : Q[o] = R[o]) => Q = R
<1>1. \A R, p : OnIds(More(R, p)) /\ OnIds(Less(R, p))
  BY DEF OnIds, More, Less
<1>2. \A fs, r, ph, ds, l : OnIds(RootsOf(fs, r, ph, ds, l))
  BY DEF OnIds, RootsOf
<1>3. ASSUME NEW Q, NEW R, OnIds(Q), OnIds(R), \A o \in Ids : Q[o] = R[o] PROVE Q = R
  BY <1>3 DEF OnIds
<1> QED
  BY <1>1, <1>2, <1>3

\* An instruction that changes the stack of the running block to s, the heap
\* to H, and leaves T to do.
Prepared(H, T, Q) ==
    Records(H) /\ Begun(H, T, Q) /\ Filled(H, T) /\ OnIds(Q) /\ Alike(heap, H)
Swaps(s, Q) == \A o \in Ids : Q[o] + Occ(Stack, o) = Root[o] + Occ(s, o)
Stacked(H, s) == s \in Seq(Ids) /\ \A i \in 1..Len(s) : H[s[i]].k \in Items
WithStack(s) == WithTop(frames, s)

LEMMA SwapRoots ==
    ASSUME IInv, Running, NEW s \in Seq(Ids), NEW o \in Ids
    PROVE  /\ WithStack(s) \in Seq(FrameType) /\ WithStack(s) # <<>>
           /\ OnStacks(WithStack(s), o) + Occ(Stack, o) = OnStacks(frames, o) + Occ(s, o)
           /\ OnChain(WithStack(s), o) = OnChain(frames, o)
<1>1. frames \in Seq(FrameType) /\ frames # <<>> /\ Stack = frames[Len(frames)].stk
  BY Runs
<1> QED
  BY <1>1, StackChanged, StackCounts DEF WithStack

LEMMA DoHolds ==
    ASSUME IInv, Running, NEW H, NEW T, NEW Q, Prepared(H, T, Q),
           NEW s, Swaps(s, Q), Stacked(H, s)
    PROVE  Holding(H, T, WithStack(s), ret, phase, defs, lost)
<1> DEFINE gs == WithStack(s)
           R == RootsOf(gs, ret, phase, defs, lost)
<1>0. s \in Seq(Ids)
  BY DEF Stacked
<1>1. Phased(frames, ret, phase, defs, lost) /\ Anchored(heap, frames, ret, phase, defs)
  BY DEF IInv, Holding
<1>2. /\ frames \in Seq(FrameType) /\ frames # <<>> /\ Stack = frames[Len(frames)].stk
      /\ phase = "eval" /\ Stack \in Seq(Ids)
  BY Runs
<1>3. /\ gs \in Seq(FrameType) /\ Len(gs) = Len(frames) /\ gs # <<>>
      /\ gs[Len(frames)].lb = frames[Len(frames)].lb /\ gs[Len(frames)].stk = s
      /\ \A x \in 1..Len(frames) : gs[x].lb = frames[x].lb /\ (x # Len(frames) => gs[x] = frames[x])
  BY <1>0, <1>2, StackChanged DEF WithStack
<1>4. Phased(gs, ret, phase, defs, lost)
  BY <1>1, <1>2, <1>3 DEF Phased
<1>5. ASSUME NEW o \in Ids PROVE R[o] = Q[o]
  <2>1. /\ OnStacks(gs, o) + Occ(Stack, o) = OnStacks(frames, o) + Occ(s, o)
        /\ OnChain(gs, o) = OnChain(frames, o)
    BY <1>0, SwapRoots
  <2> DEFINE z == One(o = ret)
             y == One(o \in Statics)
             w == One(o = Main /\ phase # "done")
             d == Occ(defs, o)
             c == OnChain(frames, o)
             a == OnStacks(frames, o)
             b == OnStacks(gs, o)
             p == Occ(Stack, o)
             q == Occ(s, o)
  <2>2. R[o] = b + c + z + y + w + 2 * d + lost[o] /\ R[o] \in Nat
    BY <1>4, <2>1, Rooted
  <2>3. Root[o] = a + c + z + y + w + 2 * d + lost[o] /\ Root[o] \in Nat
    BY <1>1, Rooted DEF Root
  <2>4. Q[o] + p = Root[o] + q
    BY DEF Swaps
  <2>5. b + p = a + q
    BY <2>1
  <2>6. Q[o] \in Nat
    BY DEF Prepared, Begun
  <2>7. a \in Nat /\ b \in Nat /\ c \in Nat
    BY <1>2, <1>3, FramesCounted
  <2>8. p \in Nat /\ q \in Nat /\ d \in Nat /\ lost[o] \in Nat
    <3>1. defs \in Seq(Ids) /\ lost[o] \in Nat
      BY <1>1 DEF Phased
    <3> QED
      BY <1>0, <1>2, <3>1, OccType
  <2>9. z \in Nat /\ y \in Nat /\ w \in Nat
    BY OneType
  <2> DEFINE e == c + z + y + w + 2 * d + lost[o]
             n == Root[o]
             m == R[o]
             k == Q[o]
  <2>10. m = b + e /\ n = a + e /\ e \in Nat /\ m \in Nat /\ n \in Nat
    <3> HIDE DEF R, z, y, w, d, c, a, b
    <3> QED
      BY <2>2, <2>3, <2>7, <2>8, <2>9
  <2>11. k + p = n + q /\ k \in Nat
    BY <2>4, <2>6
  <2> HIDE DEF e, n, m, k, a, b, p, q
  <2>12. m = k
    BY <2>5, <2>7, <2>8, <2>10, <2>11
  <2> QED
    BY <2>12 DEF m, k
<1>6. R = Q
  BY <1>5, AllOnIds DEF Prepared
<1>7. Sound(H, T, R)
  BY <1>6, BegunSound DEF Prepared
<1>8. Anchored(H, gs, ret, phase, defs)
  <2>1. Anchored(H, frames, ret, phase, defs)
    <3>1. ASSUME NEW o \in Ids, Root[o] > 0 PROVE H[o].k = heap[o].k
      <4>1. Sound(heap, <<>>, Root)
        BY Idle, Runs
      <4>2. heap[o].k # "free"
        BY <3>1, <4>1, IdleHeld
      <4> QED
        BY <4>2 DEF Prepared, Alike
    <3> QED
      BY <1>1, <3>1, AnchoredKept DEF Root
  <2>2. ASSUME NEW x \in DOMAIN gs PROVE FrameHolds(H, gs[x])
    <3>1. DOMAIN gs = 1..Len(frames) /\ DOMAIN frames = 1..Len(frames)
      BY <1>2, <1>3
    <3>2. FrameHolds(H, frames[x])
      BY <2>1, <3>1 DEF Anchored
    <3>3. CASE x # Len(frames)
      BY <1>3, <3>1, <3>2, <3>3
    <3>4. CASE x = Len(frames)
      <4>1. gs[x].lb = frames[x].lb /\ gs[x].stk = s /\ DOMAIN s = 1..Len(s)
        BY <1>0, <1>3, <3>4
      <4> QED
        BY <3>2, <4>1 DEF FrameHolds, Stacked
    <3> QED
      BY <3>3, <3>4
  <2> QED
    BY <2>1, <2>2 DEF Anchored
<1> HIDE DEF R
<1> QED
  BY <1>4, <1>7, <1>8 DEF Holding, Prepared, R

\* The same when eval gives up.
LEMMA QuitHolds ==
    ASSUME IInv, Running, NEW H, NEW T, NEW Q, Prepared(H, T, Q),
           NEW s, Swaps(s, Q), Stacked(H, s), NEW l,
           l = [o \in Ids |-> OnStacks(WithStack(s), o) + OnChain(WithStack(s), o) + One(o = ret)]
    PROVE  Holding(H, T, <<>>, NULL, "evaled", defs, l)
<1> DEFINE gs == WithStack(s)
           R == RootsOf(gs, ret, phase, defs, lost)
           N == RootsOf(<<>>, NULL, "evaled", defs, l)
<1>1. Holding(H, T, gs, ret, phase, defs, lost)
  BY DoHolds
<1>2. Phased(gs, ret, phase, defs, lost) /\ Anchored(H, gs, ret, phase, defs) /\ Sound(H, T, R)
  BY <1>1 DEF Holding
<1>3. phase = "eval" /\ defs = <<>> /\ \A o \in Ids : lost[o] = 0
  BY Runs
<1>4. Phased(<<>>, NULL, "evaled", defs, l)
  <2>1. gs \in Seq(FrameType) /\ defs \in Seq(Ids)
    BY <1>2 DEF Phased
  <2>2. ASSUME NEW o \in Ids
        PROVE  OnStacks(gs, o) + OnChain(gs, o) + One(o = ret) \in Nat
    <3>1. OnStacks(gs, o) \in Nat /\ OnChain(gs, o) \in Nat
      BY <2>1, FramesCounted
    <3>2. One(o = ret) \in Nat
      BY OneType
    <3> QED
      BY <3>1, <3>2
  <2>3. l \in [Ids -> Nat]
    BY <2>2
  <2>4. <<>> \in Seq(FrameType)
    OBVIOUS
  <2> QED
    BY <1>3, <2>1, <2>3, <2>4 DEF Phased, Maybe
<1>5. ASSUME NEW o \in Ids PROVE R[o] = N[o]
  <2> DEFINE z == One(o = ret)
             y == One(o \in Statics)
             w == One(o = Main /\ phase # "done")
             v == One(o = Main /\ "evaled" # "done")
             c == OnChain(gs, o)
             a == OnStacks(gs, o)
             n == One(o = NULL)
             d == Occ(defs, o)
  <2>1. R[o] = a + c + z + y + w + 2 * d + lost[o] /\ R[o] \in Nat
    BY <1>2, Rooted
  <2>2. N[o] = OnStacks(<<>>, o) + OnChain(<<>>, o) + n + y + v + 2 * d + l[o] /\ N[o] \in Nat
    BY <1>4, Rooted
  <2>3. OnStacks(<<>>, o) = 0 /\ OnChain(<<>>, o) = 0 /\ lost[o] = 0
    BY <1>3, NoFrames
  <2>4. n = 0 /\ v = w
    BY <1>3, IdsFinite DEF One
  <2>5. l[o] = a + c + z
    OBVIOUS
  <2>6. a \in Nat /\ c \in Nat
    BY <1>2, FramesCounted DEF Phased
  <2>7. z \in Nat /\ y \in Nat /\ w \in Nat
    BY OneType
  <2>8. d \in Nat
    BY <1>4, OccType DEF Phased
  <2> HIDE DEF R, N, z, y, w, v, c, a, n, d
  <2> QED
    BY <2>1, <2>2, <2>3, <2>4, <2>5, <2>6, <2>7, <2>8
<1>6. R = N
  BY <1>5, AllOnIds
<1>7. Anchored(H, <<>>, NULL, "evaled", defs)
  BY <1>2, <1>3 DEF Anchored
<1>8. Sound(H, T, N) /\ Records(H)
  BY <1>1, <1>2, <1>6 DEF Holding
<1> HIDE DEF N
<1> QED
  BY <1>4, <1>7, <1>8 DEF Holding, N

-----------------------------------------------------------------------------
(* The instructions. *)

LEMMA DoPreserves ==
    ASSUME IInv, Running, NEW H, NEW T, NEW Q, Prepared(H, T, Q),
           NEW s, Swaps(s, Q), Stacked(H, s), heap' = H, Do(s, T)
    PROVE  IInv'
<1>1. Holding(H, T, WithStack(s), ret, phase, defs, lost)
  BY DoHolds
<1>2. /\ todo' = T /\ frames' = WithStack(s) /\ ret' = ret /\ phase' = phase /\ defs' = defs
      /\ lost' = lost
  BY DEF Do, WithStack, WithTop
<1> QED
  BY <1>1, <1>2 DEF IInv

LEMMA QuitPreserves ==
    ASSUME IInv, Running, NEW T, NEW Q, Prepared(heap, T, Q),
           NEW s, Swaps(s, Q), Stacked(heap, s), Quit(s, T)
    PROVE  IInv'
<1>1. Holding(heap, T, <<>>, NULL, "evaled", defs, lost')
  <2>1. lost' = [o \in Ids |-> OnStacks(WithStack(s), o) + OnChain(WithStack(s), o) + One(o = ret)]
    BY DEF Quit, WithStack, WithTop
  <2> QED
    BY <2>1, QuitHolds
<1>2. /\ todo' = T /\ frames' = <<>> /\ ret' = NULL /\ phase' = "evaled" /\ defs' = defs
      /\ heap' = heap
  BY DEF Quit
<1> QED
  BY <1>1, <1>2 DEF IInv

LEMMA HeapPrepared ==
    ASSUME IInv, Running, NEW T, NEW Q, Begun(heap, T, Q), OnIds(Q)
    PROVE  Prepared(heap, T, Q)
<1>1. Records(heap) /\ Full(heap)
  BY Runs, Idle
<1> QED
  BY <1>1, FullFilled, SelfAlike DEF Prepared

LEMMA BlankFilled ==
    ASSUME NEW H, NEW T, Filled(H, T), DOMAIN H = Ids, NEW n \in Ids, NEW v,
           v.k \notin {"block", "function"}
    PROVE  Filled(Birth(H, n, v), T)
  BY BirthFilled

\* The stack, what is on top of it, and what is below.
LEMMA StackedSelf ==
    ASSUME IInv, Running PROVE Stacked(heap, Stack)
  BY Runs DEF Stacked

LEMMA StackedAlike ==
    ASSUME NEW H, NEW G, Alike(H, G), NEW s, Stacked(H, s) PROVE Stacked(G, s)
<1>1. s \in Seq(Ids) /\ \A i \in 1..Len(s) : s[i] \in Ids /\ H[s[i]].k \in Items
  BY DEF Stacked
<1> QED
  BY <1>1 DEF Stacked, Alike, Items

LEMMA OccPlus ==
    ASSUME NEW s \in Seq(Ids), NEW v \in Ids, NEW o
    PROVE  Occ(Append(s, v), o) = Occ(s, o) + One(o = v)
<1>1. Append(s, v) = s \o <<v>> /\ <<v>> \in Seq(Ids)
  OBVIOUS
<1>2. Occ(s \o <<v>>, o) = Occ(s, o) + Occ(<<v>>, o)
  BY <1>1, OccConcat
<1>3. Occ(<<v>>, o) = One(v = o) /\ One(v = o) = One(o = v)
  BY OccShort DEF One
<1> QED
  BY <1>1, <1>2, <1>3

LEMMA StackedPlus ==
    ASSUME NEW H, NEW s, Stacked(H, s), NEW v \in Ids, H[v].k \in Items
    PROVE  /\ Stacked(H, Append(s, v)) /\ s \in Seq(Ids)
           /\ \A o : Occ(Append(s, v), o) = Occ(s, o) + One(o = v)
<1>1. s \in Seq(Ids) /\ \A i \in 1..Len(s) : H[s[i]].k \in Items
  BY DEF Stacked
<1>2. Append(s, v) \in Seq(Ids) /\ Len(Append(s, v)) = Len(s) + 1 /\ Len(s) \in Nat
  BY <1>1
<1>3. ASSUME NEW i \in 1..Len(s) + 1 PROVE H[Append(s, v)[i]].k \in Items
  <2>1. CASE i = Len(s) + 1
    BY <1>1, <2>1
  <2>2. CASE i \in 1..Len(s)
    BY <1>1, <2>2
  <2> QED
    BY <1>2, <2>1, <2>2
<1>4. \A o : Occ(Append(s, v), o) = Occ(s, o) + One(o = v)
  BY <1>1, OccPlus
<1> QED
  BY <1>1, <1>2, <1>3, <1>4 DEF Stacked

LEMMA StackedCut ==
    ASSUME NEW H, NEW s, Stacked(H, s), NEW n \in 0..Len(s) - 1
    PROVE  /\ Stacked(H, SubSeq(s, 1, n)) /\ s[n + 1] \in Ids /\ H[s[n + 1]].k \in Items
           /\ \A o : Occ(SubSeq(s, 1, n + 1), o) = Occ(SubSeq(s, 1, n), o) + One(o = s[n + 1])
<1>1. s \in Seq(Ids) /\ Len(s) \in Nat /\ \A i \in 1..Len(s) : H[s[i]].k \in Items /\ s[i] \in Ids
  BY DEF Stacked
<1>2. n + 1 \in 1..Len(s) /\ n \in Nat
  BY <1>1
<1> DEFINE t == SubSeq(s, 1, n)
           u == SubSeq(s, 1, n + 1)
<1>3. t \in Seq(Ids) /\ Len(t) = n /\ \A i \in 1..n : t[i] = s[i]
  BY <1>1, <1>2
<1>4. u = Append(t, s[n + 1])
  BY <1>1, <1>2
<1>5. Stacked(H, t)
  <2> HIDE DEF t
  <2> QED
    BY <1>1, <1>2, <1>3 DEF Stacked
<1>6. \A o : Occ(u, o) = Occ(t, o) + One(o = s[n + 1])
  <2>1. s[n + 1] \in Ids /\ t \in Seq(Ids)
    BY <1>1, <1>2, <1>3
  <2> HIDE DEF t, u
  <2> QED
    BY <1>4, <2>1, OccPlus
<1> QED
  BY <1>1, <1>2, <1>5, <1>6

LEMMA TopOne ==
    ASSUME IInv, Running, Len(Stack) > 0
    PROVE  /\ FromTop(1) \in Ids /\ heap[FromTop(1)].k \in Items /\ Stacked(heap, Below(1))
           /\ \A o : Occ(Stack, o) = Occ(Below(1), o) + One(o = FromTop(1))
<1>1. Stack \in Seq(Ids) /\ Stacked(heap, Stack)
  BY Runs, StackedSelf
<1> DEFINE n == Len(Stack) - 1
<1>2. n \in 0..Len(Stack) - 1 /\ n + 1 = Len(Stack) /\ Len(Stack) + 1 - 1 = Len(Stack)
  BY <1>1
<1>3. SubSeq(Stack, 1, Len(Stack)) = Stack
  BY <1>1
<1> HIDE DEF n
<1>4. /\ Stacked(heap, SubSeq(Stack, 1, n)) /\ Stack[n + 1] \in Ids
      /\ heap[Stack[n + 1]].k \in Items
      /\ \A o : Occ(SubSeq(Stack, 1, n + 1), o)
                  = Occ(SubSeq(Stack, 1, n), o) + One(o = Stack[n + 1])
  BY <1>1, <1>2, StackedCut
<1>5. Below(1) = SubSeq(Stack, 1, n) /\ FromTop(1) = Stack[n + 1]
  BY <1>2 DEF Below, FromTop, n
<1> QED
  BY <1>2, <1>3, <1>4, <1>5

LEMMA TopTwo ==
    ASSUME IInv, Running, Len(Stack) > 1
    PROVE  /\ FromTop(2) \in Ids /\ heap[FromTop(2)].k \in Items /\ Stacked(heap, Below(2))
           /\ \A o : Occ(Stack, o) = Occ(Below(2), o) + One(o = FromTop(1)) + One(o = FromTop(2))
<1>1. Stack \in Seq(Ids) /\ Stacked(heap, Stack)
  BY Runs, StackedSelf
<1>0. /\ FromTop(1) \in Ids
      /\ \A o : Occ(Stack, o) = Occ(Below(1), o) + One(o = FromTop(1))
  BY <1>1, TopOne
<1> DEFINE n == Len(Stack) - 2
<1>2. n \in 0..Len(Stack) - 1
  BY <1>1
<1>3. n + 1 = Len(Stack) - 1 /\ Len(Stack) + 1 - 2 = n + 1
  BY <1>1
<1> HIDE DEF n
<1>4. /\ Stacked(heap, SubSeq(Stack, 1, n)) /\ Stack[n + 1] \in Ids
      /\ heap[Stack[n + 1]].k \in Items
      /\ \A o : Occ(SubSeq(Stack, 1, n + 1), o)
                  = Occ(SubSeq(Stack, 1, n), o) + One(o = Stack[n + 1])
  BY <1>1, <1>2, StackedCut
<1>5. /\ Below(2) = SubSeq(Stack, 1, n) /\ FromTop(2) = Stack[n + 1]
      /\ Below(1) = SubSeq(Stack, 1, n + 1)
  BY <1>3 DEF Below, FromTop, n
<1>6. ASSUME NEW o
      PROVE  Occ(Stack, o) = Occ(Below(2), o) + One(o = FromTop(1)) + One(o = FromTop(2))
  <2> DEFINE a == Occ(Below(2), o)
             b == One(o = FromTop(2))
             c == One(o = FromTop(1))
  <2>1. Occ(Stack, o) = Occ(Below(1), o) + c /\ Occ(Below(1), o) = a + b
    BY <1>0, <1>4, <1>5
  <2>2. b \in Nat /\ c \in Nat
    BY OneType
  <2>3. a \in Nat
    BY <1>4, <1>5, OccType DEF Stacked
  <2> HIDE DEF a, b, c
  <2>4. Occ(Stack, o) = a + c + b
    BY <2>1, <2>2, <2>3
  <2> QED
    BY <2>4 DEF a, b, c
<1> QED
  BY <1>4, <1>5, <1>6

-----------------------------------------------------------------------------
(* Push, LoadName, Dup: a counted object is pushed. *)

LEMMA CountedPush ==
    ASSUME IInv, Running, NEW v \in Ids, heap[v].k \in Items,
           Backed(heap, <<>>, INC(v), Root, v), UNCHANGED heap, Do(Append(Stack, v), <<INC(v)>>)
    PROVE  IInv'
<1> DEFINE Q == More(Root, v)
           s == Append(Stack, v)
<1>1. Begun(heap, <<>>, Root)
  BY Runs, Idle
<1>2. Begun(heap, <<INC(v)>>, Q)
  <2>1. <<INC(v)>> = Plus(<<>>, INC(v))
    BY List1
  <2> QED
    BY <1>1, <2>1, AddInc
<1>3. Prepared(heap, <<INC(v)>>, Q)
  BY <1>2, HeapPrepared, AllOnIds
<1>4. Stacked(heap, s) /\ \A o : Occ(s, o) = Occ(Stack, o) + One(o = v)
  BY StackedSelf, StackedPlus
<1>5. ASSUME NEW o \in Ids PROVE Q[o] + Occ(Stack, o) = Root[o] + Occ(s, o)
  <2> DEFINE q == Q[o]
             r == Root[o]
             a == Occ(Stack, o)
             b == One(o = v)
  <2>1. q = r + b /\ Occ(s, o) = a + b
    BY <1>4, MoreAt
  <2>2. r \in Nat /\ a \in Nat /\ b \in Nat
    BY RunningRoots, OneType
  <2> HIDE DEF q, r, a, b, s
  <2> QED
    BY <2>1, <2>2 DEF q, r, a
<1>6. Swaps(s, Q)
  BY <1>5 DEF Swaps
<1> QED
  BY <1>3, <1>4, <1>6, DoPreserves

LEMMA RootBacked ==
    ASSUME IInv, Running, NEW o \in Ids, NEW s,
           o = lb \/ o = ret \/ o \in Statics \/ Occ(Stack, o) > 0
    PROVE  Root[o] > 0 /\ Backed(heap, <<>>, s, Root, o)
<1> DEFINE a == One(o = lb)
           b == One(o = ret)
           c == One(o \in Statics)
           d == One(o = Main)
           e == Occ(Stack, o)
           f == Besides(o)
<1>1. Root[o] = f + e + a + b + c + d /\ f \in Nat /\ e \in Nat
  BY RunningRoots
<1>2. a \in Nat /\ b \in Nat /\ c \in Nat /\ d \in Nat
  BY OneType
<1>3. a = 1 \/ b = 1 \/ c = 1 \/ e > 0
  BY DEF One
<1>4. Root[o] > 0
  <2> HIDE DEF a, b, c, d, e, f
  <2> QED
    BY <1>1, <1>2, <1>3
<1>5. Begun(heap, <<>>, Root)
  BY Runs, Idle
<1> QED
  BY <1>4, <1>5, BackRoot

LEMMA EmptySteady == \A b : Steady(<<>>, b)
  BY EmptyTodo DEF Steady

\* What the running block leads to.
LEMMA BlockBacked ==
    ASSUME IInv, Running, NEW x \in 1..3, NEW s, Elsewhere(s, lb)
    PROVE  /\ heap[lb].f[x] \in Ids /\ Backed(heap, <<>>, s, Root, heap[lb].f[x])
           /\ heap[heap[lb].f[x]].rc > 0
           /\ heap[heap[lb].f[x]].k = IF x = 3 THEN "list" ELSE "map"
<1>1. lb \in Ids /\ heap[lb].k = "block"
  BY Runs
<1>2. Root[lb] > 0 /\ Backed(heap, <<>>, s, Root, lb)
  BY <1>1, RootBacked
<1>3. Sound(heap, <<>>, Root) /\ Begun(heap, <<>>, Root)
  BY Runs, Idle
<1>4. heap[lb].rc > 0
  BY <1>1, <1>2, <1>3, IdleHeld
<1>5. /\ DOMAIN heap[lb].f = 1..3
      /\ IsA(heap, heap[lb].f[1], {"map"}) /\ IsA(heap, heap[lb].f[2], {"map"})
      /\ IsA(heap, heap[lb].f[3], {"list"})
      /\ \A y \in 1..3 : heap[heap[lb].f[y]].rc > 0
  BY <1>1, <1>3, <1>4, BlockFields
<1>6. heap[lb].f[x] \in Ids /\ heap[heap[lb].f[x]].k = IF x = 3 THEN "list" ELSE "map"
  BY <1>5 DEF IsA
<1>7. Backed(heap, <<>>, s, Root, heap[lb].f[x])
  <2>1. x \in DOMAIN heap[lb].f
    BY <1>5
  <2> QED
    BY <1>1, <1>2, <1>3, <1>6, <2>1, EmptySteady, BackField
<1> QED
  BY <1>5, <1>6, <1>7

LEMMA ItemBacked ==
    ASSUME IInv, Running, NEW x \in 1..3, NEW y \in DOMAIN heap[heap[lb].f[x]].f,
           heap[heap[lb].f[x]].f[y] # NULL, NEW s, s.op = "inc"
    PROVE  /\ heap[heap[lb].f[x]].f[y] \in Ids /\ heap[heap[heap[lb].f[x]].f[y]].k \in Items
           /\ Backed(heap, <<>>, s, Root, heap[heap[lb].f[x]].f[y])
<1> DEFINE b == heap[lb].f[x]
           v == heap[b].f[y]
<1>0. \A p : Elsewhere(s, p)
  BY DEF Elsewhere
<1>1. b \in Ids /\ Backed(heap, <<>>, s, Root, b) /\ heap[b].rc > 0 /\ heap[b].k \in {"list", "map"}
  BY <1>0, BlockBacked
<1>2. Sound(heap, <<>>, Root) /\ Begun(heap, <<>>, Root)
  BY Runs, Idle
<1> HIDE DEF b
<1>3. IsA(heap, v, Items)
  BY <1>1, <1>2, ItemFields DEF b
<1>4. v \in Ids /\ heap[v].k \in Items /\ y \in DOMAIN heap[b].f
  BY <1>3 DEF IsA, b
<1>5. Backed(heap, <<>>, s, Root, v)
  BY <1>0, <1>1, <1>2, <1>4, EmptySteady, BackField
<1> QED
  BY <1>4, <1>5, Zenon DEF b

LEMMA PushHolds == ASSUME IInv, Push PROVE IInv'
<1>1. Running
  BY DEF Push
<1>2. PICK x \in DOMAIN heap[Consts(lb)].f :
         Does(Append(Stack, Field(Consts(lb), x)), <<INC(Field(Consts(lb), x))>>)
  BY DEF Push
<1> DEFINE c == heap[lb].f[3]
           v == heap[c].f[x]
<1>3. c = Consts(lb) /\ v = Field(Consts(lb), x)
  BY DEF Consts, Field
<1>4. v # NULL
  <2>1. c \in Ids /\ heap[c].rc > 0 /\ heap[c].k = "list"
    <3>1. Elsewhere(INC(1), lb)
      BY DEF Elsewhere, INC
    <3>2. 3 \in 1..3
      OBVIOUS
    <3> QED
      BY <1>1, <3>1, <3>2, BlockBacked
  <2>2. Sound(heap, <<>>, Root)
    BY <1>1, Runs, Idle
  <2> HIDE DEF c
  <2>3. Shaped(heap, <<>>, c)
    BY <2>1, <2>2 DEF Sound, Formed
  <2>4. heap[c].f \in Seq(Ids)
    BY <2>1, <2>3 DEF Shaped, Framed
  <2> QED
    BY <1>3, <2>4, IdsFinite
<1>5. /\ v \in Ids /\ heap[v].k \in Items /\ Backed(heap, <<>>, INC(v), Root, v)
  <2>1. 3 \in 1..3 /\ INC(v).op = "inc" /\ x \in DOMAIN heap[c].f
    BY <1>3 DEF INC
  <2> QED
    BY <1>1, <1>4, <2>1, ItemBacked, Zenon
<1> QED
  BY <1>1, <1>2, <1>3, <1>5, CountedPush DEF Does

LEMMA SelfSwap ==
    ASSUME IInv, Running PROVE Swaps(Stack, Root) /\ OnIds(Root)
  BY AllOnIds DEF Swaps, Root

\* The locals and the globals of the running block.
LEMMA NamesIn ==
    ASSUME IInv, Running, NEW x \in 1..2, NEW n \in Names
    PROVE  /\ heap[lb].f[x] \in Ids /\ heap[heap[lb].f[x]].k = "map"
           /\ n \in DOMAIN heap[heap[lb].f[x]].f
<1> DEFINE m == heap[lb].f[x]
<1>1. m \in Ids /\ heap[m].rc > 0 /\ heap[m].k = "map"
  <2>1. Elsewhere(INC(1), lb) /\ x \in 1..3 /\ x # 3
    BY DEF Elsewhere, INC
  <2> QED
    BY <2>1, BlockBacked
<1>2. Begun(heap, <<>>, Root)
  BY Runs, Idle
<1> HIDE DEF m
<1>3. Drafted(heap, m)
  BY <1>1, <1>2 DEF Begun
<1>4. n \in DOMAIN heap[m].f
  BY <1>1, <1>3 DEF Drafted, Framed
<1> QED
  BY <1>1, <1>4 DEF m

LEMMA LoadNameHolds == ASSUME IInv, LoadName PROVE IInv'
<1>1. Running
  BY DEF LoadName
<1>2. PICK n \in Names :
         IF Value(n) = NULL THEN Quit(Stack, <<>>)
         ELSE Does(Append(Stack, Value(n)), <<INC(Value(n))>>)
  BY DEF LoadName
<1>3. CASE Value(n) = NULL
  <2>1. Begun(heap, <<>>, Root)
    BY <1>1, Runs, Idle
  <2>2. Prepared(heap, <<>>, Root)
    BY <1>1, <2>1, HeapPrepared, SelfSwap
  <2> QED
    BY <1>1, <1>2, <1>3, <2>2, SelfSwap, StackedSelf, QuitPreserves
<1>4. CASE Value(n) # NULL
  <2>1. PICK x \in 1..2 : Value(n) = heap[heap[lb].f[x]].f[n]
    BY DEF Value, Field, Locals, GlobalsOf
  <2> DEFINE v == heap[heap[lb].f[x]].f[n]
  <2>2. n \in DOMAIN heap[heap[lb].f[x]].f
    BY <1>1, NamesIn
  <2>3. x \in 1..3 /\ INC(v).op = "inc" /\ v # NULL
    BY <1>4, <2>1 DEF INC
  <2>4. v \in Ids /\ heap[v].k \in Items /\ Backed(heap, <<>>, INC(v), Root, v)
    BY <1>1, <2>2, <2>3, ItemBacked, ZenonT(40)
  <2>5. UNCHANGED heap /\ Do(Append(Stack, v), <<INC(v)>>)
    BY <1>2, <1>4, <2>1 DEF Does
  <2> QED
    BY <1>1, <2>4, <2>5, CountedPush, Zenon
<1> QED
  BY <1>3, <1>4

LEMMA TopHeld ==
    ASSUME IInv, Running, Len(Stack) > 0, NEW s
    PROVE  /\ FromTop(1) \in Ids /\ heap[FromTop(1)].k \in Items
           /\ Root[FromTop(1)] > 0 /\ Backed(heap, <<>>, s, Root, FromTop(1))
<1> DEFINE v == FromTop(1)
<1>1. /\ v \in Ids /\ heap[v].k \in Items /\ Stacked(heap, Below(1))
      /\ \A o : Occ(Stack, o) = Occ(Below(1), o) + One(o = v)
  BY TopOne
<1>2. Occ(Below(1), v) \in Nat
  BY <1>1, OccType DEF Stacked
<1>3. Occ(Stack, v) = Occ(Below(1), v) + One(v = v) /\ One(v = v) = 1
  BY <1>1 DEF One
<1> HIDE DEF v
<1>4. Occ(Stack, v) > 0
  BY <1>2, <1>3
<1>5. Root[v] > 0 /\ Backed(heap, <<>>, s, Root, v)
  BY <1>1, <1>4, RootBacked
<1> QED
  BY <1>1, <1>5 DEF v

LEMMA DupHolds == ASSUME IInv, Dup PROVE IInv'
<1> DEFINE v == FromTop(1)
<1>1. /\ Running /\ Len(Stack) > 0
      /\ UNCHANGED heap /\ Do(Append(Stack, v), <<INC(v)>>)
  BY DEF Dup, Does
<1>2. v \in Ids /\ heap[v].k \in Items /\ Backed(heap, <<>>, INC(v), Root, v)
  BY <1>1, TopHeld
<1> HIDE DEF v
<1> QED
  BY <1>1, <1>2, CountedPush

LEMMA StoreNameHolds == ASSUME IInv, StoreName PROVE IInv'
<1> DEFINE v == FromTop(1)
           m == heap[lb].f[1]
<1>1. Running /\ Len(Stack) > 0
  BY DEF StoreName
<1>2. PICK n \in Names : UNCHANGED heap /\ Do(Stack, <<PUT(m, n, v)>>)
  BY DEF StoreName, Does, Locals, Field
<1> DEFINE s == PUT(m, n, v)
<1>3. s.op = "put" /\ s.o = m
  BY DEF PUT
<1>4. m \in Ids /\ heap[m].k = "map" /\ Backed(heap, <<>>, s, Root, m)
  <2>1. m # lb
    BY <1>1, Runs, NamesIn
  <2>2. Elsewhere(s, lb) /\ 1 \in 1..3 /\ 1 # 3
    BY <1>3, <2>1 DEF Elsewhere
  <2> HIDE DEF s
  <2> QED
    BY <1>1, <2>2, BlockBacked
<1>5. v \in Ids /\ heap[v].k \in Items /\ Backed(heap, <<>>, s, Root, v)
  BY <1>1, TopHeld
<1>6. Begun(heap, <<>>, Root)
  BY <1>1, Runs, Idle
<1>7. Begun(heap, <<s>>, Root)
  <2>1. IsA(heap, m, {"map"}) /\ IsA(heap, v, Items)
    BY <1>4, <1>5 DEF IsA
  <2>2. Unrelied(heap, <<>>, s)
    BY EmptyTodo DEF Unrelied
  <2>3. <<s>> = Plus(<<>>, s)
    BY List1
  <2>4. Begun(heap, Plus(<<>>, s), Root)
    BY <1>4, <1>5, <1>6, <2>1, <2>2, AddPut
  <2> QED
    BY <2>3, <2>4
<1> HIDE DEF s, v, m
<1>8. Prepared(heap, <<s>>, Root)
  BY <1>1, <1>7, SelfSwap, HeapPrepared
<1> QED
  BY <1>1, <1>2, <1>8, SelfSwap, StackedSelf, DoPreserves DEF s

LEMMA Popped ==
    ASSUME IInv, Running, Len(Stack) > 0
    PROVE  /\ Prepared(heap, <<DEC(FromTop(1))>>, Less(Root, FromTop(1)))
           /\ Swaps(Below(1), Less(Root, FromTop(1))) /\ Stacked(heap, Below(1))
<1> DEFINE v == FromTop(1)
           Q == Less(Root, v)
<1>1. /\ v \in Ids /\ Stacked(heap, Below(1)) /\ Root[v] > 0
      /\ \A o : Occ(Stack, o) = Occ(Below(1), o) + One(o = v)
  BY TopOne, TopHeld
<1>2. Begun(heap, <<>>, Root)
  BY Runs, Idle
<1> HIDE DEF v
<1>3. Begun(heap, <<DEC(v)>>, Q)
  <2>1. <<DEC(v)>> = Plus(<<>>, DEC(v)) /\ v \in Maybe
    BY <1>1, List1 DEF Maybe
  <2> QED
    BY <1>1, <1>2, <2>1, AddDec
<1>4. ASSUME NEW o \in Ids PROVE Q[o] + Occ(Stack, o) = Root[o] + Occ(Below(1), o)
  <2> DEFINE q == Q[o]
             r == Root[o]
             a == Occ(Below(1), o)
             b == One(o = v)
  <2>1. q = r - b /\ Occ(Stack, o) = a + b
    BY <1>1, LessAt
  <2>2. r \in Nat /\ b \in Nat
    BY RunningRoots, OneType
  <2>4. a \in Nat
    BY <1>1, OccType DEF Stacked
  <2> HIDE DEF q, r, a, b
  <2>3. q + Occ(Stack, o) = r + a
    BY <2>1, <2>2, <2>4
  <2> QED
    BY <2>3 DEF q, r, a
<1>5. Prepared(heap, <<DEC(v)>>, Q)
  BY <1>3, AllOnIds, HeapPrepared
<1> QED
  BY <1>1, <1>4, <1>5 DEF Swaps, v

LEMMA PopTopHolds == ASSUME IInv, PopTop PROVE IInv'
<1>1. Running /\ Len(Stack) > 0 /\ UNCHANGED heap /\ Do(Below(1), <<DEC(FromTop(1))>>)
  BY DEF PopTop, Does
<1> QED
  BY <1>1, Popped, DoPreserves

LEMMA JumpHolds == ASSUME IInv, JumpOnNoBool PROVE IInv'
<1>1. Running /\ Len(Stack) > 0 /\ Quit(Below(1), <<DEC(FromTop(1))>>)
  BY DEF JumpOnNoBool
<1> QED
  BY <1>1, Popped, QuitPreserves

-----------------------------------------------------------------------------
(* Operators. *)

\* Both operands leave the stack.
LEMMA TwoHeld ==
    ASSUME IInv, Running, Len(Stack) > 1, NEW o \in Ids
    PROVE  /\ \A x \in Statics : Root[o] >= One(o = FromTop(1)) + One(o = FromTop(2)) + One(o = x)
           /\ Root[o] \in Nat /\ Occ(Below(2), o) \in Nat
           /\ Occ(Stack, o) = Occ(Below(2), o) + One(o = FromTop(1)) + One(o = FromTop(2))
<1>1. /\ Stacked(heap, Below(2))
      /\ Occ(Stack, o) = Occ(Below(2), o) + One(o = FromTop(1)) + One(o = FromTop(2))
  BY TopTwo
<1> DEFINE a == One(o = lb)
           b == One(o = ret)
           c == One(o \in Statics)
           d == One(o = Main)
           e == Occ(Below(2), o)
           f == Besides(o)
           p == One(o = FromTop(1))
           q == One(o = FromTop(2))
           u == Occ(Stack, o)
<1>2. Root[o] = f + u + a + b + c + d /\ f \in Nat /\ u = e + p + q
  BY <1>1, RunningRoots
<1>3. a \in Nat /\ b \in Nat /\ c \in Nat /\ d \in Nat /\ p \in Nat /\ q \in Nat
  BY OneType
<1>4. e \in Nat
  BY <1>1, OccType DEF Stacked
<1>5. ASSUME NEW x \in Statics
      PROVE  Root[o] >= p + q + One(o = x) /\ Root[o] \in Nat
  <2> DEFINE z == One(o = x)
  <2>1. z \in Nat /\ z <= c
    BY DEF One
  <2> HIDE DEF a, b, c, d, e, f, p, q, u, z
  <2>2. Root[o] >= p + q + z /\ Root[o] \in Nat
    BY <1>2, <1>3, <1>4, <2>1
  <2> QED
    BY <2>2 DEF z
<1> QED
  BY <1>1, <1>4, <1>5, StaticMain

LEMMA DropTwo ==
    ASSUME NEW H, NEW T, NEW R, Begun(H, T, R), NEW p \in Ids, NEW q \in Ids,
           \A o \in Ids : R[o] >= One(o = p) + One(o = q)
    PROVE  /\ Begun(H, Plus(Plus(T, DEC(p)), DEC(q)), Less(Less(R, p), q))
           /\ \A o \in Ids : Less(Less(R, p), q)[o] = R[o] - One(o = p) - One(o = q)
<1>0. \A o \in Ids : R[o] \in Nat
  BY DEF Begun
<1>1. One(p = p) = 1 /\ One(q = q) = 1 /\ One(p = q) \in Nat /\ One(q = p) \in Nat
  BY OneType DEF One
<1>2. R[p] > 0 /\ R[q] - One(q = p) > 0
  <2>1. R[p] >= 1 + One(p = q) /\ R[q] >= One(q = p) + 1
    BY <1>1
  <2> QED
    BY <1>0, <1>1, <2>1
<1>3. p \in Maybe /\ q \in Maybe
  BY DEF Maybe
<1>4. Begun(H, Plus(T, DEC(p)), Less(R, p))
  BY <1>2, <1>3, AddDec
<1>5. Less(R, p)[q] > 0
  BY <1>2, LessAt
<1>6. Begun(H, Plus(Plus(T, DEC(p)), DEC(q)), Less(Less(R, p), q))
  BY <1>3, <1>4, <1>5, AddDec
<1>7. \A o \in Ids : Less(Less(R, p), q)[o] = R[o] - One(o = p) - One(o = q)
  BY LessAt
<1> QED
  BY <1>6, <1>7

LEMMA ComparisonHolds == ASSUME IInv, Comparison PROVE IInv'
<1> DEFINE p == FromTop(2)
           q == FromTop(1)
           P == Less(Less(Root, p), q)
           Q == More(P, Static)
           T == <<DEC(p), DEC(q)>>
           U == <<DEC(p), DEC(q), INC(Static)>>
           s == Append(Below(2), Static)
<1>1. Running /\ Len(Stack) > 1 /\ UNCHANGED heap /\ Do(s, U)
  BY DEF Comparison, Does
<1>2. p \in Ids /\ q \in Ids /\ Stacked(heap, Below(2))
  BY <1>1, TopOne, TopTwo
<1>3. Begun(heap, <<>>, Root)
  BY <1>1, Runs, Idle
<1>4. \A o \in Ids : /\ Root[o] >= One(o = q) + One(o = p) + One(o = Static)
                     /\ Root[o] \in Nat /\ Occ(Below(2), o) \in Nat
                     /\ Occ(Stack, o) = Occ(Below(2), o) + One(o = q) + One(o = p)
  BY <1>1, TwoHeld, StaticMain
<1>5. \A b : One(b) \in Nat
  BY OneType
<1> HIDE DEF p, q
<1>6. /\ Begun(heap, T, P)
      /\ \A o \in Ids : P[o] = Root[o] - One(o = p) - One(o = q)
  <2>1. ASSUME NEW o \in Ids PROVE Root[o] >= One(o = p) + One(o = q)
    <3>1. /\ Root[o] >= One(o = q) + One(o = p) + One(o = Static)
          /\ Root[o] \in Nat /\ One(o = p) \in Nat /\ One(o = q) \in Nat /\ One(o = Static) \in Nat
      BY <1>4, <1>5
    <3> QED
      BY <3>1
  <2>2. T = Plus(Plus(<<>>, DEC(p)), DEC(q))
    BY List1, List2
  <2> QED
    BY <1>2, <1>3, <2>1, <2>2, DropTwo
<1>7. Static \in Ids /\ P[Static] > 0
  <2>1. Static \in Ids
    BY StaticMain
  <2>2. One(Static = Static) = 1
    BY DEF One
  <2>3. /\ Root[Static] >= One(Static = q) + One(Static = p) + One(Static = Static)
        /\ Root[Static] \in Nat
        /\ P[Static] = Root[Static] - One(Static = p) - One(Static = q)
    BY <1>4, <1>6, <2>1
  <2>4. One(Static = q) \in Nat /\ One(Static = p) \in Nat
    BY <1>5
  <2> HIDE DEF P
  <2> QED
    BY <2>1, <2>2, <2>3, <2>4
<1>8. Begun(heap, U, Q)
  <2>1. U = Plus(T, INC(Static))
    BY List3
  <2>2. Backed(heap, T, INC(Static), P, Static)
    BY <1>6, <1>7, BackRoot
  <2> QED
    BY <1>6, <1>7, <2>1, <2>2, AddInc
<1>9. Stacked(heap, s) /\ \A o : Occ(s, o) = Occ(Below(2), o) + One(o = Static)
  <2>1. heap[Static].k \in Items
    BY <1>1, Runs, Idle, StaticMain DEF Anchored, Items
  <2> QED
    BY <1>2, <1>7, <2>1, StackedPlus
<1>10. ASSUME NEW o \in Ids PROVE Q[o] + Occ(Stack, o) = Root[o] + Occ(s, o)
  <2> DEFINE a == One(o = p)
             b == One(o = q)
             c == One(o = Static)
             r == Root[o]
             e == Occ(Below(2), o)
  <2>1. Q[o] = r - a - b + c
    BY <1>6, MoreAt
  <2>2. Occ(Stack, o) = e + b + a /\ Occ(s, o) = e + c
    BY <1>4, <1>9
  <2>3. a \in Nat /\ b \in Nat /\ c \in Nat /\ r \in Nat /\ e \in Nat
    BY <1>4, <1>5
  <2> HIDE DEF Q, a, b, c, r, e, s
  <2>4. Q[o] + Occ(Stack, o) = r + Occ(s, o)
    BY <2>1, <2>2, <2>3
  <2> QED
    BY <2>4 DEF r
<1>11. Prepared(heap, U, Q) /\ Swaps(s, Q)
  <2>1. OnIds(Q)
    BY AllOnIds
  <2> HIDE DEF Q, U
  <2> QED
    BY <1>1, <1>8, <1>10, <2>1, HeapPrepared DEF Swaps
<1> HIDE DEF Q, U, s
<1> QED
  BY <1>1, <1>9, <1>11, DoPreserves

\* A heap with new objects.
Grown(H, R) == Records(H) /\ Begun(H, <<>>, R) /\ Alike(heap, H)

LEMMA GrownFirst ==
    ASSUME IInv, todo = <<>> PROVE Grown(heap, Root) /\ \A T : Filled(heap, T)
  BY Idle, FullFilled, SelfAlike DEF Grown

LEMMA GrownBlank ==
    ASSUME NEW H, NEW R, Grown(H, R), NEW n \in Ids, H[n].k = "free", NEW v \in Blanks
    PROVE  /\ Grown(Birth(H, n, v), More(R, n)) /\ DOMAIN H = Ids
           /\ Birth(H, n, v)[n] = v /\ \A o : o # n => Birth(H, n, v)[o] = H[o]
<1>1. Records(H) /\ Begun(H, <<>>, R) /\ Alike(heap, H)
  BY DEF Grown
<1>2. Boxed(v)
  BY BlankFacts
<1>3. /\ Records(Birth(H, n, v)) /\ DOMAIN H = Ids
      /\ Birth(H, n, v)[n] = v /\ \A o : o # n => Birth(H, n, v)[o] = H[o]
  BY <1>1, <1>2, BirthRecords
<1>4. Begun(Birth(H, n, v), <<>>, More(R, n))
  BY <1>1, <1>3, BlankBegun
<1>5. heap[n].k = "free"
  BY <1>1 DEF Alike
<1>6. Alike(heap, Birth(H, n, v))
  BY <1>1, <1>3, <1>5, BirthAlike
<1> QED
  BY <1>3, <1>4, <1>6 DEF Grown

LEMMA FirstFresh ==
    ASSUME NEW k \in Nat \ {0}, Room(k)
    PROVE  Fresh({}) \in Ids /\ heap[Fresh({})].k = "free"
<1>1. Unused # {}
  BY RoomFor
<1>2. Unused \ {} # {} /\ {} \in SUBSET Ids
  BY <1>1
<1> QED
  BY <1>2, FreshIn

LEMMA NewValueHolds ==
    ASSUME IInv, Running, Len(Stack) > 1, NEW n \in Ids, heap[n].k = "free",
           NEW p, NEW q, {p, q} = {FromTop(1), FromTop(2)},
           p = FromTop(1) <=> q = FromTop(2),
           heap' = Birth(heap, n, New("value", <<>>)),
           Do(Append(Below(2), n), <<DEC(p), DEC(q)>>)
    PROVE  IInv'
<1> DEFINE v == New("value", <<>>)
           H == Birth(heap, n, v)
           R == More(Root, n)
           Q == Less(Less(R, p), q)
           T == <<DEC(p), DEC(q)>>
           s == Append(Below(2), n)
<1>1. Grown(heap, Root) /\ Filled(heap, T) /\ todo = <<>>
  BY Runs, GrownFirst
<1>2. v \in Blanks /\ v.k = "value"
  BY DEF Blanks, New
<1>3. Grown(H, R) /\ DOMAIN heap = Ids /\ H[n] = v
  BY <1>1, <1>2, GrownBlank
<1>4. p \in Ids /\ q \in Ids /\ Stacked(heap, Below(2))
  BY TopOne, TopTwo
<1>5. ASSUME NEW o \in Ids
      PROVE  /\ Root[o] >= One(o = p) + One(o = q)
             /\ Root[o] \in Nat /\ Occ(Below(2), o) \in Nat
             /\ Occ(Stack, o) = Occ(Below(2), o) + One(o = p) + One(o = q)
  <2> DEFINE a == One(o = FromTop(1))
             b == One(o = FromTop(2))
             c == One(o = p)
             d == One(o = q)
             z == One(o = Static)
             r == Root[o]
             e == Occ(Below(2), o)
             u == Occ(Stack, o)
  <2>1. (a = c /\ b = d) \/ (a = d /\ b = c)
    <3>1. (p = FromTop(1) /\ q = FromTop(2)) \/ (p = FromTop(2) /\ q = FromTop(1))
      OBVIOUS
    <3> QED
      BY <3>1
  <2>2. r >= a + b + z /\ r \in Nat /\ e \in Nat /\ u = e + a + b
    BY TwoHeld, StaticMain
  <2>3. a \in Nat /\ b \in Nat /\ z \in Nat
    BY OneType
  <2> HIDE DEF a, b, c, d, z, r, e, u
  <2>4. r >= c + d /\ r \in Nat /\ e \in Nat /\ u = e + c + d
    BY <2>1, <2>2, <2>3
  <2> QED
    BY <2>4 DEF c, d, r, e, u
<1>6. \A b : One(b) \in Nat
  BY OneType
<1>7. /\ Begun(H, T, Q)
      /\ \A o \in Ids : Q[o] = R[o] - One(o = p) - One(o = q)
  <2>1. ASSUME NEW o \in Ids PROVE R[o] >= One(o = p) + One(o = q)
    <3> DEFINE a == One(o = p)
               b == One(o = q)
               c == One(o = n)
               r == Root[o]
    <3>1. R[o] = r + c
      BY MoreAt
    <3>2. r >= a + b /\ r \in Nat /\ a \in Nat /\ b \in Nat /\ c \in Nat
      BY <1>5, <1>6
    <3> HIDE DEF a, b, c, r, R
    <3>3. R[o] >= a + b
      BY <3>1, <3>2
    <3> QED
      BY <3>3 DEF a, b
  <2>2. T = Plus(Plus(<<>>, DEC(p)), DEC(q))
    BY List1, List2
  <2>3. Begun(H, <<>>, R)
    BY <1>3 DEF Grown
  <2> HIDE DEF H, R, T
  <2>4. /\ Begun(H, Plus(Plus(<<>>, DEC(p)), DEC(q)), Q)
        /\ \A o \in Ids : Q[o] = R[o] - One(o = p) - One(o = q)
    BY <1>4, <2>1, <2>3, DropTwo
  <2> QED
    BY <2>2, <2>4
<1>8. Alike(heap, H) /\ Records(H)
  BY <1>3 DEF Grown
<1>9. Stacked(H, s) /\ \A o : Occ(s, o) = Occ(Below(2), o) + One(o = n)
  <2>1. Stacked(H, Below(2))
    BY <1>4, <1>8, StackedAlike
  <2>2. H[n].k \in Items
    BY <1>2, <1>3 DEF Items
  <2> HIDE DEF H
  <2> QED
    BY <2>1, <2>2, StackedPlus
<1>10. ASSUME NEW o \in Ids PROVE Q[o] + Occ(Stack, o) = Root[o] + Occ(s, o)
  <2> DEFINE a == One(o = p)
             b == One(o = q)
             c == One(o = n)
             r == Root[o]
             e == Occ(Below(2), o)
  <2>1. Q[o] = R[o] - a - b
    BY <1>7
  <2>2. Occ(Stack, o) = e + a + b /\ Occ(s, o) = e + c
    BY <1>5, <1>9
  <2>3. a \in Nat /\ b \in Nat /\ c \in Nat /\ r \in Nat /\ e \in Nat
    BY <1>5, <1>6
  <2>5. R[o] = r + c
    BY MoreAt
  <2> HIDE DEF Q, R, a, b, c, r, e, s
  <2>4. Q[o] + Occ(Stack, o) = r + Occ(s, o)
    BY <2>1, <2>2, <2>3, <2>5
  <2> QED
    BY <2>4 DEF r
<1>11. Filled(H, T)
  <2>1. v.k \notin {"block", "function"}
    BY <1>2
  <2> HIDE DEF T, v
  <2> QED
    BY <1>1, <1>3, <2>1, BlankFilled
<1>12. Prepared(H, T, Q) /\ Swaps(s, Q)
  <2>1. OnIds(Q)
    BY AllOnIds
  <2> HIDE DEF Q, T, H, s
  <2> QED
    BY <1>7, <1>8, <1>10, <1>11, <2>1 DEF Prepared, Swaps
<1> HIDE DEF Q, s, R
<1>13. heap' = H /\ Do(s, T)
  BY DEF s
<1> HIDE DEF T, H
<1> QED
  BY <1>9, <1>12, <1>13, DoPreserves

LEMMA ListSix ==
    ASSUME NEW a, NEW b, NEW c, NEW d, NEW e, NEW f
    PROVE  Plus(Plus(Plus(Plus(Plus(Plus(<<>>, a), b), c), d), e), f) = <<a, b, c, d, e, f>>
<1>1. Plus(Plus(Plus(<<>>, a), b), c) = <<a, b, c>>
  BY List1, List2, List3
<1>2. Plus(<<a, b, c>>, d) = <<a, b, c, d>>
  BY List4
<1>3. Plus(<<a, b, c, d>>, e) = <<a, b, c, d, e>>
  BY List5
<1>4. Plus(<<a, b, c, d, e>>, f) = <<a, b, c, d, e, f>>
  BY List6
<1> QED
  BY <1>1, <1>2, <1>3, <1>4

\* An operator without a result.
LEMMA NoResultHolds ==
    ASSUME IInv, Running, Len(Stack) > 1,
           NEW p, NEW q, {p, q} = {FromTop(1), FromTop(2)},
           p = FromTop(1) <=> q = FromTop(2),
           Quit(Below(2), <<INC(Nil), DEC(p), DEC(q), DEC(Nil), NAME(p), NAME(q)>>)
    PROVE  IInv'
<1> DEFINE R == More(Root, Nil)
           P == Less(Less(R, p), q)
           Q == Less(P, Nil)
           T3 == Plus(Plus(Plus(<<>>, INC(Nil)), DEC(p)), DEC(q))
           T4 == Plus(T3, DEC(Nil))
           T5 == Plus(T4, NAME(p))
           T == Plus(T5, NAME(q))
           s == Below(2)
<1>1. Begun(heap, <<>>, Root)
  BY Runs, Idle
<1>4. p \in Ids /\ q \in Ids /\ Stacked(heap, Below(2)) /\ Nil \in Ids
  BY TopOne, TopTwo, StaticMain
<1>5. ASSUME NEW o \in Ids
      PROVE  /\ Root[o] >= One(o = p) + One(o = q) + One(o = Nil)
             /\ Root[o] \in Nat /\ Occ(Below(2), o) \in Nat
             /\ Occ(Stack, o) = Occ(Below(2), o) + One(o = p) + One(o = q)
  <2> DEFINE a == One(o = FromTop(1))
             b == One(o = FromTop(2))
             c == One(o = p)
             d == One(o = q)
             z == One(o = Nil)
             r == Root[o]
             e == Occ(Below(2), o)
             u == Occ(Stack, o)
  <2>1. (a = c /\ b = d) \/ (a = d /\ b = c)
    <3>1. (p = FromTop(1) /\ q = FromTop(2)) \/ (p = FromTop(2) /\ q = FromTop(1))
      OBVIOUS
    <3> QED
      BY <3>1
  <2>2. r >= a + b + z /\ r \in Nat /\ e \in Nat /\ u = e + a + b
    BY TwoHeld, StaticMain
  <2>3. a \in Nat /\ b \in Nat /\ z \in Nat
    BY OneType
  <2> HIDE DEF a, b, c, d, z, r, e, u
  <2>4. r >= c + d + z /\ r \in Nat /\ e \in Nat /\ u = e + c + d
    BY <2>1, <2>2, <2>3
  <2> QED
    BY <2>4 DEF c, d, r, e, u, z
<1>6. \A b : One(b) \in Nat
  BY OneType
<1>7. Begun(heap, Plus(<<>>, INC(Nil)), R)
  <2>1. Backed(heap, <<>>, INC(Nil), Root, Nil)
    BY <1>4, RootBacked, StaticMain
  <2> QED
    BY <1>1, <1>4, <2>1, AddInc
<1>8. ASSUME NEW o \in Ids
      PROVE  /\ R[o] >= One(o = p) + One(o = q) /\ R[o] = Root[o] + One(o = Nil)
             /\ R[o] - One(o = p) - One(o = q) >= 2 * One(o = Nil)
  <2> DEFINE a == One(o = p)
             b == One(o = q)
             c == One(o = Nil)
             r == Root[o]
             t == R[o]
  <2>1. t = r + c
    BY MoreAt
  <2>2. r >= a + b + c /\ r \in Nat /\ a \in Nat /\ b \in Nat /\ c \in Nat
    BY <1>5, <1>6
  <2> HIDE DEF a, b, c, r, t
  <2>3. t >= a + b /\ t = r + c /\ t - a - b >= 2 * c
    BY <2>1, <2>2
  <2> QED
    BY <2>3 DEF a, b, c, r, t
<1> HIDE DEF R
<1>9. Begun(heap, T3, P) /\ \A o \in Ids : P[o] = R[o] - One(o = p) - One(o = q)
  BY <1>4, <1>7, <1>8, DropTwo
<1>10. P[Nil] > 0
  <2>1. P[Nil] >= 2 * One(Nil = Nil)
    BY <1>4, <1>8, <1>9
  <2>2. One(Nil = Nil) = 1
    BY DEF One
  <2>3. P[Nil] \in Nat
    BY <1>4, <1>9 DEF Begun
  <2> HIDE DEF P
  <2> QED
    BY <2>1, <2>2, <2>3
<1> HIDE DEF P, T3
<1>11. Begun(heap, T, Q)
  <2>1. Nil \in Maybe
    BY <1>4 DEF Maybe
  <2>2. Begun(heap, T4, Q)
    BY <1>9, <1>10, <2>1, AddDec
  <2> HIDE DEF T4, Q
  <2>3. Begun(heap, T5, Q)
    BY <1>4, <2>2, AddName
  <2> QED
    BY <1>4, <2>3, AddName
<1>12. T = <<INC(Nil), DEC(p), DEC(q), DEC(Nil), NAME(p), NAME(q)>>
  BY ListSix DEF T3
<1>13. ASSUME NEW o \in Ids PROVE Q[o] + Occ(Stack, o) = Root[o] + Occ(s, o)
  <2> DEFINE a == One(o = p)
             b == One(o = q)
             c == One(o = Nil)
             r == Root[o]
             e == Occ(Below(2), o)
             t == R[o]
             u == P[o]
  <2>1. Q[o] = u - c /\ u = t - a - b /\ t = r + c
    BY <1>8, <1>9, LessAt
  <2>2. Occ(Stack, o) = e + a + b
    BY <1>5
  <2>3. a \in Nat /\ b \in Nat /\ c \in Nat /\ r \in Nat /\ e \in Nat
    BY <1>5, <1>6
  <2> HIDE DEF Q, a, b, c, r, e, t, u
  <2>4. Q[o] + Occ(Stack, o) = r + e
    BY <2>1, <2>2, <2>3
  <2> QED
    BY <2>4 DEF r, e
<1>14. OnIds(Q)
  BY AllOnIds
<1> HIDE DEF T, Q
<1>15. Prepared(heap, T, Q) /\ Swaps(s, Q)
  BY <1>11, <1>13, <1>14, HeapPrepared DEF Swaps
<1>16. Quit(s, T)
  BY <1>12
<1> QED
  BY <1>4, <1>15, <1>16, QuitPreserves

LEMMA ArithmeticHolds == ASSUME IInv, Arithmetic PROVE IInv'
<1>1. Running /\ Len(Stack) > 1
  BY DEF Arithmetic
<1>2. PICK d \in {<<1, 2>>, <<2, 1>>} :
        LET op1 == FromTop(d[1])
            op2 == FromTop(d[2])
            drop == <<DEC(op1), DEC(op2)>>
        IN  IF heap[op1].k = "value" /\ heap[op2].k = "value"
            THEN /\ Room(1)
                 /\ heap' = [heap EXCEPT ![Fresh({})] = New("value", <<>>)]
                 /\ Do(Append(Below(2), Fresh({})), drop)
            ELSE Quit(Below(2), <<INC(Nil), DEC(op1), DEC(op2), DEC(Nil),
                                  NAME(op1), NAME(op2)>>)
  BY Zenon DEF Arithmetic
<1> DEFINE p == FromTop(d[1])
           q == FromTop(d[2])
<1>3. {p, q} = {FromTop(1), FromTop(2)} /\ (p = FromTop(1) <=> q = FromTop(2))
  <2>1. (p = FromTop(1) /\ q = FromTop(2)) \/ (p = FromTop(2) /\ q = FromTop(1))
    OBVIOUS
  <2> QED
    BY <2>1
<1>4. \/ /\ Room(1) /\ heap' = [heap EXCEPT ![Fresh({})] = New("value", <<>>)]
         /\ Do(Append(Below(2), Fresh({})), <<DEC(p), DEC(q)>>)
      \/ Quit(Below(2), <<INC(Nil), DEC(p), DEC(q), DEC(Nil), NAME(p), NAME(q)>>)
  BY <1>2
<1> HIDE DEF p, q
<1>5. CASE /\ Room(1) /\ heap' = [heap EXCEPT ![Fresh({})] = New("value", <<>>)]
           /\ Do(Append(Below(2), Fresh({})), <<DEC(p), DEC(q)>>)
  <2>1. Fresh({}) \in Ids /\ heap[Fresh({})].k = "free"
    <3>1. 1 \in Nat \ {0}
      OBVIOUS
    <3> QED
      BY <1>5, <3>1, FirstFresh
  <2>2. heap' = Birth(heap, Fresh({}), New("value", <<>>))
    BY <1>5 DEF Birth
  <2> QED
    BY <1>1, <1>3, <1>5, <2>1, <2>2, NewValueHolds
<1>6. CASE Quit(Below(2), <<INC(Nil), DEC(p), DEC(q), DEC(Nil), NAME(p), NAME(q)>>)
  BY <1>1, <1>3, <1>6, NoResultHolds
<1> QED
  BY <1>4, <1>5, <1>6

-----------------------------------------------------------------------------
(* The beginning and the end of a block. *)

LEMMA Closes ==
    ASSUME NEW H, NEW T, NEW Q, Prepared(H, T, Q),
           NEW fs, NEW r, NEW ph, NEW ds, NEW l, Phased(fs, r, ph, ds, l),
           Anchored(H, fs, r, ph, ds),
           \A o \in Ids : RootsOf(fs, r, ph, ds, l)[o] = Q[o]
    PROVE  Holding(H, T, fs, r, ph, ds, l)
<1> DEFINE R == RootsOf(fs, r, ph, ds, l)
<1>1. R = Q
  BY AllOnIds DEF Prepared
<1> HIDE DEF R
<1>2. Sound(H, T, R)
  BY <1>1, BegunSound DEF Prepared
<1> QED
  BY <1>2 DEF Holding, Prepared, R

LEMMA ResultHeld ==
    ASSUME IInv, Running, Len(Stack) = 1, NEW o \in Ids
    PROVE  /\ Root[o] = Besides(o) + One(o = Stack[1]) + One(o = lb) + One(o = ret)
                          + One(o \in Statics) + One(o = Main)
           /\ Besides(o) \in Nat /\ Root[o] \in Nat
<1>1. Occ(Stack, o) = One(o = Stack[1])
  <2>1. Stack = <<Stack[1]>>
    BY Runs
  <2>2. Occ(<<Stack[1]>>, o) = One(Stack[1] = o)
    BY OccShort
  <2>3. One(Stack[1] = o) = One(o = Stack[1])
    BY DEF One
  <2> QED
    BY <2>1, <2>2, <2>3, Zenon
<1> QED
  BY <1>1, RunningRoots

\* ret and the block are dropped, and eval holds the result until then.
LEMMA BlockDropped ==
    ASSUME IInv, Running, Len(Stack) = 1
    PROVE  /\ Begun(heap, <<DEC(ret), DEC(lb)>>, Less(Less(Root, ret), lb))
           /\ \A o \in Ids : Less(Less(Root, ret), lb)[o]
                = Besides(o) + One(o = Stack[1]) + One(o \in Statics) + One(o = Main)
           /\ Stack[1] \in Ids /\ heap[Stack[1]].k \in Items
           /\ Less(Less(Root, ret), lb)[Stack[1]] > 0
<1> DEFINE P == Less(Root, ret)
           Q == Less(P, lb)
           v == Stack[1]
<1>1. Begun(heap, <<>>, Root)
  BY Runs, Idle
<1>2. ret \in Maybe /\ lb \in Ids /\ lb \in Maybe /\ v \in Ids /\ heap[v].k \in Items
  <2>1. 1 \in 1..Len(Stack)
    OBVIOUS
  <2> QED
    BY <2>1, Runs DEF Maybe
<1>3. ASSUME NEW o \in Ids
      PROVE  /\ P[o] = Besides(o) + One(o = v) + One(o = lb) + One(o \in Statics) + One(o = Main)
             /\ Q[o] = Besides(o) + One(o = v) + One(o \in Statics) + One(o = Main)
             /\ o = ret => Root[o] > 0
             /\ o = lb => P[o] > 0
             /\ o = v => Q[o] > 0
  <2> DEFINE a == One(o = lb)
             b == One(o = ret)
             c == One(o \in Statics)
             d == One(o = Main)
             e == One(o = v)
             f == Besides(o)
             r == Root[o]
             p == P[o]
             q == Q[o]
  <2>1. r = f + e + a + b + c + d /\ f \in Nat
    BY ResultHeld
  <2>2. p = r - b /\ q = p - a
    BY LessAt
  <2>3. a \in Nat /\ b \in Nat /\ c \in Nat /\ d \in Nat /\ e \in Nat
    BY OneType
  <2>4. (o = ret => b = 1) /\ (o = lb => a = 1) /\ (o = v => e = 1)
    BY DEF One
  <2> HIDE DEF a, b, c, d, e, f, r, p, q
  <2>5. /\ p = f + e + a + c + d /\ q = f + e + c + d
        /\ (b = 1 => r > 0) /\ (a = 1 => p > 0) /\ (e = 1 => q > 0)
    BY <2>1, <2>2, <2>3
  <2> QED
    BY <2>4, <2>5 DEF a, b, c, d, e, f, r, p, q
<1> HIDE DEF P
<1>4. Begun(heap, Plus(<<>>, DEC(ret)), P)
  BY <1>1, <1>2, <1>3, AddDec DEF P
<1>5. Begun(heap, Plus(Plus(<<>>, DEC(ret)), DEC(lb)), Q)
  BY <1>2, <1>3, <1>4, AddDec
<1>6. <<DEC(ret), DEC(lb)>> = Plus(Plus(<<>>, DEC(ret)), DEC(lb))
  BY List1, List2
<1> QED
  BY <1>2, <1>3, <1>5, <1>6 DEF P

LEMMA CallerHolds ==
    ASSUME IInv, Running, Len(Stack) = 1, Len(frames) > 1,
           NEW fs, fs = Front(frames),
           NEW gs, gs = WithTop(fs, Append(fs[Len(fs)].stk, Stack[1]))
    PROVE  Holding(heap, <<DEC(ret), DEC(lb), INC(Stack[1])>>, gs, Stack[1], phase, defs, lost)
<1> DEFINE v == Stack[1]
           P == Less(Less(Root, ret), lb)
           Q == More(P, v)
           T2 == <<DEC(ret), DEC(lb)>>
           T == <<DEC(ret), DEC(lb), INC(v)>>
           s == Append(fs[Len(fs)].stk, v)
<1>1. /\ Begun(heap, T2, P)
      /\ \A o \in Ids : P[o] = Besides(o) + One(o = v) + One(o \in Statics) + One(o = Main)
      /\ v \in Ids /\ heap[v].k \in Items /\ P[v] > 0
  BY BlockDropped
<1>2. /\ phase = "eval" /\ defs = <<>> /\ frames \in Seq(FrameType) /\ frames # <<>>
      /\ \A o \in Ids : lost[o] = 0
  BY Runs
<1>3. Phased(frames, ret, phase, defs, lost) /\ Anchored(heap, frames, ret, phase, defs)
  BY DEF IInv, Holding
<1>4. /\ fs \in Seq(FrameType) /\ Len(fs) = Len(frames) - 1
      /\ \A x \in 1..Len(fs) : fs[x] = frames[x] /\ x \in 1..Len(frames)
  BY <1>2, FramePopped
<1>5. fs # <<>> /\ Len(fs) \in 1..Len(fs) /\ DOMAIN fs = 1..Len(fs) /\ DOMAIN frames = 1..Len(frames)
  BY <1>2, <1>4
<1>6. ASSUME NEW x \in 1..Len(fs) PROVE FrameHolds(heap, fs[x]) /\ fs[x] \in FrameType
  BY <1>3, <1>4, <1>5, <1>6 DEF Anchored
<1>7. Stacked(heap, fs[Len(fs)].stk)
  <2>1. fs[Len(fs)].stk \in Seq(Ids)
    BY <1>5, <1>6 DEF FrameType
  <2>2. DOMAIN fs[Len(fs)].stk = 1..Len(fs[Len(fs)].stk)
    BY <2>1
  <2> QED
    BY <1>5, <1>6, <2>1, <2>2 DEF FrameHolds, Stacked
<1> HIDE DEF P, T, T2, v
<1>8. Stacked(heap, s) /\ \A o : Occ(s, o) = Occ(fs[Len(fs)].stk, o) + One(o = v)
  BY <1>1, <1>7, StackedPlus
<1> HIDE DEF s
<1>9. s \in Seq(Ids) /\ DOMAIN s = 1..Len(s) /\ gs = WithTop(fs, s)
  BY <1>8 DEF Stacked, s, v
<1>10. /\ gs \in Seq(FrameType) /\ Len(gs) = Len(fs) /\ gs # <<>>
       /\ \A x \in 1..Len(fs) : gs[x].lb = fs[x].lb /\ (x # Len(fs) => gs[x] = fs[x])
       /\ gs[Len(fs)].stk = s
  <2>1. s \in Seq(Ids)
    BY <1>9
  <2>2. /\ WithTop(fs, s) \in Seq(FrameType) /\ WithTop(fs, s) # <<>>
        /\ Len(WithTop(fs, s)) = Len(fs) /\ WithTop(fs, s)[Len(fs)].stk = s
        /\ \A x \in 1..Len(fs) :
              /\ WithTop(fs, s)[x].lb = fs[x].lb
              /\ x # Len(fs) => WithTop(fs, s)[x] = fs[x]
    BY <1>4, <1>5, <2>1, StackChanged
  <2> QED
    BY <1>9, <2>2, Zenon
<1>11. Phased(gs, v, phase, defs, lost)
  BY <1>1, <1>2, <1>3, <1>10 DEF Phased, Maybe
<1>12. Anchored(heap, gs, v, phase, defs)
  <2>1. ASSUME NEW x \in DOMAIN gs PROVE FrameHolds(heap, gs[x])
    <3>1. DOMAIN gs = 1..Len(fs)
      BY <1>10
    <3>2. CASE x = Len(fs)
      <4>1. gs[x].stk = s /\ gs[x].lb = fs[x].lb /\ FrameHolds(heap, fs[x])
        BY <1>5, <1>6, <1>10, <3>2, Zenon
      <4>2. \A i \in DOMAIN s : heap[s[i]].k \in Items
        BY <1>8, <1>9 DEF Stacked
      <4> QED
        BY <4>1, <4>2 DEF FrameHolds
    <3>3. CASE x # Len(fs)
      BY <1>6, <1>10, <3>1, <3>3
    <3> QED
      BY <3>2, <3>3
  <2> QED
    BY <1>1, <1>3, <2>1 DEF Anchored
<1>13. ASSUME NEW o \in Ids PROVE RootsOf(gs, v, phase, defs, lost)[o] = Q[o]
  <2> DEFINE R == RootsOf(gs, v, phase, defs, lost)
             a == OnStacks(fs, o)
             b == OnChain(fs, o)
             w == One(o = v)
             y == One(o \in Statics)
             m == One(o = Main)
             n == One(o = Main /\ phase # "done")
             d == Occ(defs, o)
             g == OnStacks(gs, o)
             c == Occ(fs[Len(fs)].stk, o)
  <2>1. /\ R[o] = g + OnChain(gs, o) + w + y + n + 2 * d + lost[o]
    BY <1>11, Rooted
  <2>2. g + c = a + Occ(s, o) /\ OnChain(gs, o) = b /\ Occ(s, o) = c + w
    BY <1>4, <1>5, <1>8, <1>9, StackCounts
  <2>3. n = m /\ d = 0 /\ lost[o] = 0
    BY <1>2, OccShort
  <2>4. P[o] = Besides(o) + w + y + m /\ Q[o] = P[o] + w
    BY <1>1, MoreAt
  <2>5. Besides(o) = a + b
    BY DEF Besides
  <2>6. a \in Nat /\ b \in Nat /\ g \in Nat
    BY <1>4, <1>10, FramesCounted
  <2>7. w \in Nat /\ y \in Nat /\ m \in Nat
    BY OneType
  <2>8. c \in Nat
    BY <1>7, OccType DEF Stacked
  <2> HIDE DEF R, a, b, w, y, m, n, d, g, c, Q
  <2>9. g = a + w
    BY <2>2, <2>6, <2>7, <2>8
  <2>10. R[o] = Q[o]
    BY <2>1, <2>2, <2>3, <2>4, <2>5, <2>6, <2>7, <2>9
  <2> QED
    BY <2>10 DEF R
<1>14. Begun(heap, T, Q)
  <2>1. T = Plus(T2, INC(v))
    BY List3 DEF T, T2
  <2>2. Backed(heap, T2, INC(v), P, v)
    BY <1>1, BackRoot
  <2> QED
    BY <1>1, <2>1, <2>2, AddInc
<1>15. Prepared(heap, T, Q)
  BY <1>14, AllOnIds, HeapPrepared
<1> HIDE DEF Q
<1>16. Holding(heap, T, gs, v, phase, defs, lost)
  BY <1>11, <1>12, <1>13, <1>15, Closes
<1> QED
  BY <1>16 DEF T, v

LEMMA LastBlockHolds ==
    ASSUME IInv, Running, Len(Stack) = 1, Len(frames) = 1
    PROVE  Holding(heap, <<DEC(ret), DEC(lb), DEC(Stack[1])>>, <<>>, NULL, "evaled", defs, lost)
<1> DEFINE v == Stack[1]
           P == Less(Less(Root, ret), lb)
           Q == Less(P, v)
           T2 == <<DEC(ret), DEC(lb)>>
           T == <<DEC(ret), DEC(lb), DEC(v)>>
<1>1. /\ Begun(heap, T2, P)
      /\ \A o \in Ids : P[o] = Besides(o) + One(o = v) + One(o \in Statics) + One(o = Main)
      /\ v \in Ids /\ heap[v].k \in Items /\ P[v] > 0
  BY BlockDropped
<1>2. /\ phase = "eval" /\ defs = <<>> /\ frames \in Seq(FrameType) /\ frames # <<>>
      /\ \A o \in Ids : lost[o] = 0
  BY Runs
<1>3. Phased(frames, ret, phase, defs, lost) /\ Anchored(heap, frames, ret, phase, defs)
  BY DEF IInv, Holding
<1>4. Front(frames) \in Seq(FrameType) /\ Len(Front(frames)) = 0
  BY <1>2, FramePopped
<1>5. Front(frames) = <<>>
  BY <1>4
<1> HIDE DEF P, T, T2, v
<1>6. Phased(<<>>, NULL, "evaled", defs, lost)
  <2>1. <<>> \in Seq(FrameType)
    OBVIOUS
  <2> QED
    BY <1>2, <1>3, <2>1 DEF Phased, Maybe
<1>7. Anchored(heap, <<>>, NULL, "evaled", defs)
  BY <1>2, <1>3 DEF Anchored
<1>8. ASSUME NEW o \in Ids PROVE RootsOf(<<>>, NULL, "evaled", defs, lost)[o] = Q[o]
  <2> DEFINE R == RootsOf(<<>>, NULL, "evaled", defs, lost)
             w == One(o = v)
             y == One(o \in Statics)
             m == One(o = Main)
             n == One(o = Main /\ "evaled" # "done")
             u == One(o = NULL)
             d == Occ(defs, o)
  <2>1. R[o] = OnStacks(<<>>, o) + OnChain(<<>>, o) + u + y + n + 2 * d + lost[o]
    BY <1>6, Rooted
  <2>2. OnStacks(<<>>, o) = 0 /\ OnChain(<<>>, o) = 0
    BY NoFrames
  <2>3. n = m /\ u = 0 /\ d = 0 /\ lost[o] = 0
    BY <1>2, IdsFinite, OccShort DEF One
  <2>4. P[o] = Besides(o) + w + y + m /\ Q[o] = P[o] - w
    BY <1>1, LessAt
  <2>5. Besides(o) = 0
    BY <1>5, <2>2 DEF Besides
  <2>7. w \in Nat /\ y \in Nat /\ m \in Nat
    BY OneType
  <2> HIDE DEF R, w, y, m, n, u, d, Q
  <2>10. R[o] = Q[o]
    BY <2>1, <2>2, <2>3, <2>4, <2>5, <2>7
  <2> QED
    BY <2>10 DEF R
<1>9. Begun(heap, T, Q)
  <2>1. T = Plus(T2, DEC(v))
    BY List3 DEF T, T2
  <2>2. v \in Maybe
    BY <1>1 DEF Maybe
  <2> QED
    BY <1>1, <2>1, <2>2, AddDec
<1>10. Prepared(heap, T, Q)
  BY <1>9, AllOnIds, HeapPrepared
<1> HIDE DEF Q
<1>11. Holding(heap, T, <<>>, NULL, "evaled", defs, lost)
  BY <1>6, <1>7, <1>8, <1>10, Closes
<1> QED
  BY <1>11 DEF T, v

LEMMA EndFrameHolds == ASSUME IInv, EndFrame PROVE IInv'
<1>1. Running /\ Len(Stack) = 1
  BY DEF EndFrame
<1>2. Len(frames) \in Nat /\ Len(frames) \in 1..Len(frames) /\ frames \in Seq(FrameType)
  BY <1>1, Runs
<1>3. UNCHANGED <<heap, defs, made, lost>>
  BY DEF EndFrame
<1>4. CASE Len(frames) > 1
  <2> DEFINE fs == Front(frames)
             gs == WithTop(fs, Append(fs[Len(fs)].stk, Stack[1]))
  <2>1. Len(fs) = Len(frames) - 1
    BY <1>2, FramePopped
  <2>2. frames' = [fs EXCEPT ![Len(frames) - 1].stk = Append(@, Stack[1])]
        /\ todo' = <<DEC(ret), DEC(lb)>> \o <<INC(Stack[1])>>
        /\ ret' = Stack[1] /\ phase' = phase
    BY <1>4 DEF EndFrame
  <2>3. frames' = gs
    BY <2>1, <2>2 DEF WithTop
  <2>4. todo' = <<DEC(ret), DEC(lb), INC(Stack[1])>>
    BY <2>2, List3 DEF Plus
  <2>5. Holding(heap, <<DEC(ret), DEC(lb), INC(Stack[1])>>, gs, Stack[1], phase, defs, lost)
    BY <1>1, <1>4, CallerHolds
  <2> HIDE DEF gs
  <2> QED
    BY <1>3, <2>2, <2>3, <2>4, <2>5 DEF IInv
<1>5. CASE Len(frames) = 1
  <2>1. /\ frames' = <<>> /\ todo' = <<DEC(ret), DEC(lb)>> \o <<DEC(Stack[1])>>
        /\ ret' = NULL /\ phase' = "evaled"
    BY <1>5 DEF EndFrame
  <2>2. todo' = <<DEC(ret), DEC(lb), DEC(Stack[1])>>
    BY <2>1, List3 DEF Plus
  <2>3. Holding(heap, <<DEC(ret), DEC(lb), DEC(Stack[1])>>, <<>>, NULL, "evaled", defs, lost)
    BY <1>1, <1>5, LastBlockHolds
  <2> QED
    BY <1>3, <2>1, <2>2, <2>3 DEF IInv
<1>6. Len(frames) > 1 \/ Len(frames) = 1
  <2> DEFINE n == Len(frames)
  <2> HIDE DEF n
  <2>1. n \in Nat /\ n \in 1..n
    BY <1>2 DEF n
  <2>2. n > 1 \/ n = 1
    BY <2>1
  <2> QED
    BY <2>2 DEF n
<1> QED
  BY <1>4, <1>5, <1>6

LEMMA StartEvalHolds == ASSUME IInv, StartEval PROVE IInv'
<1> DEFINE f == [lb |-> Main, stk |-> <<>>]
           Q == More(Root, Main)
           T == <<INC(Main)>>
<1>1. /\ phase = "compile" /\ todo = <<>> /\ defs = <<>> /\ phase' = "eval"
      /\ todo' = T /\ frames' = <<f>> /\ UNCHANGED <<heap, defs, made, ret, lost>>
  BY DEF StartEval, Ready
<1>2. /\ Grown(heap, Root) /\ Filled(heap, T)
      /\ Phased(frames, ret, phase, defs, lost) /\ Anchored(heap, frames, ret, phase, defs)
  BY <1>1, Idle, GrownFirst
<1>3. frames = <<>> /\ ret = NULL /\ Main \in Ids /\ \A o \in Ids : lost[o] = 0
  BY <1>1, <1>2, StaticMain DEF Phased
<1>4. f \in FrameType /\ f.lb = Main /\ f.stk = <<>>
  BY <1>3 DEF FrameType
<1> HIDE DEF f, T
<1>5. <<f>> \in Seq(FrameType) /\ <<f>> # <<>> /\ <<f>> = <<>> \o <<f>>
  BY <1>4
<1>6. Phased(<<f>>, ret, "eval", defs, lost)
  BY <1>1, <1>2, <1>3, <1>5 DEF Phased
<1>7. Anchored(heap, <<f>>, ret, "eval", defs)
  <2>1. heap[Main].k = "block"
    BY <1>1, <1>2 DEF Anchored
  <2>2. DOMAIN f.stk = {}
    BY <1>4
  <2>3. FrameHolds(heap, f)
    BY <1>4, <2>1, <2>2, Zenon DEF FrameHolds
  <2>4. DOMAIN <<f>> = {1} /\ <<f>>[1] = f
    OBVIOUS
  <2>5. \A x \in DOMAIN <<f>> : FrameHolds(heap, <<f>>[x])
    BY <2>3, <2>4
  <2> QED
    BY <1>1, <1>2, <2>1, <2>5 DEF Anchored
<1>8. ASSUME NEW o \in Ids PROVE RootsOf(<<f>>, ret, "eval", defs, lost)[o] = Q[o]
  <2> DEFINE R == RootsOf(<<f>>, ret, "eval", defs, lost)
             a == OnStacks(frames, o)
             b == OnChain(frames, o)
             z == One(o = ret)
             y == One(o \in Statics)
             m == One(o = Main)
             n == One(o = Main /\ phase # "done")
             n2 == One(o = Main /\ "eval" # "done")
             d == Occ(defs, o)
  <2>1. R[o] = OnStacks(<<f>>, o) + OnChain(<<f>>, o) + z + y + n2 + 2 * d + lost[o]
    BY <1>6, Rooted
  <2>2. Root[o] = a + b + z + y + n + 2 * d + lost[o]
    BY <1>2, Rooted DEF Root
  <2>3. OnStacks(<<f>>, o) = a + Occ(f.stk, o) /\ OnChain(<<f>>, o) = b + One(f.lb = o)
    <3>1. frames \in Seq(FrameType) /\ <<f>> = frames \o <<f>>
      BY <1>2, <1>3, <1>5 DEF Phased
    <3>2. /\ OnStacks(frames \o <<f>>, o) = OnStacks(frames, o) + Occ(f.stk, o)
          /\ OnChain(frames \o <<f>>, o) = OnChain(frames, o) + One(f.lb = o)
      BY <1>4, <3>1, PushedCounts
    <3> QED
      BY <3>1, <3>2
  <2>4. Occ(f.stk, o) = 0 /\ One(f.lb = o) = m /\ n = n2 /\ d = 0 /\ lost[o] = 0
    BY <1>1, <1>3, <1>4, OccShort DEF One
  <2>5. Q[o] = Root[o] + m
    BY MoreAt
  <2>6. a = 0 /\ b = 0
    BY <1>3, NoFrames
  <2>7. z \in Nat /\ y \in Nat /\ m \in Nat /\ n \in Nat
    BY OneType
  <2> HIDE DEF R, Q, a, b, z, y, m, n, n2, d
  <2>8. R[o] = Q[o]
    BY <2>1, <2>2, <2>3, <2>4, <2>5, <2>6, <2>7
  <2> QED
    BY <2>8 DEF R
<1>9. Begun(heap, T, Q)
  <2>1. Begun(heap, <<>>, Root)
    BY <1>2 DEF Grown
  <2>2. Root[Main] > 0
    BY <1>1, <1>2, <1>3, Rooted DEF Root
  <2>3. Backed(heap, <<>>, INC(Main), Root, Main)
    BY <1>3, <2>1, <2>2, BackRoot
  <2>4. T = Plus(<<>>, INC(Main))
    BY List1 DEF T
  <2> QED
    BY <1>3, <2>1, <2>3, <2>4, AddInc
<1>10. Prepared(heap, T, Q)
  BY <1>2, <1>9, AllOnIds DEF Prepared, Grown
<1> HIDE DEF Q
<1>11. Holding(heap, T, <<f>>, ret, "eval", defs, lost)
  BY <1>6, <1>7, <1>8, <1>10, Closes
<1> QED
  BY <1>1, <1>11 DEF IInv

LEMMA DestructCompilerHolds == ASSUME IInv, DestructCompiler PROVE IInv'
<1> DEFINE Q == Less(Root, Main)
           T == <<DEC(Main)>>
<1>1. /\ phase = "evaled" /\ todo = <<>> /\ phase' = "done"
      /\ todo' = T /\ UNCHANGED <<heap, defs, made, frames, ret, lost>>
  BY DEF DestructCompiler, Ready
<1>2. /\ Grown(heap, Root) /\ Filled(heap, T)
      /\ Phased(frames, ret, phase, defs, lost) /\ Anchored(heap, frames, ret, phase, defs)
  BY <1>1, Idle, GrownFirst
<1> HIDE DEF T
<1>3. Phased(frames, ret, "done", defs, lost)
  BY <1>1, <1>2 DEF Phased
<1>4. Anchored(heap, frames, ret, "done", defs)
  BY <1>2 DEF Anchored
<1>5. ASSUME NEW o \in Ids PROVE RootsOf(frames, ret, "done", defs, lost)[o] = Q[o]
  <2> DEFINE R == RootsOf(frames, ret, "done", defs, lost)
             a == OnStacks(frames, o)
             b == OnChain(frames, o)
             z == One(o = ret)
             y == One(o \in Statics)
             m == One(o = Main)
             n == One(o = Main /\ phase # "done")
             n2 == One(o = Main /\ "done" # "done")
             d == Occ(defs, o)
  <2>1. R[o] = a + b + z + y + n2 + 2 * d + lost[o]
    BY <1>3, Rooted
  <2>2. Root[o] = a + b + z + y + n + 2 * d + lost[o]
    BY <1>2, Rooted DEF Root
  <2>3. n = m /\ n2 = 0
    BY <1>1 DEF One
  <2>4. Q[o] = Root[o] - m
    BY LessAt
  <2>5. z \in Nat /\ y \in Nat /\ m \in Nat
    BY OneType
  <2>6. a \in Nat /\ b \in Nat /\ d \in Nat /\ lost[o] \in Nat
    <3>1. frames \in Seq(FrameType) /\ defs \in Seq(Ids) /\ lost[o] \in Nat
      BY <1>2 DEF Phased
    <3> QED
      BY <3>1, FramesCounted, OccType
  <2> HIDE DEF R, Q, a, b, z, y, m, n, n2, d
  <2>7. R[o] = Q[o]
    BY <2>1, <2>2, <2>3, <2>4, <2>5, <2>6
  <2> QED
    BY <2>7 DEF R
<1>6. Begun(heap, T, Q)
  <2>1. Begun(heap, <<>>, Root)
    BY <1>2 DEF Grown
  <2>2. Root[Main] > 0
    BY <1>1, <1>2, StaticMain, Rooted DEF Root
  <2>3. Main \in Maybe
    BY StaticMain DEF Maybe
  <2>4. T = Plus(<<>>, DEC(Main))
    BY List1 DEF T
  <2> QED
    BY <2>1, <2>2, <2>3, <2>4, AddDec
<1>7. Prepared(heap, T, Q)
  BY <1>2, <1>6, AllOnIds DEF Prepared, Grown
<1> HIDE DEF Q
<1>8. Holding(heap, T, frames, ret, "done", defs, lost)
  BY <1>3, <1>4, <1>5, <1>7, Closes
<1> QED
  BY <1>1, <1>8 DEF IInv

-----------------------------------------------------------------------------
(* The compiler.                                                             *)

LEMMA Compiles ==
    ASSUME IInv, Ready("compile")
    PROVE  /\ Grown(heap, Root) /\ Sound(heap, <<>>, Root) /\ \A T : Filled(heap, T)
           /\ frames = <<>> /\ ret = NULL /\ defs \in Seq(Ids) /\ \A o \in Ids : lost[o] = 0
           /\ Compiled \in Ids /\ heap[Compiled].k = "block" /\ Root[Compiled] > 0
           /\ Phased(frames, ret, phase, defs, lost) /\ Anchored(heap, frames, ret, phase, defs)
<1>1. phase = "compile" /\ todo = <<>>
  BY DEF Ready
<1>2. /\ Grown(heap, Root) /\ Sound(heap, <<>>, Root) /\ \A T : Filled(heap, T)
      /\ Phased(frames, ret, phase, defs, lost) /\ Anchored(heap, frames, ret, phase, defs)
  BY <1>1, Idle, GrownFirst
<1>3. frames = <<>> /\ ret = NULL /\ defs \in Seq(Ids) /\ \A o \in Ids : lost[o] = 0
  BY <1>1, <1>2 DEF Phased
<1>4. Compiled \in Ids /\ heap[Compiled].k = "block" /\ Root[Compiled] > 0
  <2>1. CASE defs = <<>>
    BY <1>1, <1>2, <2>1, StaticMain, Rooted DEF Compiled, Anchored, Root
  <2>2. CASE defs # <<>>
    <3>1. Len(defs) \in DOMAIN defs
      BY <1>3, <2>2
    <3>2. Compiled = defs[Len(defs)]
      BY <2>2 DEF Compiled, Last
    <3>3. Compiled \in Ids
      BY <1>3, <3>1, <3>2
    <3> QED
      BY <1>2, <3>1, <3>2, <3>3, Rooted DEF Anchored, Root
  <2> QED
    BY <2>1, <2>2
<1> QED
  BY <1>2, <1>3, <1>4

LEMMA CompileRoots ==
    ASSUME IInv, Ready("compile"), NEW o \in Ids
    PROVE  /\ Root[o] = One(o \in Statics) + One(o = Main) + 2 * Occ(defs, o)
           /\ Root[o] \in Nat /\ Occ(defs, o) \in Nat
<1>1. /\ frames = <<>> /\ ret = NULL /\ defs \in Seq(Ids) /\ lost[o] = 0 /\ phase = "compile"
      /\ Phased(frames, ret, phase, defs, lost)
  BY Compiles DEF Ready
<1> DEFINE a == OnStacks(frames, o)
           b == OnChain(frames, o)
           z == One(o = ret)
           y == One(o \in Statics)
           m == One(o = Main)
           n == One(o = Main /\ phase # "done")
           d == Occ(defs, o)
<1>2. Root[o] = a + b + z + y + n + 2 * d + lost[o] /\ Root[o] \in Nat
  BY <1>1, Rooted DEF Root
<1>3. a = 0 /\ b = 0 /\ z = 0 /\ n = m
  BY <1>1, NoFrames, IdsFinite DEF One
<1>4. y \in Nat /\ m \in Nat /\ d \in Nat
  BY <1>1, OneType, OccType
<1> HIDE DEF a, b, z, y, n, m, d
<1>5. Root[o] = y + m + 2 * d
  BY <1>1, <1>2, <1>3, <1>4
<1> QED
  BY <1>2, <1>4, <1>5 DEF y, m, d

\* A compiler step that changes the heap and the functions under way.
LEMMA CompileCloses ==
    ASSUME IInv, Ready("compile"), NEW H, NEW T, NEW Q, Prepared(H, T, Q),
           NEW ds, ds \in Seq(Ids), \A i \in DOMAIN ds : H[ds[i]].k = "block",
           \A o \in Ids : Q[o] = One(o \in Statics) + One(o = Main) + 2 * Occ(ds, o)
    PROVE  Holding(H, T, frames, ret, phase, ds, lost)
<1>1. /\ frames = <<>> /\ ret = NULL /\ phase = "compile" /\ Sound(heap, <<>>, Root)
      /\ \A o \in Ids : lost[o] = 0
      /\ Phased(frames, ret, phase, defs, lost) /\ Anchored(heap, frames, ret, phase, defs)
  BY Compiles DEF Ready
<1>2. Phased(frames, ret, phase, ds, lost)
  BY <1>1 DEF Phased
<1>3. Anchored(H, frames, ret, phase, ds)
  <2>1. ASSUME NEW o \in Ids, Root[o] > 0 PROVE H[o].k = heap[o].k
    <3>1. heap[o].k # "free"
      BY <1>1, <2>1, IdleHeld
    <3> QED
      BY <3>1 DEF Prepared, Alike
  <2>2. Anchored(H, frames, ret, phase, defs)
    BY <1>1, <2>1, AnchoredKept DEF Root
  <2> QED
    BY <2>2 DEF Anchored
<1>4. ASSUME NEW o \in Ids PROVE RootsOf(frames, ret, phase, ds, lost)[o] = Q[o]
  <2> DEFINE R == RootsOf(frames, ret, phase, ds, lost)
             a == OnStacks(frames, o)
             b == OnChain(frames, o)
             z == One(o = ret)
             y == One(o \in Statics)
             m == One(o = Main)
             n == One(o = Main /\ phase # "done")
             d == Occ(ds, o)
  <2>1. R[o] = a + b + z + y + n + 2 * d + lost[o]
    BY <1>2, Rooted
  <2>2. a = 0 /\ b = 0 /\ z = 0 /\ n = m /\ lost[o] = 0
    BY <1>1, NoFrames, IdsFinite DEF One
  <2>3. y \in Nat /\ m \in Nat /\ d \in Nat
    BY OneType, OccType
  <2>4. Q[o] = y + m + 2 * d
    OBVIOUS
  <2> HIDE DEF R, a, b, z, y, n, m, d
  <2>5. R[o] = Q[o]
    BY <2>1, <2>2, <2>3, <2>4
  <2> QED
    BY <2>5 DEF R
<1> QED
  BY <1>2, <1>3, <1>4, Closes

LEMMA ConcatTwo ==
    ASSUME NEW T \in Seq(Op), NEW a \in Op, NEW b \in Op
    PROVE  T \o <<a, b>> = Plus(Plus(T, a), b)
<1>1. <<a, b>> = Plus(<<a>>, b) /\ <<a>> \in Seq(Op)
  <2>1. <<a>> \in Seq(Op)
    OBVIOUS
  <2> QED
    BY <2>1, List2
<1>2. T \o Plus(<<a>>, b) = Plus(T \o <<a>>, b)
  BY <1>1, PlusConcat
<1> QED
  BY <1>1, <1>2, Zenon DEF Plus

\* An object becomes a constant of the code of a block.
LEMMA StoredBegun ==
    ASSUME NEW H, NEW T, NEW R, Begun(H, T, R), NEW b \in Ids, R[b] > 0, Steady(T, b),
           3 \in DOMAIN H[b].f, IsA(H, H[b].f[3], {"list"}),
           NEW n \in Ids, H[n].k \in Items, R[n] > 0
    PROVE  Begun(H, T \o <<APPEND(H[b].f[3], n), DEC(n)>>, Less(R, n))
<1> DEFINE l == H[b].f[3]
           s == APPEND(l, n)
<1>1. l \in Ids /\ s.op = "append"
  BY DEF IsA, APPEND
<1> HIDE DEF l
<1>2. Backed(H, T, s, R, b) /\ Backed(H, T, s, R, n)
  BY BackRoot
<1>3. Backed(H, T, s, R, l)
  <2>1. Elsewhere(s, b)
    BY <1>1 DEF Elsewhere
  <2> HIDE DEF s
  <2> QED
    BY <1>1, <1>2, <2>1, BackField DEF l
<1>4. Begun(H, Plus(T, s), R)
  <2>1. IsA(H, l, {"list"}) /\ IsA(H, n, Items) /\ s \in {APPEND(l, n), PREPEND(l, n)}
    BY DEF IsA, l
  <2> HIDE DEF s
  <2> QED
    BY <1>2, <1>3, <2>1, AddItem
<1>5. Begun(H, Plus(Plus(T, s), DEC(n)), Less(R, n))
  <2>1. n \in Maybe
    BY DEF Maybe
  <2> QED
    BY <1>4, <2>1, AddDec
<1>6. T \o <<s, DEC(n)>> = Plus(Plus(T, s), DEC(n))
  <2>1. T \in Seq(Op)
    BY DEF Begun
  <2>2. s \in Op /\ DEC(n) \in Op
    BY <1>1, OpTypes DEF Maybe
  <2> HIDE DEF s
  <2> QED
    BY <2>1, <2>2, ConcatTwo
<1> QED
  BY <1>5, <1>6 DEF l

\* The blocks that the compiler works on, in a heap with new objects.
LEMMA GrownBlock ==
    ASSUME IInv, Ready("compile"), NEW b \in Ids, heap[b].k = "block", Root[b] > 0,
           NEW H, Alike(heap, H), H[b] = heap[b]
    PROVE  /\ DOMAIN H[b].f = 1..3 /\ IsA(H, H[b].f[2], {"map"}) /\ IsA(H, H[b].f[3], {"list"})
<1>1. Sound(heap, <<>>, Root)
  BY Compiles
<1>2. heap[b].rc > 0
  BY <1>1, IdleHeld
<1>3. /\ DOMAIN heap[b].f = 1..3
      /\ IsA(heap, heap[b].f[2], {"map"}) /\ IsA(heap, heap[b].f[3], {"list"})
  BY <1>1, <1>2, BlockFields
<1> QED
  BY <1>3 DEF Alike, IsA

LEMMA StoreNumberHolds == ASSUME IInv, StoreNumber PROVE IInv'
<1> DEFINE n == Fresh({})
           v == New("value", <<>>)
           H == Birth(heap, n, v)
           R == More(Root, n)
           Q == Less(R, n)
           b == Compiled
           l == heap[b].f[3]
<1>1. /\ Ready("compile") /\ Room(1) /\ heap' = H
      /\ todo' = <<APPEND(l, n), DEC(n)>> \/ todo' = <<DEC(n)>>
      /\ UNCHANGED <<phase, defs, frames, ret, lost>>
  BY Zenon DEF StoreNumber, Literal, Birth, Stored, Consts, Field
<1>2. n \in Ids /\ heap[n].k = "free"
  <2>1. 1 \in Nat \ {0}
    OBVIOUS
  <2> QED
    BY <1>1, <2>1, FirstFresh
<1>3. /\ Grown(heap, Root) /\ \A T : Filled(heap, T)
      /\ b \in Ids /\ heap[b].k = "block" /\ Root[b] > 0 /\ defs \in Seq(Ids)
      /\ Phased(frames, ret, phase, defs, lost) /\ Anchored(heap, frames, ret, phase, defs)
  BY <1>1, Compiles
<1>4. v \in Blanks /\ v.k = "value"
  BY DEF Blanks, New
<1> HIDE DEF n, v, b
<1>5. /\ Grown(H, R) /\ DOMAIN heap = Ids /\ H[n] = v /\ \A o : o # n => H[o] = heap[o]
  BY <1>2, <1>3, <1>4, GrownBlank
<1>6. b # n /\ H[b] = heap[b]
  BY <1>2, <1>3, <1>5
<1>7. Records(H) /\ Begun(H, <<>>, R) /\ Alike(heap, H)
  BY <1>5 DEF Grown
<1> HIDE DEF H
<1>8. R[b] > 0 /\ R[n] > 0 /\ \A o \in Ids : Q[o] = Root[o]
  <2>1. \A o \in Ids : Root[o] \in Nat /\ One(o = n) \in Nat
    BY <1>3, Rooted, OneType DEF Root
  <2>2. One(n = n) = 1
    BY DEF One
  <2>3. \A o \in Ids : R[o] = Root[o] + One(o = n) /\ Q[o] = R[o] - One(o = n)
    BY MoreAt, LessAt
  <2>4. R[b] > 0 /\ R[n] > 0
    BY <1>2, <1>3, <2>1, <2>2, <2>3
  <2>5. \A o \in Ids : Q[o] = Root[o]
    BY <2>1, <2>3
  <2> QED
    BY <2>4, <2>5
<1> HIDE DEF R
<1>9. Begun(H, todo', Q)
  <2>1. CASE todo' = <<APPEND(l, n), DEC(n)>>
    <3>1. 3 \in DOMAIN H[b].f /\ IsA(H, H[b].f[3], {"list"})
      BY <1>1, <1>3, <1>6, <1>7, GrownBlock
    <3>2. H[n].k \in Items
      BY <1>4, <1>5 DEF Items
    <3>3. Begun(H, <<>> \o <<APPEND(H[b].f[3], n), DEC(n)>>, Q)
      BY <1>2, <1>3, <1>7, <1>8, <3>1, <3>2, EmptySteady, StoredBegun
    <3>4. <<>> \o <<APPEND(l, n), DEC(n)>> = <<APPEND(l, n), DEC(n)>>
      OBVIOUS
    <3> QED
      BY <1>6, <2>1, <3>3, <3>4
  <2>2. CASE todo' = <<DEC(n)>>
    <3>1. <<DEC(n)>> = Plus(<<>>, DEC(n)) /\ n \in Maybe
      BY <1>2, List1 DEF Maybe
    <3> QED
      BY <1>7, <1>8, <2>2, <3>1, AddDec
  <2> QED
    BY <1>1, <2>1, <2>2
<1>10. Filled(H, todo')
  <2>1. v.k \notin {"block", "function"}
    BY <1>4
  <2>2. Filled(heap, todo')
    BY <1>3
  <2> QED
    BY <1>2, <1>5, <2>1, <2>2, BlankFilled DEF H
<1>11. Prepared(H, todo', Q)
  BY <1>7, <1>9, <1>10, AllOnIds DEF Prepared
<1>12. \A o \in Ids : Q[o] = One(o \in Statics) + One(o = Main) + 2 * Occ(defs, o)
  BY <1>1, <1>8, CompileRoots
<1>13. \A i \in DOMAIN defs : H[defs[i]].k = "block"
  <2>1. \A i \in DOMAIN defs : defs[i] \in Ids /\ heap[defs[i]].k = "block"
    BY <1>3 DEF Anchored
  <2> QED
    BY <1>7, <2>1 DEF Alike
<1> HIDE DEF Q
<1>14. Holding(H, todo', frames, ret, phase, defs, lost)
  BY <1>1, <1>3, <1>11, <1>12, <1>13, CompileCloses
<1> QED
  BY <1>1, <1>14 DEF IInv

\* The same of a static object, which gets a reference first.
LEMMA StaticStored ==
    ASSUME IInv, Ready("compile"), NEW z \in Statics, heap' = [heap EXCEPT ![z].rc = @ + 1],
           todo' = Stored(Compiled, z) \/ todo' = <<DEC(z)>>,
           UNCHANGED <<phase, defs, frames, ret, lost>>
    PROVE  IInv'
<1> DEFINE b == Compiled
           l == heap[b].f[3]
           T == <<INC(z)>>
           R == More(Root, z)
           Q == Less(R, z)
           U == T \o todo'
<1>1. z \in Ids /\ todo = <<>> /\ phase = "compile"
  BY StaticMain DEF Ready
<1>2. /\ Records(heap) /\ Begun(heap, <<>>, Root) /\ DOMAIN heap = Ids /\ Alike(heap, heap)
      /\ b \in Ids /\ heap[b].k = "block" /\ Root[b] > 0 /\ defs \in Seq(Ids)
      /\ Phased(frames, ret, phase, defs, lost) /\ Anchored(heap, frames, ret, phase, defs)
      /\ \A W : Filled(heap, W)
  BY <1>1, Compiles, Idle, SelfAlike
<1>3. Root[z] > 0 /\ heap[z].k = "static"
  BY <1>1, <1>2, Rooted DEF Root, Anchored
<1>4. \A o \in Ids : Root[o] \in Nat /\ One(o = z) \in Nat /\ R[o] = Root[o] + One(o = z)
                     /\ Q[o] = R[o] - One(o = z)
  BY <1>2, Rooted, OneType, MoreAt, LessAt DEF Root
<1> HIDE DEF b, R, Q
<1>5. R[b] > 0 /\ R[z] > 0 /\ \A o \in Ids : Q[o] = Root[o]
  BY <1>1, <1>2, <1>3, <1>4
<1>6. Begun(heap, T, R)
  <2>1. Backed(heap, <<>>, INC(z), Root, z)
    BY <1>1, <1>2, <1>3, BackRoot
  <2>2. T = Plus(<<>>, INC(z))
    BY List1
  <2> QED
    BY <1>1, <1>2, <2>1, <2>2, AddInc DEF R
<1>7. Steady(T, b)
  <2>1. Len(T) = 1 /\ T[1].op = "inc"
    BY OpFields
  <2> QED
    BY <2>1 DEF Steady
<1>8. Begun(heap, U, Q)
  <2>1. CASE todo' = <<APPEND(l, z), DEC(z)>>
    <3>1. 3 \in DOMAIN heap[b].f /\ IsA(heap, heap[b].f[3], {"list"})
      BY <1>2, GrownBlock
    <3>2. heap[z].k \in Items
      BY <1>3 DEF Items
    <3> QED
      BY <1>1, <1>2, <1>5, <1>6, <1>7, <2>1, <3>1, <3>2, StoredBegun DEF Q
  <2>2. CASE todo' = <<DEC(z)>>
    <3>1. T \o <<DEC(z)>> = Plus(T, DEC(z)) /\ z \in Maybe
      BY <1>1 DEF Plus, Maybe
    <3> QED
      BY <1>5, <1>6, <2>2, <3>1, AddDec DEF Q
  <2>3. todo' = <<APPEND(l, z), DEC(z)>> \/ todo' = <<DEC(z)>>
    BY DEF Stored, Consts, Field, b
  <2> QED
    BY <2>1, <2>2, <2>3
<1>9. OnIds(Q) /\ OnIds(Root)
  BY AllOnIds DEF Q, Root
<1>10. Q = Root
  BY <1>5, <1>9, AllOnIds
<1>11. Sound(heap, U, Root)
  BY <1>2, <1>8, <1>10, BegunSound
<1>12. Head(U) = INC(z) /\ Tail(U) = todo' /\ U # <<>>
  <2>1. \A W : W \in Seq(Op) => Head(T \o W) = INC(z) /\ Tail(T \o W) = W /\ T \o W # <<>>
    OBVIOUS
  <2>2. todo' \in Seq(Op)
    <3>1. todo' = <<APPEND(l, z), DEC(z)>> \/ todo' = <<DEC(z)>>
      BY DEF Stored, Consts, Field, b
    <3>2. l \in Ids
      BY <1>2, GrownBlock DEF IsA
    <3>3. APPEND(l, z) \in Op /\ DEC(z) \in Op
      BY <1>1, <3>2, OpTypes DEF Maybe
    <3> HIDE DEF l
    <3>4. <<APPEND(l, z), DEC(z)>> \in Seq(Op) /\ <<DEC(z)>> \in Seq(Op)
      BY <3>3
    <3> QED
      BY <3>1, <3>4
  <2> QED
    BY <2>1, <2>2
<1>13. Then(INC(z)) \o todo' = todo' /\ INC(z).op = "inc" /\ INC(z).o = z
  <2>1. Then(INC(z)) = <<>>
    BY OpFields DEF Then
  <2>2. Sound(Done(INC(z)), Then(INC(z)) \o todo', Root)
    BY <1>2, <1>11, <1>12, StepSound
  <2> QED
    BY <2>1, <2>2, OpFields DEF Sound, Formed
<1> HIDE DEF U
<1>14. Sound(Done(INC(z)), todo', Root) /\ \A o \in Ids : Boxed(Done(INC(z))[o])
  BY <1>2, <1>11, <1>12, <1>13, StepSound
<1>15. heap' = Done(INC(z)) /\ Records(heap') /\ \A o \in Ids : heap'[o].k = heap[o].k
  <2>1. ASSUME NEW o \in Ids
        PROVE  heap'[o] = After(INC(z), o) /\ heap'[o].k = heap[o].k
    <3>1. Boxed(heap[o]) /\ heap'[o] = IF o = z THEN [heap[o] EXCEPT !.rc = @ + 1] ELSE heap[o]
      BY <1>2 DEF Records
    <3>2. After(INC(z), o) = [heap[o] EXCEPT !.f = @, !.rc = IF o = z THEN @ + 1 ELSE @]
      BY <1>13 DEF After
    <3>3. heap[o] = [k |-> heap[o].k, rc |-> heap[o].rc, f |-> heap[o].f, ps |-> heap[o].ps]
      BY <3>1 DEF Boxed
    <3> DEFINE h == heap[o]
    <3> HIDE DEF h
    <3>4. /\ [h EXCEPT !.f = @, !.rc = IF o = z THEN @ + 1 ELSE @]
                = IF o = z THEN [h EXCEPT !.rc = @ + 1] ELSE h
          /\ (IF o = z THEN [h EXCEPT !.rc = @ + 1] ELSE h).k = h.k
      BY <3>3 DEF h
    <3> QED
      BY <3>1, <3>2, <3>4 DEF h
  <2>2. DOMAIN heap' = Ids /\ heap' = [o \in Ids |-> heap'[o]]
    BY <1>2
  <2>3. heap' = Done(INC(z))
    BY <2>1, <2>2 DEF Done
  <2> QED
    BY <1>14, <2>1, <2>2, <2>3 DEF Records
<1>16. Anchored(heap', frames, ret, phase, defs)
  BY <1>2, <1>15, AnchoredKept
<1>17. Holding(heap', todo', frames, ret, phase, defs, lost)
  BY <1>2, <1>14, <1>15, <1>16 DEF Holding, Root
<1> QED
  BY <1>17 DEF IInv

LEMMA StoreBoolHolds == ASSUME IInv, StoreBool PROVE IInv'
<1>1. /\ Ready("compile") /\ heap' = [heap EXCEPT ![Static].rc = @ + 1]
      /\ todo' = Stored(Compiled, Static) \/ todo' = <<DEC(Static)>>
      /\ UNCHANGED <<phase, defs, frames, ret, lost>>
  BY DEF StoreBool, Literal
<1> QED
  BY <1>1, StaticMain, StaticStored

LEMMA StoreNilHolds == ASSUME IInv, StoreNil PROVE IInv'
<1>1. /\ Ready("compile") /\ heap' = [heap EXCEPT ![Nil].rc = @ + 1]
      /\ todo' = Stored(Compiled, Nil) \/ todo' = <<DEC(Nil)>>
      /\ UNCHANGED <<phase, defs, frames, ret, lost>>
  BY DEF StoreNil, Literal
<1> QED
  BY <1>1, StaticMain, StaticStored

\* The nil of an else that is missing gets the list's reference, no other.
LEMMA FakeElseHolds == ASSUME IInv, FakeElse PROVE IInv'
<1> DEFINE b == Compiled
           l == heap[b].f[3]
           s == APPEND(l, Nil)
<1>1. /\ Ready("compile")
      /\ todo' = <<s>> \/ todo' = <<>>
      /\ UNCHANGED <<heap, phase, defs, frames, ret, lost>>
  BY DEF FakeElse, Consts, Field
<1>2. Nil \in Ids /\ Nil \in Statics /\ todo = <<>> /\ phase = "compile"
  BY <1>1, StaticMain DEF Ready
<1>3. /\ Records(heap) /\ Begun(heap, <<>>, Root) /\ Sound(heap, <<>>, Root) /\ Alike(heap, heap)
      /\ b \in Ids /\ heap[b].k = "block" /\ Root[b] > 0
      /\ Phased(frames, ret, phase, defs, lost) /\ Anchored(heap, frames, ret, phase, defs)
      /\ \A W : Filled(heap, W)
  BY <1>1, <1>2, Compiles, Idle, SelfAlike
<1>4. Root[Nil] > 0 /\ heap[Nil].k = "static"
  BY <1>2, <1>3, Rooted DEF Root, Anchored
<1>5. 3 \in DOMAIN heap[b].f /\ IsA(heap, heap[b].f[3], {"list"})
  BY <1>1, <1>3, GrownBlock
<1> HIDE DEF b
<1>6. Sound(heap, <<s>>, Root)
  <2>1. l \in Ids /\ s.op = "append" /\ s = APPEND(l, Nil)
    BY <1>5, OpFields DEF IsA
  <2>2. IsA(heap, l, {"list"}) /\ IsA(heap, Nil, Items)
    BY <1>2, <1>4, <1>5 DEF IsA, Items
  <2>3. l = heap[b].f[3]
    OBVIOUS
  <2> HIDE DEF l, s
  <2>4. Backed(heap, <<>>, s, Root, b) /\ Backed(heap, <<>>, s, Root, Nil)
    BY <1>2, <1>3, <1>4, BackRoot
  <2>5. Elsewhere(s, b)
    BY <2>1 DEF Elsewhere
  <2>6. Backed(heap, <<>>, s, Root, l)
    BY <1>3, <1>5, <2>1, <2>3, <2>4, <2>5, EmptySteady, BackField
  <2>7. Begun(heap, Plus(<<>>, s), Root)
    <3>1. s \in {APPEND(l, Nil), PREPEND(l, Nil)}
      BY <2>1
    <3> QED
      BY <1>2, <1>3, <2>1, <2>2, <2>4, <2>6, <3>1, AddItem
  <2> QED
    BY <1>3, <2>7, List1, BegunSound
<1> HIDE DEF s
<1>7. Sound(heap, todo', Root)
  BY <1>1, <1>3, <1>6
<1>8. Holding(heap, todo', frames, ret, phase, defs, lost)
  BY <1>3, <1>7 DEF Holding, Root
<1> QED
  BY <1>1, <1>8 DEF IInv

\* A store into a field of a new object n, whose fields are all NULL, while
\* nothing is appended to it.
Untouched(H, T, n) ==
    /\ \A x \in DOMAIN H[n].f : H[n].f[x] = NULL
    /\ \A i \in 1..Len(T) : T[i].op \in {"append", "prepend"} => T[i].o # n

LEMMA UntouchedUnrelied ==
    ASSUME NEW H, NEW T, NEW s, Untouched(H, T, s.o)
    PROVE  Unrelied(H, T, s)
<1>1. ASSUME NEW j \in 1..Len(T), NEW p \in Ids, Holds(H, T, s.o, p, j) PROVE FALSE
  <2>1. CASE \E x \in DOMAIN H[s.o].f : H[s.o].f[x] = p
    BY <2>1, IdsFinite DEF Untouched
  <2>2. CASE \E i \in 1..Len(T) : i < j /\ T[i] \in {APPEND(s.o, p), PREPEND(s.o, p)}
    <3>1. PICK i \in 1..Len(T) : T[i] \in {APPEND(s.o, p), PREPEND(s.o, p)}
      BY <2>2
    <3>2. T[i].op \in {"append", "prepend"} /\ T[i].o = s.o
      BY <3>1, OpFields
    <3> QED
      BY <3>2 DEF Untouched
  <2> QED
    BY <1>1, <2>1, <2>2 DEF Holds
<1> QED
  BY <1>1 DEF Unrelied

LEMMA ShortSteps ==
    ASSUME NEW a, NEW b, NEW c
    PROVE  /\ Len(<<a>>) = 1 /\ <<a>>[1] = a
           /\ Len(<<a, b>>) = 2 /\ <<a, b>>[1] = a /\ <<a, b>>[2] = b
           /\ Len(<<a, b, c>>) = 3 /\ <<a, b, c>>[1] = a /\ <<a, b, c>>[2] = b /\ <<a, b, c>>[3] = c
  OBVIOUS

LEMMA FrontOf ==
    ASSUME NEW S, NEW t \in Seq(S), t # <<>>
    PROVE  /\ Front(t) \in Seq(S) /\ Len(Front(t)) = Len(t) - 1
           /\ \A i \in 1..Len(t) - 1 : Front(t)[i] = t[i]
           /\ t = Front(t) \o <<t[Len(t)]>>
<1> DEFINE n == Len(t)
           m == n - 1
           ds == Front(t)
<1>1. n \in Nat \ {0} /\ DOMAIN t = 1..n
  BY LenProperties
<1>2. m \in 0..n /\ 1 \in 1..m + 1 /\ m = m - 1 + 1 /\ m \in Nat /\ n = m + 1
  BY <1>1
<1>3. ds = SubSeq(t, 1, m)
  BY DEF Front
<1> HIDE DEF ds, n
<1>4. ds \in Seq(S) /\ Len(ds) = m /\ \A i \in 1..m : ds[i] = t[i]
  <2>1. m <= Len(t) /\ m \in Nat
    BY <1>1, <1>2 DEF n
  <2> HIDE DEF m
  <2> QED
    BY <1>3, <2>1
<1>5. t = ds \o <<t[n]>>
  <2> DEFINE w == t[n]
  <2>1. w \in S
    BY <1>1, <1>2
  <2>2. Len(<<w>>) = 1 /\ <<w>>[1] = w /\ <<w>> \in Seq(S)
    BY <2>1
  <2>3. w = t[m + 1]
    BY <1>2
  <2> HIDE DEF w, m
  <2> QED
    BY <1>1, <1>2, <1>4, <2>1, <2>2, <2>3 DEF n
<1> QED
  BY <1>4, <1>5 DEF n, m, ds

LEMMA FirstPart ==
    ASSUME NEW S, NEW s \in Seq(S), NEW t \in Seq(S), NEW i \in 1..Len(s)
    PROVE  i \in 1..Len(s \o t) /\ (s \o t)[i] = s[i]
  OBVIOUS

\* The code of a function moves from the compiler into a new function.
LEMMA CodeStored ==
    ASSUME NEW H, NEW R, Begun(H, <<>>, R), NEW f \in Ids, NEW code \in Ids, f # code,
           H[f].k = "function", H[f].f = <<NULL>>, H[code].k = "block", R[f] > 0,
           NEW P, \A o \in Ids : R[o] = P[o] + 2 * One(o = code) /\ P[o] \in Nat, OnIds(P)
    PROVE  Begun(H, <<DEC(code), SET(f, 1, code), DEC(code)>>, P)
<1> DEFINE s == SET(f, 1, code)
           R1 == Less(R, code)
           R2 == Less(R1, code)
           T1 == <<DEC(code)>>
           T2 == <<DEC(code), s>>
           T == <<DEC(code), s, DEC(code)>>
<1>1. /\ s.op = "set" /\ s.o = f /\ s.x = 1 /\ s.v = code /\ DEC(code).op = "dec"
      /\ code \in Maybe
  BY DEF SET, DEC, Maybe
<1>2. One(code = code) = 1 /\ One(f = code) = 0 /\ \A b : One(b) \in Nat
  BY OneType DEF One
<1>3. /\ R[code] > 0 /\ R1[code] > 0 /\ R1[f] > 0
      /\ \A o \in Ids : R2[o] = P[o]
  <2>1. \A o \in Ids : R1[o] = R[o] - One(o = code) /\ R2[o] = R1[o] - One(o = code)
    BY LessAt
  <2>2. \A o \in Ids : R[o] = P[o] + 2 * One(o = code) /\ P[o] \in Nat
    OBVIOUS
  <2> HIDE DEF R1, R2
  <2>3. R[code] > 0 /\ R1[code] > 0
    BY <1>2, <2>1, <2>2
  <2>4. R1[f] > 0
    BY <1>2, <2>1, <2>2
  <2>5. ASSUME NEW o \in Ids PROVE R2[o] = P[o]
    <3>1. R1[o] = R[o] - One(o = code) /\ R2[o] = R1[o] - One(o = code)
          /\ R[o] = P[o] + 2 * One(o = code) /\ P[o] \in Nat /\ One(o = code) \in Nat
      BY <1>2, <2>1
    <3> DEFINE d == One(o = code)
    <3> HIDE DEF d
    <3> QED
      BY <3>1 DEF d
  <2> QED
    BY <2>3, <2>4, <2>5
<1>4. R2 = P
  BY <1>3, AllOnIds
<1> HIDE DEF R2
<1>5. Begun(H, T1, R1)
  <2>1. T1 = Plus(<<>>, DEC(code))
    BY List1
  <2> QED
    BY <1>1, <1>3, <2>1, AddDec
<1> HIDE DEF R1
<1>6. Untouched(H, T1, f)
  <2>1. \A x \in DOMAIN H[f].f : H[f].f[x] = NULL
    OBVIOUS
  <2>2. Len(T1) = 1 /\ T1[1] = DEC(code)
    BY ShortSteps
  <2>3. \A i \in 1..1 : i = 1
    OBVIOUS
  <2> HIDE DEF T1
  <2> QED
    BY <1>1, <2>1, <2>2, <2>3 DEF Untouched
<1>7. Begun(H, T2, R1)
  <2>1. T2 = Plus(T1, s)
    BY List2
  <2>2. Unrelied(H, T1, s)
    BY <1>1, <1>6, UntouchedUnrelied
  <2>3. Lone(T1, s)
    <3>1. Len(T1) = 1 /\ T1[1] = DEC(code)
      BY ShortSteps
    <3>2. \A i \in 1..Len(T1) : T1[i].op = "dec"
      BY <1>1, <3>1
    <3> HIDE DEF T1, s
    <3> QED
      BY <3>2 DEF Lone
  <2>4. Accepts(H, f, 1, code) /\ H[f].k # "list" /\ H[f].f[1] = NULL /\ 1 \in 1..3
    BY DEF Accepts, IsA
  <2>5. Backed(H, T1, s, R1, f) /\ Backed(H, T1, s, R1, code)
    BY <1>3, <1>5, BackRoot
  <2> HIDE DEF T1, T2
  <2>6. Begun(H, Plus(T1, s), R1)
    BY <1>5, <2>2, <2>3, <2>4, <2>5, AddSet
  <2> QED
    BY <2>1, <2>6
<1>8. Begun(H, T, P)
  <2>1. T = Plus(T2, DEC(code))
    BY List3
  <2>2. Less(R1, code) = P
    BY <1>4 DEF R2
  <2> QED
    BY <1>1, <1>3, <1>7, <2>1, <2>2, AddDec
<1> QED
  BY <1>8

LEMMA LeaveFunctionHolds == ASSUME IInv, LeaveFunction PROVE IInv'
<1> DEFINE code == Last(defs)
           f == Fresh({})
           ds == Front(defs)
           b == IF Len(defs) = 1 THEN Main ELSE defs[Len(defs) - 1]
           l == heap[b].f[3]
           T3 == <<DEC(code), SET(f, 1, code), DEC(code)>>
           T == T3 \o <<APPEND(l, f), DEC(f)>>
<1>1. /\ Ready("compile") /\ defs # <<>> /\ Room(1) /\ defs' = ds /\ todo' = T
      /\ UNCHANGED <<phase, made, frames, ret, lost>>
  BY DEF LeaveFunction, Stored, Consts, Field
<1>2. PICK ps \in Params : heap' = [heap EXCEPT ![f] = [New("function", <<NULL>>) EXCEPT !.ps = ps]]
  BY DEF LeaveFunction
<1> DEFINE v == [New("function", <<NULL>>) EXCEPT !.ps = ps]
           H == Birth(heap, f, v)
           R == More(Root, f)
           P == [o \in Ids |-> R[o] - 2 * One(o = code)]
           Q == Less(P, f)
<1>3. f \in Ids /\ heap[f].k = "free"
  <2>1. 1 \in Nat \ {0}
    OBVIOUS
  <2> QED
    BY <1>1, <2>1, FirstFresh
<1>4. /\ Grown(heap, Root) /\ \A U : Filled(heap, U)
      /\ Sound(heap, <<>>, Root) /\ defs \in Seq(Ids)
      /\ Phased(frames, ret, phase, defs, lost) /\ Anchored(heap, frames, ret, phase, defs)
  BY <1>1, Compiles
<1>5. v \in Blanks /\ v.k = "function" /\ v.f = <<NULL>>
  BY DEF Blanks, New
<1>6. heap' = H
  BY <1>2 DEF Birth
<1> DEFINE n == Len(defs)
<1>7. n \in Nat \ {0} /\ DOMAIN defs = 1..n /\ code = defs[n]
  BY <1>1, <1>4 DEF Last
<1>8. /\ ds \in Seq(Ids) /\ Len(ds) = n - 1 /\ \A i \in 1..n - 1 : ds[i] = defs[i]
      /\ defs = ds \o <<code>>
  <2>1. code = defs[Len(defs)]
    BY <1>7
  <2> HIDE DEF code
  <2> QED
    BY <1>1, <1>4, <2>1, FrontOf
<1>9. code \in Ids /\ heap[code].k = "block" /\ b \in Ids /\ heap[b].k = "block"
  <2>1. \A i \in 1..n : defs[i] \in Ids /\ heap[defs[i]].k = "block"
    BY <1>4, <1>7 DEF Anchored
  <2>2. n \in 1..n /\ (n # 1 => n - 1 \in 1..n)
    BY <1>7
  <2>3. Main \in Ids /\ heap[Main].k = "block"
    BY <1>1, <1>4, StaticMain DEF Anchored, Ready
  <2> QED
    BY <1>7, <2>1, <2>2, <2>3
<1>10. ASSUME NEW o \in Ids
       PROVE  /\ Root[o] = One(o \in Statics) + One(o = Main) + 2 * Occ(ds, o) + 2 * One(o = code)
              /\ Occ(ds, o) \in Nat
  <2>1. Root[o] = One(o \in Statics) + One(o = Main) + 2 * Occ(defs, o)
    BY <1>1, CompileRoots
  <2>2. Occ(ds \o <<code>>, o) = Occ(ds, o) + Occ(<<code>>, o)
    <3>1. <<code>> \in Seq(Ids)
      BY <1>9
    <3> HIDE DEF ds, code
    <3> QED
      BY <1>8, <3>1, OccConcat
  <2>3. Occ(<<code>>, o) = One(o = code)
    <3>1. Occ(<<code>>, o) = One(code = o) /\ One(code = o) = One(o = code)
      BY OccShort DEF One
    <3> QED
      BY <3>1
  <2>4. Occ(defs, o) = Occ(ds, o) + One(o = code)
    <3> HIDE DEF ds, code
    <3> QED
      BY <1>8, <2>2, <2>3
  <2>5. Occ(ds, o) \in Nat /\ One(o = code) \in Nat /\ One(o \in Statics) \in Nat /\ One(o = Main) \in Nat
    BY <1>8, OccType, OneType
  <2> DEFINE x == Occ(ds, o)
             y == One(o = code)
             s == One(o \in Statics)
             m == One(o = Main)
  <2> HIDE DEF x, y, s, m
  <2>6. Root[o] = s + m + 2 * x + 2 * y
    BY <2>1, <2>4, <2>5 DEF x, y, s, m
  <2> QED
    BY <2>5, <2>6 DEF x, y, s, m
<1>11. b = Main \/ Occ(ds, b) > 0
  <2>1. CASE n = 1
    BY <2>1
  <2>2. CASE n # 1
    <3>1. n - 1 \in 1..Len(ds) /\ ds[n - 1] = b
      BY <1>7, <1>8, <2>2
    <3> HIDE DEF ds, b, n
    <3> QED
      BY <1>8, <3>1, OccType
  <2> QED
    BY <2>1, <2>2
<1> HIDE DEF v, b, ds, code, n, f
<1>12. /\ Grown(H, R) /\ DOMAIN heap = Ids /\ H[f] = v /\ \A o : o # f => H[o] = heap[o]
  BY <1>3, <1>4, <1>5, GrownBlank
<1>13. code # f /\ b # f /\ H[code] = heap[code] /\ H[b] = heap[b]
  BY <1>3, <1>9, <1>12
<1>14. Records(H) /\ Begun(H, <<>>, R) /\ Alike(heap, H)
  BY <1>12 DEF Grown
<1> HIDE DEF H
<1>15. ASSUME NEW o \in Ids
       PROVE  /\ P[o] = One(o \in Statics) + One(o = Main) + 2 * Occ(ds, o) + One(o = f)
              /\ P[o] \in Nat /\ R[o] = P[o] + 2 * One(o = code)
              /\ Q[o] = One(o \in Statics) + One(o = Main) + 2 * Occ(ds, o)
              /\ R[o] \in Nat
  <2> DEFINE x == Occ(ds, o)
             y == One(o = code)
             s == One(o \in Statics)
             m == One(o = Main)
             w == One(o = f)
             r == R[o]
             p == P[o]
             q == Q[o]
             t == Root[o]
  <2>1. t = s + m + 2 * x + 2 * y /\ x \in Nat
    BY <1>10
  <2>2. r = t + w /\ q = p - w
    BY MoreAt, LessAt
  <2>3. p = r - 2 * y
    OBVIOUS
  <2>4. y \in Nat /\ s \in Nat /\ m \in Nat /\ w \in Nat
    BY OneType
  <2> HIDE DEF x, y, s, m, w, r, p, q, t
  <2>5. p = s + m + 2 * x + w /\ p \in Nat /\ r = p + 2 * y /\ q = s + m + 2 * x /\ r \in Nat
    BY <2>1, <2>2, <2>3, <2>4
  <2> QED
    BY <2>5 DEF x, y, s, m, w, r, p, q
<1>16. R[f] > 0 /\ P[f] > 0 /\ P[b] > 0
  <2>1. One(f = f) = 1 /\ \A c : One(c) \in Nat
    BY OneType DEF One
  <2>2. P[f] = One(f \in Statics) + One(f = Main) + 2 * Occ(ds, f) + One(f = f)
        /\ Occ(ds, f) \in Nat /\ R[f] = P[f] + 2 * One(f = code)
    BY <1>3, <1>10, <1>15
  <2>3. P[b] = One(b \in Statics) + One(b = Main) + 2 * Occ(ds, b) + One(b = f) /\ Occ(ds, b) \in Nat
    BY <1>9, <1>10, <1>15
  <2>4. One(b = Main) = 1 \/ Occ(ds, b) > 0
    BY <1>11 DEF One
  <2> HIDE DEF P, R
  <2>5. P[f] > 0 /\ R[f] > 0
    BY <2>1, <2>2
  <2>6. P[b] > 0
    BY <2>1, <2>3, <2>4
  <2> QED
    BY <2>5, <2>6
<1>17. OnIds(P)
  BY DEF OnIds
<1> HIDE DEF P, R, T3
<1>18. Begun(H, T3, P)
  <2>1. H[f].k = "function" /\ H[f].f = <<NULL>> /\ H[code].k = "block"
    BY <1>5, <1>9, <1>12, <1>13
  <2> QED
    BY <1>3, <1>9, <1>13, <1>14, <1>15, <1>16, <1>17, <2>1, CodeStored DEF T3
<1>19. /\ DEC(code).op = "dec" /\ SET(f, 1, code).op = "set" /\ SET(f, 1, code).o = f
       /\ SET(f, 1, code).x = 1
       /\ Len(T3) = 3 /\ T3[1] = DEC(code) /\ T3[2] = SET(f, 1, code) /\ T3[3] = DEC(code)
  BY ShortSteps DEF T3, DEC, SET
<1>20. Begun(H, T, Q)
  <2>1. Steady(T3, b)
    <3>1. \A i \in 1..3 : i = 1 \/ i = 2 \/ i = 3
      OBVIOUS
    <3> QED
      BY <1>13, <1>19, <3>1 DEF Steady
  <2>2. heap[b].k = "block" /\ Root[b] > 0
    <3>1. /\ Root[b] = One(b \in Statics) + One(b = Main) + 2 * Occ(ds, b) + 2 * One(b = code)
          /\ Occ(ds, b) \in Nat /\ \A c : One(c) \in Nat
      BY <1>9, <1>10, OneType
    <3>2. One(b = Main) = 1 \/ Occ(ds, b) > 0
      BY <1>11 DEF One
    <3> QED
      BY <1>9, <3>1, <3>2
  <2>3. DOMAIN H[b].f = 1..3 /\ IsA(H, H[b].f[3], {"list"})
    BY <1>1, <1>9, <1>13, <1>14, <2>2, GrownBlock
  <2>4. 3 \in DOMAIN H[b].f /\ H[f].k \in Items /\ H[b].f[3] = l
    BY <1>5, <1>12, <1>13, <2>3 DEF Items
  <2>5. Begun(H, T3 \o <<APPEND(H[b].f[3], f), DEC(f)>>, Q)
    BY <1>3, <1>9, <1>16, <1>18, <2>1, <2>3, <2>4, StoredBegun
  <2> QED
    BY <2>4, <2>5
<1>21. Filled(H, T)
  <2>1. T3 \in Seq(Op) /\ <<APPEND(l, f), DEC(f)>> \in Seq(Op)
    <3>1. l \in Ids
      <4>1. Root[b] > 0
        <5>1. /\ Root[b] = One(b \in Statics) + One(b = Main) + 2 * Occ(ds, b) + 2 * One(b = code)
              /\ Occ(ds, b) \in Nat /\ \A c : One(c) \in Nat
          BY <1>9, <1>10, OneType
        <5>2. One(b = Main) = 1 \/ Occ(ds, b) > 0
          BY <1>11 DEF One
        <5> QED
          BY <5>1, <5>2
      <4> QED
        BY <1>1, <1>9, <1>13, <1>14, <4>1, GrownBlock DEF IsA
    <3>2. APPEND(l, f) \in Op /\ DEC(f) \in Op
      BY <1>3, <3>1, OpTypes DEF Maybe
    <3> QED
      BY <1>18, <3>2 DEF Begun
  <2>2. 2 \in 1..Len(T) /\ T[2] = T3[2]
    <3> DEFINE t == <<APPEND(l, f), DEC(f)>>
    <3>1. 2 \in 1..Len(T3)
      BY <1>19
    <3> HIDE DEF t
    <3> QED
      BY <2>1, <3>1, FirstPart DEF t
  <2>3. Stale(T, f, 1)
    BY <1>19, <2>2 DEF Stale
  <2>4. Filled(heap, T)
    BY <1>4
  <2>5. \A x \in DOMAIN v.f : x = 1
    BY <1>5
  <2> HIDE DEF T
  <2> QED
    BY <1>3, <1>12, <2>3, <2>4, <2>5, BirthFilled DEF H
<1>22. Prepared(H, T, Q)
  BY <1>14, <1>20, <1>21, AllOnIds DEF Prepared
<1>23. \A i \in DOMAIN ds : ds[i] \in Ids /\ H[ds[i]].k = "block"
  <2>1. \A i \in DOMAIN ds : i \in DOMAIN defs /\ ds[i] = defs[i]
    BY <1>7, <1>8
  <2>2. \A i \in DOMAIN defs : defs[i] \in Ids /\ heap[defs[i]].k = "block"
    BY <1>4 DEF Anchored
  <2> QED
    BY <1>14, <2>1, <2>2 DEF Alike
<1>24. \A o \in Ids : Q[o] = One(o \in Statics) + One(o = Main) + 2 * Occ(ds, o)
  BY <1>15
<1> HIDE DEF Q, T
<1>25. Holding(H, T, frames, ret, phase, ds, lost)
  BY <1>1, <1>8, <1>22, <1>23, <1>24, CompileCloses
<1> QED
  BY <1>1, <1>6, <1>25 DEF IInv

\* Three new objects.
LEMMA ThreeFresh ==
    ASSUME NEW k \in Nat, k > 2, Room(k), NEW a, a = Fresh({}), NEW b, b = Fresh({a}),
           NEW c, c = Fresh({a, b})
    PROVE  /\ a \in Ids /\ b \in Ids /\ c \in Ids /\ a # b /\ a # c /\ b # c
           /\ heap[a].k = "free" /\ heap[b].k = "free" /\ heap[c].k = "free"
<1>1. k > 0 /\ k > 1
  OBVIOUS
<1>2. Unused # {} /\ (\A x : Unused \ {x} # {}) /\ \A x, y : Unused \ {x, y} # {}
  BY <1>1, RoomFor
<1>3. a \in Ids /\ heap[a].k = "free"
  <2>1. {} \in SUBSET Ids /\ Unused \ {} # {}
    BY <1>2
  <2> QED
    BY <2>1, FreshIn
<1>4. b \in Ids \ {a} /\ heap[b].k = "free"
  <2>1. {a} \in SUBSET Ids /\ Unused \ {a} # {}
    BY <1>2, <1>3
  <2> QED
    BY <2>1, FreshIn
<1>5. c \in Ids \ {a, b} /\ heap[c].k = "free"
  <2>1. {a, b} \in SUBSET Ids /\ Unused \ {a, b} # {}
    BY <1>2, <1>3, <1>4
  <2> QED
    BY <2>1, FreshIn
<1> QED
  BY <1>3, <1>4, <1>5

LEMMA FreshThree ==
    ASSUME NEW k \in Nat, k > 2, Room(k)
    PROVE  LET a == Fresh({})
               b == Fresh({a})
               c == Fresh({a, b})
           IN  /\ a \in Ids /\ b \in Ids /\ c \in Ids /\ a # b /\ a # c /\ b # c
               /\ heap[a].k = "free" /\ heap[b].k = "free" /\ heap[c].k = "free"
<1> DEFINE a == Fresh({})
           b == Fresh({a})
           c == Fresh({a, b})
<1>1. a = Fresh({}) /\ b = Fresh({a}) /\ c = Fresh({a, b})
  OBVIOUS
<1> HIDE DEF a, b, c
<1>2. /\ a \in Ids /\ b \in Ids /\ c \in Ids /\ a # b /\ a # c /\ b # c
      /\ heap[a].k = "free" /\ heap[b].k = "free" /\ heap[c].k = "free"
  BY <1>1, ThreeFresh
<1> QED
  BY <1>2, Zenon DEF a, b, c

LEMMA OccTriple ==
    ASSUME NEW S, NEW a \in S, NEW b \in S, NEW c \in S, NEW o
    PROVE  Occ(<<a, b, c>>, o) = One(a = o) + One(b = o) + One(c = o)
<1> DEFINE t == <<a>>
           u == <<a, b>>
<1>1. t \in Seq(S) /\ u \in Seq(S)
  OBVIOUS
<1>2. u = Append(t, b) /\ <<a, b, c>> = Append(u, c)
  OBVIOUS
<1>6. ASSUME NEW s \in Seq(S), NEW x \in S 
      PROVE  /\ Occ(Append(s, x), o) = Occ(s, o) + One(x = o)
             /\ Occ(<<x>> \o s, o) = Occ(s, o) + One(x = o)
  BY OccAppend
<1>3. Occ(t, o) = One(a = o)
  BY OccShort
<1> HIDE DEF t, u
<1>4. Occ(Append(t, b), o) = Occ(t, o) + One(b = o)
  BY <1>1, <1>6, Zenon
<1>5. Occ(Append(u, c), o) = Occ(u, o) + One(c = o)
  BY <1>1, <1>6, Zenon
<1> QED
  BY <1>2, <1>3, <1>4, <1>5

\* A new block of which only the constants are there.
HeadBlock(c) == New("block", <<NULL, NULL, c>>)

LEMMA HeadBlockFields ==
    ASSUME NEW c \in Ids
    PROVE  /\ HeadBlock(c).k = "block" /\ HeadBlock(c).rc = 1 /\ Boxed(HeadBlock(c))
           /\ DOMAIN HeadBlock(c).f = 1..3 /\ HeadBlock(c).f[3] = c
           /\ HeadBlock(c).f[1] = NULL /\ HeadBlock(c).f[2] = NULL
           /\ \A o \in Ids : Occ(HeadBlock(c).f, o) = One(o = c)
<1>1. HeadBlock(c).f = <<NULL, NULL, c>> /\ HeadBlock(c).k = "block" /\ HeadBlock(c).rc = 1
  BY DEF HeadBlock, New
<1>2. Boxed(HeadBlock(c))
  BY DEF HeadBlock, New, Boxed
<1>3. ASSUME NEW o \in Ids PROVE Occ(<<NULL, NULL, c>>, o) = One(o = c)
  <2>1. NULL # o
    BY IdsFinite
  <2>2. NULL \in Maybe /\ c \in Maybe
    BY DEF Maybe
  <2>3. Occ(<<NULL, NULL, c>>, o) = One(NULL = o) + One(NULL = o) + One(c = o)
    BY <2>2, OccTriple
  <2>7. One(NULL = o) = 0 /\ One(c = o) = One(o = c) /\ One(o = c) \in Nat
    BY <2>1 DEF One
  <2> QED
    BY <2>3, <2>7
<1>4. /\ DOMAIN <<NULL, NULL, c>> = 1..3 /\ <<NULL, NULL, c>>[3] = c
      /\ <<NULL, NULL, c>>[1] = NULL /\ <<NULL, NULL, c>>[2] = NULL
  OBVIOUS
<1> QED
  BY <1>1, <1>2, <1>3, <1>4

LEMMA GrownHead ==
    ASSUME NEW H, NEW R, Grown(H, R), NEW n \in Ids, H[n].k = "free",
           NEW c \in Ids, c # n, H[c].k = "list", R[c] > 0
    PROVE  /\ Grown(Birth(H, n, HeadBlock(c)), Less(More(R, n), c)) /\ DOMAIN H = Ids
           /\ Birth(H, n, HeadBlock(c))[n] = HeadBlock(c)
           /\ \A o : o # n => Birth(H, n, HeadBlock(c))[o] = H[o]
<1> DEFINE v == HeadBlock(c)
           G == Birth(H, n, v)
           Q == Less(More(R, n), c)
<1>1. /\ v.k = "block" /\ v.rc = 1 /\ Boxed(v) /\ DOMAIN v.f = 1..3 /\ v.f[3] = c
      /\ v.f[1] = NULL /\ v.f[2] = NULL /\ \A o \in Ids : Occ(v.f, o) = One(o = c)
  BY HeadBlockFields
<1> HIDE DEF v
<1>2. Records(H) /\ Begun(H, <<>>, R) /\ Alike(heap, H)
  BY DEF Grown
<1>3. Records(G) /\ DOMAIN H = Ids /\ G[n] = v /\ \A o : o # n => G[o] = H[o]
  BY <1>1, <1>2, BirthRecords
<1>4. Bears(H, R, n, v, Q)
  <2>1. ASSUME NEW o \in Ids
        PROVE  Q[o] \in Nat /\ Q[o] + Occ(v.f, o) = R[o] + IF o = n THEN v.rc ELSE 0
    <3> DEFINE x == One(o = n)
               y == One(o = c)
               r == R[o]
               q == Q[o]
    <3>1. More(R, n)[o] = R[o] + One(o = n) /\ Q[o] = More(R, n)[o] - One(o = c)
      BY MoreAt, LessAt
    <3>3. r \in Nat /\ x \in 0..1 /\ y \in 0..1 /\ (o = c => r > 0) /\ (y = 1 <=> o = c)
      BY <1>2, OneType DEF Begun
    <3>4. x = IF o = n THEN v.rc ELSE 0
      BY <1>1 DEF One
    <3>5. Occ(v.f, o) = y
      BY <1>1
    <3> DEFINE w == More(R, n)[o]
    <3>2. w = r + x /\ q = w - y
      BY <3>1
    <3> HIDE DEF x, y, r, q, w
    <3>6. q \in Nat /\ q + y = r + x
      <4>1. w \in Nat /\ w = r + x
        BY <3>2, <3>3
      <4>2. y = 1 => r > 0
        BY <3>3
      <4> QED
        BY <3>2, <3>3, <4>1, <4>2
    <3> QED
      BY <3>4, <3>5, <3>6 DEF q, r
  <2> QED
    BY <2>1 DEF Bears
<1>5. Drafted(G, n)
  <2>1. G[c].k = "list"
    BY <1>3
  <2>2. Framed(G, n) /\ G[n].k # "free"
    BY <1>1, <1>3 DEF Framed
  <2>3. Accepts(G, n, 3, c)
    BY <1>1, <1>3, <2>1 DEF Accepts, IsA
  <2>4. \A x \in 1..3 : x = 1 \/ x = 2 \/ x = 3
    OBVIOUS
  <2> HIDE DEF G
  <2> QED
    BY <1>1, <1>3, <2>2, <2>3, <2>4 DEF Drafted
<1>6. Begun(G, <<>>, Q)
  <2>1. v.rc \in Nat \ {0}
    BY <1>1
  <2> HIDE DEF Q
  <2> QED
    BY <1>2, <1>3, <1>4, <1>5, <2>1, NewBegun
<1>7. Alike(heap, G)
  <2>1. heap[n].k = "free"
    BY <1>2 DEF Alike
  <2> QED
    BY <1>2, <1>3, <2>1, BirthAlike
<1> QED
  BY <1>3, <1>6, <1>7 DEF Grown, v, G, Q

\* A new block gets its globals and its locals.
LEMMA HeadFilled ==
    ASSUME NEW H, NEW R, Begun(H, <<>>, R), NEW l \in Ids, H[l].k = "block",
           DOMAIN H[l].f = 1..3, H[l].f[1] = NULL, H[l].f[2] = NULL, R[l] > 0,
           NEW b \in Ids, b # l, R[b] > 0, DOMAIN H[b].f = 1..3, IsA(H, H[b].f[2], {"map"}),
           NEW m \in Ids, m # l, H[m].k = "map", R[m] > 0
    PROVE  Begun(H, <<SET(l, 2, H[b].f[2]), SET(l, 1, m), DEC(m), INC(l)>>,
                 More(Less(R, m), l))
<1> DEFINE g == H[b].f[2]
           s == SET(l, 2, g)
           t == SET(l, 1, m)
           T1 == <<s>>
           T2 == <<s, t>>
           T3 == <<s, t, DEC(m)>>
           T4 == <<s, t, DEC(m), INC(l)>>
           R1 == Less(R, m)
<1>1. /\ s.op = "set" /\ s.o = l /\ s.x = 2 /\ s.v = g
      /\ t.op = "set" /\ t.o = l /\ t.x = 1 /\ t.v = m
  BY OpFields
<1>2. g \in Ids /\ 2 \in DOMAIN H[b].f /\ 2 \in DOMAIN H[l].f
  BY DEF IsA
<1>3. Begun(H, T1, R)
  <2>1. T1 = Plus(<<>>, s)
    BY List1
  <2>2. Unrelied(H, <<>>, s) /\ Lone(<<>>, s)
    <3>1. \A i \in 1..Len(<<>>) : FALSE
      BY EmptyTodo
    <3> QED
      BY <3>1 DEF Unrelied, Lone
  <2>3. Backed(H, <<>>, s, R, l) /\ Backed(H, <<>>, s, R, b)
    BY BackRoot
  <2>4. Backed(H, <<>>, s, R, g)
    <3>1. Elsewhere(s, b) /\ Steady(<<>>, b)
      BY <1>1, EmptySteady DEF Elsewhere
    <3> HIDE DEF s, g
    <3> QED
      BY <1>2, <2>3, <3>1, BackField DEF g
  <2>5. Accepts(H, l, 2, g) /\ H[l].k # "list" /\ H[l].f[2] = NULL /\ 2 \in 1..3
    BY DEF Accepts
  <2> HIDE DEF T1, g
  <2>6. Begun(H, Plus(<<>>, s), R)
    BY <1>2, <2>2, <2>3, <2>4, <2>5, AddSet
  <2> QED
    BY <2>1, <2>6
<1>4. Begun(H, T2, R)
  <2>1. T2 = Plus(T1, t)
    BY List2
  <2>2. Len(T1) = 1 /\ T1[1] = s /\ \A i \in 1..1 : i = 1
    OBVIOUS
  <2> HIDE DEF T1, T2, g, s, t
  <2>3. ~Steady(T1, l)
    BY <1>1, <2>2 DEF Steady
  <2>4. Unrelied(H, T1, t)
    BY <1>1, <2>3 DEF Unrelied, Holds
  <2>5. Lone(T1, t)
    BY <1>1, <2>2 DEF Lone
  <2>6. Backed(H, T1, t, R, l) /\ Backed(H, T1, t, R, m)
    BY <1>3, BackRoot
  <2>7. Accepts(H, l, 1, m) /\ H[l].k # "list" /\ H[l].f[1] = NULL /\ 1 \in 1..3
    BY DEF Accepts, IsA
  <2>8. Begun(H, Plus(T1, t), R)
    BY <1>3, <2>4, <2>5, <2>6, <2>7, AddSet DEF t
  <2> QED
    BY <2>1, <2>8
<1>5. Begun(H, T3, R1)
  <2>1. T3 = Plus(T2, DEC(m)) /\ m \in Maybe
    BY List3 DEF Maybe
  <2> QED
    BY <1>4, <2>1, AddDec
<1>6. R1[l] > 0
  <2>1. One(l = m) = 0 /\ R[l] \in Nat
    BY DEF One, Begun
  <2> QED
    BY <2>1, LessAt
<1>7. Begun(H, T4, More(R1, l))
  <2>1. T4 = Plus(T3, INC(l))
    BY List4
  <2> HIDE DEF R1, T3, T4
  <2>2. Backed(H, T3, INC(l), R1, l)
    BY <1>5, <1>6, BackRoot
  <2> QED
    BY <1>5, <2>1, <2>2, AddInc
<1> QED
  BY <1>7

LEMMA EnterFunctionHolds == ASSUME IInv, EnterFunction PROVE IInv'
<1> DEFINE m == Fresh({})
           c == Fresh({m})
           l == Fresh({m, c})
           b == Compiled
           u == New("map", EmptyMap)
           v == New("list", <<>>)
           H1 == Birth(heap, m, u)
           H2 == Birth(H1, c, v)
           H == Birth(H2, l, HeadBlock(c))
           R1 == More(Root, m)
           R2 == More(R1, c)
           R == Less(More(R2, l), c)
           Q == More(Less(R, m), l)
           T == <<SET(l, 2, heap[b].f[2]), SET(l, 1, m), DEC(m), INC(l)>>
           ds == Append(defs, l)
<1>1. /\ Ready("compile") /\ Room(4) /\ defs' = ds /\ todo' = T
      /\ heap' = [heap EXCEPT ![m] = u, ![c] = v, ![l] = HeadBlock(c)]
      /\ UNCHANGED <<phase, frames, ret, lost>>
  BY DEF EnterFunction, GlobalsOf, Field, HeadBlock
<1>2. heap' = H
  BY <1>1 DEF Birth
<1>3. /\ m \in Ids /\ c \in Ids /\ l \in Ids /\ m # c /\ m # l /\ c # l
      /\ heap[m].k = "free" /\ heap[c].k = "free" /\ heap[l].k = "free"
  <2>1. 4 \in Nat /\ 4 > 2
    OBVIOUS
  <2> QED
    BY <1>1, <2>1, FreshThree, ZenonT(30)
<1>4. /\ Grown(heap, Root) /\ (\A U : Filled(heap, U)) /\ defs \in Seq(Ids)
      /\ b \in Ids /\ heap[b].k = "block" /\ Root[b] > 0
      /\ Anchored(heap, frames, ret, phase, defs)
  BY <1>1, Compiles
<1>5. /\ u \in Blanks /\ v \in Blanks /\ u.k = "map" /\ v.k = "list"
  BY DEF Blanks, New
<1>6. /\ HeadBlock(c).k = "block" /\ DOMAIN HeadBlock(c).f = 1..3
      /\ HeadBlock(c).f[1] = NULL /\ HeadBlock(c).f[2] = NULL /\ HeadBlock(c).f[3] = c
  BY <1>3, HeadBlockFields
<1> HIDE DEF m, c, l, b, u, v
<1>7. /\ Grown(H1, R1) /\ DOMAIN heap = Ids /\ H1[m] = u /\ \A o : o # m => H1[o] = heap[o]
  BY <1>3, <1>4, <1>5, GrownBlank
<1>8. H1[c].k = "free" /\ H1[l].k = "free"
  BY <1>3, <1>7
<1> HIDE DEF H1
<1>9. /\ Grown(H2, R2) /\ DOMAIN H1 = Ids /\ H2[c] = v /\ \A o : o # c => H2[o] = H1[o]
  BY <1>3, <1>5, <1>7, <1>8, GrownBlank
<1>10. H2[l].k = "free" /\ H2[c].k = "list"
  BY <1>3, <1>5, <1>8, <1>9
<1> HIDE DEF H2
<1>11. ASSUME NEW o \in Ids
       PROVE  /\ Root[o] \in Nat /\ R1[o] = Root[o] + One(o = m) /\ R2[o] = R1[o] + One(o = c)
              /\ More(R2, l)[o] = R2[o] + One(o = l) /\ R[o] = More(R2, l)[o] - One(o = c)
              /\ Q[o] = Less(R, m)[o] + One(o = l) /\ Less(R, m)[o] = R[o] - One(o = m)
              /\ One(o = m) \in Nat /\ One(o = c) \in Nat /\ One(o = l) \in Nat
  <2>1. Root[o] \in Nat
    BY <1>1, CompileRoots
  <2>2. One(o = m) \in Nat /\ One(o = c) \in Nat /\ One(o = l) \in Nat
    BY OneType
  <2>3. R1[o] = Root[o] + One(o = m) /\ R2[o] = R1[o] + One(o = c)
        /\ More(R2, l)[o] = R2[o] + One(o = l) /\ Q[o] = Less(R, m)[o] + One(o = l)
    BY MoreAt
  <2>4. R[o] = More(R2, l)[o] - One(o = c) /\ Less(R, m)[o] = R[o] - One(o = m)
    BY LessAt
  <2> HIDE DEF R1, R2, R, Q
  <2> QED
    BY <2>1, <2>2, <2>3, <2>4
<1>12. OnIds(Q)
  BY AllOnIds
<1> HIDE DEF R1, R2, Q
<1>13. ASSUME NEW o \in Ids
       PROVE  /\ R2[o] = Root[o] + One(o = m) + One(o = c) /\ R2[o] \in Nat
              /\ R[o] = Root[o] + One(o = m) + One(o = l)
              /\ Q[o] = Root[o] + 2 * One(o = l)
  <2> DEFINE t == Root[o]
             x == One(o = m)
             y == One(o = c)
             z == One(o = l)
             r1 == R1[o]
             r2 == R2[o]
             r3 == More(R2, l)[o]
             r == R[o]
             p == Less(R, m)[o]
             q == Q[o]
  <2>1. /\ t \in Nat /\ x \in Nat /\ y \in Nat /\ z \in Nat
        /\ r1 = t + x /\ r2 = r1 + y /\ r3 = r2 + z /\ r = r3 - y /\ p = r - x /\ q = p + z
    BY <1>11
  <2> HIDE DEF t, x, y, z, r1, r2, r3, r, p, q
  <2>2. r2 = t + x + y /\ r2 \in Nat /\ r = t + x + z /\ q = t + 2 * z
    BY <2>1
  <2> QED
    BY <2>2 DEF t, x, y, z, r2, r, q
<1>14. One(m = m) = 1 /\ One(c = c) = 1 /\ One(l = l) = 1 /\ One(c = m) = 0 /\ One(l = m) = 0
       /\ One(m = l) = 0 /\ One(b = m) \in Nat /\ One(b = l) \in Nat
  BY <1>3, OneType DEF One
<1>15. R2[c] > 0
  BY <1>3, <1>11, <1>13, <1>14
<1>16. /\ Grown(H, R) /\ DOMAIN H2 = Ids /\ H[l] = HeadBlock(c)
       /\ \A o : o # l => H[o] = H2[o]
  BY <1>3, <1>9, <1>10, <1>15, GrownHead
<1> HIDE DEF H, R
<1>17. R[l] > 0 /\ R[m] > 0 /\ R[b] > 0
  <2>1. R[l] = Root[l] + 0 + 1 /\ R[m] = Root[m] + 1 + 0 /\ R[b] = Root[b] + One(b = m) + One(b = l)
    BY <1>3, <1>4, <1>13, <1>14
  <2>2. Root[l] \in Nat /\ Root[m] \in Nat /\ Root[b] \in Nat
    BY <1>3, <1>4, <1>11
  <2> QED
    BY <1>4, <1>14, <2>1, <2>2
<1>18. Records(H) /\ Begun(H, <<>>, R) /\ Alike(heap, H)
  BY <1>16 DEF Grown
<1>19. b # m /\ b # c /\ b # l /\ H[b] = heap[b] /\ H[m].k = "map"
  BY <1>3, <1>4, <1>5, <1>7, <1>9, <1>16
<1>20. Begun(H, T, Q)
  <2>1. DOMAIN H[b].f = 1..3 /\ IsA(H, H[b].f[2], {"map"})
    BY <1>1, <1>4, <1>18, <1>19, GrownBlock
  <2>2. H[l].k = "block" /\ DOMAIN H[l].f = 1..3 /\ H[l].f[1] = NULL /\ H[l].f[2] = NULL
    BY <1>6, <1>16
  <2>3. Begun(H, <<SET(l, 2, H[b].f[2]), SET(l, 1, m), DEC(m), INC(l)>>, Q)
    BY <1>3, <1>4, <1>17, <1>18, <1>19, <2>1, <2>2, HeadFilled DEF Q
  <2> QED
    BY <1>19, <2>3
<1>21. Filled(H, T)
  <2>1. Filled(H1, T)
    <3>1. u.k \notin {"block", "function"} /\ Filled(heap, T)
      BY <1>4, <1>5
    <3> HIDE DEF T
    <3> QED
      BY <1>3, <1>7, <3>1, BlankFilled DEF H1
  <2>2. Filled(H2, T)
    <3>1. v.k \notin {"block", "function"}
      BY <1>5
    <3> HIDE DEF T
    <3> QED
      BY <1>3, <1>9, <2>1, <3>1, BlankFilled DEF H2
  <2>3. Stale(T, l, 1) /\ Stale(T, l, 2)
    <3> DEFINE s == SET(l, 2, heap[b].f[2])
               t == SET(l, 1, m)
    <3>1. s.op = "set" /\ s.o = l /\ s.x = 2 /\ t.op = "set" /\ t.o = l /\ t.x = 1
      BY OpFields
    <3>2. 1 \in 1..Len(T) /\ T[1] = s /\ 2 \in 1..Len(T) /\ T[2] = t
      OBVIOUS
    <3> HIDE DEF T, s, t
    <3> QED
      BY <3>1, <3>2 DEF Stale
  <2>4. c # NULL /\ \A x \in 1..3 : x = 1 \/ x = 2 \/ x = 3
    BY <1>3, IdsFinite
  <2> HIDE DEF T
  <2>5. \A x \in DOMAIN HeadBlock(c).f : HeadBlock(c).f[x] = NULL => Stale(T, l, x)
    BY <1>6, <2>3, <2>4
  <2> QED
    BY <1>3, <1>16, <2>2, <2>5, BirthFilled DEF H
<1> HIDE DEF T
<1>22. Prepared(H, T, Q)
  BY <1>12, <1>18, <1>20, <1>21 DEF Prepared
<1>23. ds \in Seq(Ids) /\ \A i \in DOMAIN ds : H[ds[i]].k = "block"
  <2>1. \A i \in 1..Len(defs) : defs[i] \in Ids /\ heap[defs[i]].k = "block"
    BY <1>4 DEF Anchored
  <2>2. ds \in Seq(Ids) /\ Len(ds) = Len(defs) + 1 /\ ds[Len(defs) + 1] = l
        /\ \A i \in 1..Len(defs) : ds[i] = defs[i]
    BY <1>3, <1>4
  <2>3. H[l].k = "block"
    BY <1>6, <1>16
  <2>4. \A i \in 1..Len(defs) : H[defs[i]].k = "block"
    BY <1>18, <2>1 DEF Alike
  <2>5. DOMAIN ds = 1..Len(defs) + 1 /\ Len(defs) \in Nat
    BY <1>4, <2>2
  <2> HIDE DEF ds
  <2>6. \A i \in 1..Len(defs) + 1 : i \in 1..Len(defs) \/ i = Len(defs) + 1
    BY <2>5
  <2> QED
    BY <2>2, <2>3, <2>4, <2>5, <2>6
<1>24. ASSUME NEW o \in Ids
       PROVE  Q[o] = One(o \in Statics) + One(o = Main) + 2 * Occ(ds, o)
  <2> DEFINE x == Occ(defs, o)
             y == One(o = l)
             s == One(o \in Statics)
             t == One(o = Main)
             w == Occ(ds, o)
             q == Q[o]
             r == Root[o]
  <2>1. w = x + y
    BY <1>3, <1>4, OccPlus
  <2>2. r = s + t + 2 * x /\ x \in Nat
    BY <1>1, CompileRoots
  <2>3. q = r + 2 * y
    BY <1>13
  <2>4. y \in Nat /\ s \in Nat /\ t \in Nat
    BY OneType
  <2> HIDE DEF x, y, s, t, w, q, r
  <2>5. q = s + t + 2 * w
    BY <2>1, <2>2, <2>3, <2>4
  <2> QED
    BY <2>5 DEF q, s, t, w
<1> HIDE DEF ds
<1>25. Holding(H, T, frames, ret, phase, ds, lost)
  BY <1>1, <1>22, <1>23, <1>24, CompileCloses
<1> QED
  BY <1>1, <1>2, <1>25 DEF IInv

-----------------------------------------------------------------------------
(* The arguments of a function become the items of a list.                   *)

Without(R, s) == [o \in Ids |-> R[o] - Occ(s, o)]
\* s is a list of items that have roots of their own besides l.
Spare(H, R, l, s) ==
    /\ s \in Seq(Ids) /\ \A i \in 1..Len(s) : H[s[i]].k \in Items
    /\ \A o \in Ids : R[o] >= Occ(s, o) + One(o = l)

LEMMA CollectType ==
    ASSUME NEW l \in Ids, NEW s \in Seq(Ids)
    PROVE  /\ Collect(l, s) \in Seq(Op) /\ Len(Collect(l, s)) = 2 * Len(s)
           /\ \A j \in 1..2 * Len(s) :
                 Collect(l, s)[j] =
                    IF j % 2 = 1 THEN PREPEND(l, s[Len(s) + 1 - (j + 1) \div 2])
                    ELSE DEC(s[Len(s) + 1 - (j + 1) \div 2])
<1> DEFINE n == Len(s)
           C == Collect(l, s)
           at(j) == s[n + 1 - (j + 1) \div 2]
<1>1. n \in Nat /\ \A i \in 1..n : s[i] \in Ids
  OBVIOUS
<1>2. ASSUME NEW j \in 1..2 * n PROVE n + 1 - (j + 1) \div 2 \in 1..n
  BY <1>1, <1>2
<1>3. \A j \in 1..2 * n : at(j) \in Ids
  BY <1>1, <1>2
<1>4. C = [j \in 1..2 * n |-> IF j % 2 = 1 THEN PREPEND(l, at(j)) ELSE DEC(at(j))]
  BY Zenon DEF Collect
<1> HIDE DEF at, C
<1>5. \A j \in 1..2 * n : PREPEND(l, at(j)) \in Op /\ DEC(at(j)) \in Op
  BY <1>3, OpTypes DEF Maybe
<1>6. \A j \in 1..2 * n : C[j] = (IF j % 2 = 1 THEN PREPEND(l, at(j)) ELSE DEC(at(j)))
  BY <1>4
<1>7. \A j \in 1..2 * n : C[j] \in Op
  BY <1>5, <1>6
<1>8. C = [j \in 1..2 * n |-> C[j]]
  BY <1>4, <1>6, Zenon
<1>9. 2 * n \in Nat
  BY <1>1
<1> HIDE DEF n
<1>10. C \in Seq(Op) /\ Len(C) = 2 * n
  <2> DEFINE k == 2 * n
  <2>1. k \in Nat
    BY <1>9
  <2> HIDE DEF k
  <2>2. (\A j \in 1..k : C[j] \in Op) /\ C = [j \in 1..k |-> C[j]]
    BY <1>7, <1>8 DEF k
  <2>3. C \in Seq(Op) /\ Len(C) = k
    BY <2>1, <2>2
  <2> QED
    BY <2>3 DEF k
<1> QED
  BY <1>6, <1>10 DEF C, at, n

LEMMA PlusParts ==
    ASSUME NEW T \in Seq(Op), NEW s \in Op
    PROVE  /\ Plus(T, s) \in Seq(Op) /\ Len(Plus(T, s)) = Len(T) + 1 /\ Plus(T, s)[Len(T) + 1] = s
           /\ \A i \in 1..Len(T) : Plus(T, s)[i] = T[i]
  BY DEF Plus

\* The first argument comes last.
LEMMA CollectMore ==
    ASSUME NEW l \in Ids, NEW s \in Seq(Ids), NEW a \in Ids
    PROVE  Collect(l, <<a>> \o s) = Plus(Plus(Collect(l, s), PREPEND(l, a)), DEC(a))
<1> DEFINE t == <<a>> \o s
           n == Len(s)
           C == Collect(l, s)
           D == Collect(l, t)
           E == Plus(C, PREPEND(l, a))
           F == Plus(E, DEC(a))
           k == 2 * n
<1>1. /\ t \in Seq(Ids) /\ Len(t) = n + 1 /\ t[1] = a /\ n \in Nat
      /\ \A i \in 1..n : t[i + 1] = s[i]
  OBVIOUS
<1> HIDE DEF t
<1>2. C \in Seq(Op) /\ Len(C) = k /\ D \in Seq(Op) /\ Len(D) = k + 2 /\ k \in Nat
  <2>1. 2 * (n + 1) = k + 2 /\ k \in Nat
    BY <1>1
  <2> HIDE DEF n, k
  <2> QED
    BY <1>1, <2>1, CollectType DEF n, k
<1>3. PREPEND(l, a) \in Op /\ DEC(a) \in Op
  BY OpTypes DEF Maybe
<1> HIDE DEF C, D
<1>4. E \in Seq(Op) /\ Len(E) = k + 1 /\ E[k + 1] = PREPEND(l, a) /\ \A i \in 1..k : E[i] = C[i]
  <2> DEFINE p == PREPEND(l, a)
  <2>1. p \in Op
    BY <1>3
  <2> HIDE DEF p, k
  <2>2. /\ Plus(C, p) \in Seq(Op) /\ Len(Plus(C, p)) = Len(C) + 1 /\ Plus(C, p)[Len(C) + 1] = p
        /\ \A i \in 1..Len(C) : Plus(C, p)[i] = C[i]
    BY <1>2, <2>1, PlusParts, Zenon
  <2>3. E = Plus(C, p)
    BY Zenon DEF p
  <2> HIDE DEF E
  <2> QED
    BY <1>2, <2>2, <2>3 DEF p
<1> HIDE DEF E
<1>5. /\ F \in Seq(Op) /\ Len(F) = k + 2 /\ F[k + 2] = DEC(a) /\ F[k + 1] = PREPEND(l, a)
      /\ \A i \in 1..k : F[i] = C[i]
  <2> DEFINE q == DEC(a)
  <2>4. q \in Op
    BY <1>3
  <2> HIDE DEF q
  <2>5. /\ Plus(E, q) \in Seq(Op) /\ Len(Plus(E, q)) = Len(E) + 1 /\ Plus(E, q)[Len(E) + 1] = q
        /\ \A i \in 1..Len(E) : Plus(E, q)[i] = E[i]
    BY <1>4, <2>4, PlusParts, Zenon
  <2>6. F = Plus(E, q)
    BY Zenon DEF q
  <2>1. F \in Seq(Op) /\ Len(F) = k + 1 + 1 /\ F[k + 1 + 1] = DEC(a)
    <3> HIDE DEF F, k
    <3> QED
      BY <1>4, <2>5, <2>6 DEF q
  <2>2. \A i \in 1..k + 1 : F[i] = E[i]
    <3> HIDE DEF F, k
    <3> QED
      BY <1>4, <2>5, <2>6
  <2>3. k + 1 + 1 = k + 2 /\ k + 1 \in 1..k + 1 /\ \A i \in 1..k : i \in 1..k + 1
    BY <1>2
  <2> HIDE DEF F, k
  <2> QED
    BY <1>4, <2>1, <2>2, <2>3
<1> HIDE DEF F
<1>6. \A j \in 1..k + 2 :
         D[j] = IF j % 2 = 1 THEN PREPEND(l, t[n + 2 - (j + 1) \div 2])
                ELSE DEC(t[n + 2 - (j + 1) \div 2])
  <2>1. 2 * Len(t) = k + 2 /\ \A j \in 1..k + 2 : Len(t) + 1 - (j + 1) \div 2 = n + 2 - (j + 1) \div 2
    BY <1>1
  <2>2. \A j \in 1..2 * Len(t) :
         D[j] = IF j % 2 = 1 THEN PREPEND(l, t[Len(t) + 1 - (j + 1) \div 2])
                ELSE DEC(t[Len(t) + 1 - (j + 1) \div 2])
    BY <1>1, CollectType DEF D
  <2> HIDE DEF k, n
  <2> QED
    BY <2>1, <2>2
<1>7. \A j \in 1..k :
         C[j] = IF j % 2 = 1 THEN PREPEND(l, s[n + 1 - (j + 1) \div 2])
                ELSE DEC(s[n + 1 - (j + 1) \div 2])
  BY CollectType DEF C
<1>8. ASSUME NEW j \in 1..k PROVE D[j] = F[j]
  <2>1. n + 1 - (j + 1) \div 2 \in 1..n /\ n + 2 - (j + 1) \div 2 = (n + 1 - (j + 1) \div 2) + 1
    BY <1>1
  <2>2. t[n + 2 - (j + 1) \div 2] = s[n + 1 - (j + 1) \div 2]
    BY <1>1, <2>1
  <2>3. j \in 1..k + 2
    BY <1>2
  <2> QED
    BY <1>5, <1>6, <1>7, <2>2, <2>3
<1>9. D[k + 1] = F[k + 1] /\ D[k + 2] = F[k + 2]
  <2>1. /\ (k + 1) % 2 = 1 /\ (k + 2) % 2 = 0
        /\ n + 2 - (k + 1 + 1) \div 2 = 1 /\ n + 2 - (k + 2 + 1) \div 2 = 1
    BY <1>1
  <2>2. k + 1 \in 1..k + 2 /\ k + 2 \in 1..k + 2
    BY <1>2
  <2>3. D[k + 1] = PREPEND(l, t[1]) /\ D[k + 2] = DEC(t[1])
    <3> HIDE DEF k
    <3>1. D[k + 1] = IF (k + 1) % 2 = 1 THEN PREPEND(l, t[n + 2 - (k + 1 + 1) \div 2])
                     ELSE DEC(t[n + 2 - (k + 1 + 1) \div 2])
      BY <1>6, <2>2, Zenon
    <3>2. D[k + 2] = IF (k + 2) % 2 = 1 THEN PREPEND(l, t[n + 2 - (k + 2 + 1) \div 2])
                     ELSE DEC(t[n + 2 - (k + 2 + 1) \div 2])
      BY <1>6, <2>2, Zenon
    <3> QED
      BY <2>1, <3>1, <3>2
  <2> QED
    BY <1>1, <1>5, <2>3
<1>10. \A j \in 1..k + 2 : D[j] = F[j]
  <2>1. \A j \in 1..k + 2 : j \in 1..k \/ j = k + 1 \/ j = k + 2
    BY <1>2, SMTT(30)
  <2> HIDE DEF k
  <2> QED
    BY <1>8, <1>9, <2>1
<1> HIDE DEF k
<1> QED
  <2>1. D = F
    BY <1>2, <1>5, <1>10
  <2> QED
    BY <2>1 DEF D, F, E, C, t

LEMMA CollectStep ==
    ASSUME NEW H, NEW R, NEW l \in Ids, H[l].k = "list",
           NEW s \in Seq(Ids), NEW a \in Ids, Spare(H, R, l, <<a>> \o s),
           Begun(H, Collect(l, s), Without(R, s)), \A o \in Ids : R[o] \in Nat
    PROVE  Begun(H, Collect(l, <<a>> \o s), Without(R, <<a>> \o s))
<1> DEFINE t == <<a>> \o s
           C == Collect(l, s)
           W == Without(R, s)
           V == Without(R, t)
           p == PREPEND(l, a)
<1>1. t \in Seq(Ids) /\ Len(t) \in Nat /\ 1 \in 1..Len(t) /\ t[1] = a
  OBVIOUS
<1>2. H[a].k \in Items /\ \A o \in Ids : R[o] >= Occ(t, o) + One(o = l)
  BY <1>1 DEF Spare
<1>3. ASSUME NEW o \in Ids
      PROVE  /\ Occ(t, o) = Occ(s, o) + One(a = o) /\ One(a = o) = One(o = a)
             /\ Occ(s, o) \in Nat /\ One(o = a) \in Nat /\ One(o = l) \in Nat
  <2>1. Occ(Append(s, a), o) = Occ(s, o) + One(a = o) /\ Occ(t, o) = Occ(s, o) + One(a = o)
    BY OccAppend
  <2>2. One(a = o) = One(o = a)
    BY DEF One
  <2>3. Occ(s, o) \in Nat /\ One(o = a) \in Nat /\ One(o = l) \in Nat
    BY OccType, OneType
  <2> QED
    BY <2>1, <2>2, <2>3
<1> HIDE DEF t
<1>4. ASSUME NEW o \in Ids
      PROVE  W[o] = R[o] - Occ(s, o) /\ V[o] = R[o] - Occ(t, o) /\ Less(W, a)[o] = W[o] - One(o = a)
  BY LessAt DEF Without
<1> HIDE DEF W, V
<1>5. W[l] > 0 /\ W[a] > 0
  <2>1. One(l = l) = 1 /\ One(a = a) = 1
    BY DEF One
  <2>2. W[l] = R[l] - Occ(s, l) /\ R[l] >= Occ(s, l) + One(l = a) + 1 /\ Occ(s, l) \in Nat
        /\ One(l = a) \in Nat /\ R[l] \in Nat
    BY <1>2, <1>3, <1>4, <2>1
  <2>3. W[a] = R[a] - Occ(s, a) /\ R[a] >= Occ(s, a) + 1 + One(a = l) /\ Occ(s, a) \in Nat
        /\ One(a = l) \in Nat /\ R[a] \in Nat
    BY <1>2, <1>3, <1>4, <2>1
  <2> QED
    BY <2>2, <2>3
<1>6. Begun(H, Plus(C, p), W)
  <2>1. Backed(H, C, p, W, l) /\ Backed(H, C, p, W, a)
    BY <1>5, BackRoot DEF W
  <2>2. IsA(H, l, {"list"}) /\ IsA(H, a, Items) /\ p \in {APPEND(l, a), PREPEND(l, a)}
    BY <1>2 DEF IsA
  <2> HIDE DEF p, C
  <2> QED
    BY <2>1, <2>2, AddItem DEF W, C
<1>7. Begun(H, Plus(Plus(C, p), DEC(a)), Less(W, a))
  <2>1. a \in Maybe
    BY DEF Maybe
  <2> HIDE DEF p, C
  <2> QED
    BY <1>5, <1>6, <2>1, AddDec
<1>8. Less(W, a) = V
  <2>1. ASSUME NEW o \in Ids PROVE Less(W, a)[o] = V[o]
    <3> DEFINE x == R[o]
               y == Occ(s, o)
               z == One(o = a)
               w == W[o]
               q == Less(W, a)[o]
               v == V[o]
               u == Occ(t, o)
    <3>1. u = y + z /\ w = x - y /\ v = x - u /\ q = w - z /\ x \in Nat /\ y \in Nat /\ z \in Nat
      BY <1>3, <1>4
    <3> HIDE DEF x, y, z, w, q, v, u
    <3>2. q = v
      BY <3>1
    <3> QED
      BY <3>2 DEF q, v
  <2>2. OnIds(Less(W, a)) /\ OnIds(V)
    BY DEF OnIds, V, Less, Without
  <2> QED
    BY <2>1, <2>2, AllOnIds
<1>9. Collect(l, t) = Plus(Plus(C, p), DEC(a))
  BY CollectMore DEF t
<1> HIDE DEF C, p
<1>10. Begun(H, Collect(l, t), V)
  BY <1>7, <1>8, <1>9
<1> QED
  BY <1>10 DEF t, V

LEMMA CollectNothing ==
    ASSUME NEW H, NEW R, Begun(H, <<>>, R), OnIds(R), NEW l \in Ids, NEW s \in Seq(Ids), Len(s) = 0
    PROVE  Begun(H, Collect(l, s), Without(R, s))
<1>1. Collect(l, s) = <<>>
  <2> DEFINE C == Collect(l, s)
  <2>1. C \in Seq(Op) /\ Len(C) = 2 * Len(s)
    BY CollectType
  <2>2. Len(C) = 0
    BY <2>1
  <2> HIDE DEF C
  <2>3. C = <<>>
    BY <2>1, <2>2
  <2> QED
    BY <2>3 DEF C
<1>2. Without(R, s) = R
  <2>1. ASSUME NEW o \in Ids PROVE Without(R, s)[o] = R[o]
    <3>1. s = <<>>
      OBVIOUS
    <3>2. Occ(s, o) = 0
      BY <3>1, EmptyTodo
    <3>3. R[o] \in Nat
      BY DEF Begun
    <3> QED
      BY <3>2, <3>3 DEF Without
  <2>2. OnIds(Without(R, s))
    BY DEF OnIds, Without
  <2> QED
    BY <2>1, <2>2, AllOnIds
<1> QED
  BY <1>1, <1>2

LEMMA CollectBegun ==
    ASSUME NEW H, NEW R, Begun(H, <<>>, R), OnIds(R), NEW l \in Ids, H[l].k = "list",
           NEW args, Spare(H, R, l, args)
    PROVE  Begun(H, Collect(l, args), Without(R, args))
<1> DEFINE Bad(s) == Spare(H, R, l, s) /\ ~Begun(H, Collect(l, s), Without(R, s))
           B == {n \in Nat : \E s \in Seq(Ids) : Len(s) = n /\ Bad(s)}
<1>1. SUFFICES ASSUME B # {} PROVE FALSE
  <2>1. args \in Seq(Ids) /\ Len(args) \in Nat
    BY DEF Spare
  <2>2. ASSUME ~Begun(H, Collect(l, args), Without(R, args)) PROVE Len(args) \in B
    BY <2>1, <2>2
  <2> QED
    BY <1>1, <2>2
<1>2. B \subseteq Nat
  OBVIOUS
<1> HIDE DEF B
<1>3. PICK n \in B : \A j \in B : n <= j
  BY <1>1, <1>2, Smallest
<1>4. PICK s \in Seq(Ids) : Len(s) = n /\ Bad(s)
  BY <1>3 DEF B
<1>5. n # 0
  <2>1. ASSUME Len(s) = 0 PROVE FALSE
    BY <1>4, <2>1, CollectNothing
  <2> QED
    BY <1>4, <2>1
<1> DEFINE a == Head(s)
           t == Tail(s)
<1>6. a \in Ids /\ t \in Seq(Ids) /\ Len(t) = n - 1 /\ s = <<a>> \o t /\ n \in Nat /\ n - 1 \in Nat
      /\ \A i \in 1..n - 1 : t[i] = s[i + 1]
  BY <1>2, <1>3, <1>4, <1>5
<1>7. Spare(H, R, l, t)
  <2>1. \A i \in 1..n : H[s[i]].k \in Items
    BY <1>4 DEF Spare
  <2>2. \A i \in 1..n - 1 : i + 1 \in 1..n
    BY <1>6
  <2>3. \A i \in 1..Len(t) : H[t[i]].k \in Items
    BY <1>6, <2>1, <2>2
  <2>4. ASSUME NEW o \in Ids PROVE R[o] >= Occ(t, o) + One(o = l)
    <3>1. R[o] >= Occ(s, o) + One(o = l) /\ R[o] \in Nat
      BY <1>4 DEF Spare, Begun
    <3> HIDE DEF a, t
    <3>2. Occ(Append(t, a), o) = Occ(t, o) + One(a = o) /\ Occ(<<a>> \o t, o) = Occ(t, o) + One(a = o)
      BY <1>6, OccAppend
    <3>3. Occ(s, o) = Occ(t, o) + One(a = o)
      <4> DEFINE w == <<a>> \o t
      <4>1. s = w /\ Occ(w, o) = Occ(t, o) + One(a = o)
        BY <1>6, <3>2
      <4> HIDE DEF w
      <4> QED
        BY <4>1
    <3>4. Occ(t, o) \in Nat /\ One(a = o) \in Nat /\ One(o = l) \in Nat
      <4>1. t \in Seq(Ids)
        BY <1>6
      <4>2. Occ(t, o) \in Nat
        BY <4>1, OccType
      <4> QED
        BY <4>2, OneType
    <3> QED
      BY <3>1, <3>3, <3>4
  <2> HIDE DEF t
  <2> QED
    BY <1>6, <2>3, <2>4 DEF Spare
<1>8. Begun(H, Collect(l, t), Without(R, t))
  <2>1. ASSUME Bad(t) PROVE n - 1 \in B
    BY <1>6, <2>1 DEF B
  <2>2. n - 1 \notin B
    BY <1>2, <1>3, <1>6
  <2> QED
    BY <1>7, <2>1, <2>2
<1>9. \A o \in Ids : R[o] \in Nat
  BY DEF Begun
<1>10. Spare(H, R, l, <<a>> \o t)
  BY <1>4, <1>6
<1> HIDE DEF a, t
<1>11. Begun(H, Collect(l, <<a>> \o t), Without(R, <<a>> \o t))
  BY <1>6, <1>8, <1>9, <1>10, CollectStep
<1> QED
  BY <1>4, <1>6, <1>11

-----------------------------------------------------------------------------
(* What a call stores: items in the list l, values in the map m, and the     *)
(* fields K of the block n.                                                  *)
Wanted(s, l, m, n, K) ==
    /\ s.op \in {"append", "prepend"} => s.o = l
    /\ s.op = "put" => s.o = m
    /\ s.op = "set" => s.o = n /\ s.x \in K
Calls(T, l, m, n, K) == T \in Seq(Op) /\ \A i \in 1..Len(T) : Wanted(T[i], l, m, n, K)
\* The arguments are items of l.
Given(T, l, args) == \A j \in 1..Len(args) : \E i \in 1..Len(T) : T[i] = PREPEND(l, args[j])

LEMMA WantedMore ==
    ASSUME NEW s, NEW l, NEW m, NEW n, NEW K, NEW L, K \subseteq L, Wanted(s, l, m, n, K)
    PROVE  Wanted(s, l, m, n, L)
  BY DEF Wanted

LEMMA CallsPlus ==
    ASSUME NEW T, NEW l, NEW m, NEW n, NEW K, Calls(T, l, m, n, K), NEW s \in Op,
           NEW L, K \subseteq L, Wanted(s, l, m, n, L)
    PROVE  Calls(Plus(T, s), l, m, n, L)
<1>1. T \in Seq(Op) /\ \A i \in 1..Len(T) : Wanted(T[i], l, m, n, L)
  BY WantedMore DEF Calls
<1>2. Plus(T, s) \in Seq(Op)
  BY <1>1, PlusParts
<1>3. ASSUME NEW i \in 1..Len(Plus(T, s)) PROVE Wanted(Plus(T, s)[i], l, m, n, L)
  <2>1. \/ i \in 1..Len(T) /\ Plus(T, s)[i] = T[i]
        \/ Plus(T, s)[i] = s
    BY <1>1, PlusWhere
  <2> QED
    BY <1>1, <2>1
<1> QED
  BY <1>2, <1>3 DEF Calls

LEMMA GivenPlus ==
    ASSUME NEW T \in Seq(Op), NEW l, NEW args, Given(T, l, args), NEW s \in Op
    PROVE  Given(Plus(T, s), l, args)
<1>1. ASSUME NEW j \in 1..Len(args)
      PROVE  \E i \in 1..Len(Plus(T, s)) : Plus(T, s)[i] = PREPEND(l, args[j])
  <2>1. PICK i \in 1..Len(T) : T[i] = PREPEND(l, args[j])
    BY DEF Given
  <2>2. i \in 1..Len(Plus(T, s)) /\ Plus(T, s)[i] = T[i]
    BY PlusAt
  <2> QED
    BY <2>1, <2>2
<1> QED
  BY <1>1 DEF Given

LEMMA StalePlus ==
    ASSUME NEW T \in Seq(Op), NEW s \in Op, NEW b, NEW x,
           Stale(T, b, x) \/ (s.op = "set" /\ s.o = b /\ s.x = x)
    PROVE  Stale(Plus(T, s), b, x)
<1>1. CASE Stale(T, b, x)
  <2>1. PICK j \in 1..Len(T) : T[j].op = "set" /\ T[j].o = b /\ T[j].x = x
    BY <1>1 DEF Stale
  <2>2. j \in 1..Len(Plus(T, s)) /\ Plus(T, s)[j] = T[j]
    BY PlusAt
  <2> QED
    BY <2>1, <2>2 DEF Stale
<1>2. CASE s.op = "set" /\ s.o = b /\ s.x = x
  <2>1. Len(T) + 1 \in 1..Len(Plus(T, s)) /\ Plus(T, s)[Len(T) + 1] = s
    BY PlusType
  <2> QED
    BY <1>2, <2>1 DEF Stale
<1> QED
  BY <1>1, <1>2

LEMMA CallsSteady ==
    ASSUME NEW T, NEW l, NEW m, NEW n, NEW K, Calls(T, l, m, n, K), NEW b, b # m, b # n
    PROVE  Steady(T, b)
  BY DEF Calls, Wanted, Steady

\* The new objects whose fields are NULL so far.
Bare(H, b) == \A x \in DOMAIN H[b].f : H[b].f[x] = NULL

LEMMA CallsUnrelied ==
    ASSUME NEW T, NEW l, NEW m, NEW n, NEW K, Calls(T, l, m, n, K), NEW H, NEW s,
           s.o # l, Bare(H, s.o)
    PROVE  Unrelied(H, T, s)
<1>1. Untouched(H, T, s.o)
  BY DEF Calls, Wanted, Untouched, Bare
<1> QED
  BY <1>1, UntouchedUnrelied

LEMMA CallsLone ==
    ASSUME NEW T, NEW l, NEW m, NEW n, NEW K, Calls(T, l, m, n, K), m # n,
           NEW s, s.op = "set", s.o = n, s.x \notin K
    PROVE  Lone(T, s)
  BY DEF Calls, Wanted, Lone

LEMMA CollectCalls ==
    ASSUME NEW l \in Ids, NEW args \in Seq(Ids), NEW m, NEW n
    PROVE  Calls(Collect(l, args), l, m, n, {}) /\ Given(Collect(l, args), l, args)
<1> DEFINE C == Collect(l, args)
           k == Len(args)
           at(j) == args[k + 1 - (j + 1) \div 2]
<1>1. /\ C \in Seq(Op) /\ Len(C) = 2 * k /\ k \in Nat
      /\ \A j \in 1..2 * k : C[j] = IF j % 2 = 1 THEN PREPEND(l, at(j)) ELSE DEC(at(j))
  BY CollectType
<1> HIDE DEF C
<1>2. ASSUME NEW j \in 1..Len(C) PROVE Wanted(C[j], l, m, n, {})
  <2>1. C[j] = PREPEND(l, at(j)) \/ C[j] = DEC(at(j))
    BY <1>1
  <2> HIDE DEF at
  <2>2. /\ PREPEND(l, at(j)).op = "prepend" /\ PREPEND(l, at(j)).o = l
        /\ DEC(at(j)).op = "dec"
    BY OpFields
  <2> QED
    BY <2>1, <2>2 DEF Wanted
<1>3. ASSUME NEW j \in 1..k PROVE \E i \in 1..Len(C) : C[i] = PREPEND(l, args[j])
  <2> DEFINE i == 2 * (k + 1 - j) - 1
  <2>1. i \in 1..2 * k /\ i % 2 = 1 /\ k + 1 - (i + 1) \div 2 = j
    <3> DEFINE w == k + 1 - j
    <3>1. w \in Nat /\ w >= 1 /\ w <= k /\ k + 1 - w = j /\ i = 2 * w - 1
      BY <1>1
    <3> HIDE DEF w, i, k
    <3>2. (i + 1) \div 2 = w /\ i % 2 = 1
      BY <3>1
    <3>3. i \in 1..2 * k
      BY <1>1, <3>1
    <3> QED
      BY <3>1, <3>2, <3>3
  <2>2. at(i) = args[j]
    BY <2>1
  <2> HIDE DEF i, at
  <2>3. C[i] = PREPEND(l, args[j])
    BY <1>1, <2>1, <2>2
  <2> QED
    BY <1>1, <2>1, <2>3
<1> QED
  BY <1>1, <1>2, <1>3 DEF Calls, Given, C

-----------------------------------------------------------------------------
(* The arguments become values of the parameters.                            *)

Argument(i, args) == IF i <= Len(args) THEN args[i] ELSE NULL

LEMMA BindMore ==
    ASSUME NEW m \in Ids, NEW ps \in Seq(Names), NEW p \in Names, NEW args \in Seq(Ids)
    PROVE  /\ Bind(m, ps, args) \in Seq(Op)
           /\ Bind(m, ps \o <<p>>, args)
                = Plus(Bind(m, ps, args), PUT(m, p, Argument(Len(ps) + 1, args)))
           /\ Argument(Len(ps) + 1, args) \in Maybe
           /\ PUT(m, p, Argument(Len(ps) + 1, args)) \in Op
<1> DEFINE k == Len(ps)
           qs == ps \o <<p>>
           B == Bind(m, ps, args)
           D == Bind(m, qs, args)
           s == PUT(m, p, Argument(k + 1, args))
<1>1. k \in Nat /\ DOMAIN ps = 1..k /\ \A i \in 1..k : ps[i] \in Names
  OBVIOUS
<1>2. /\ DOMAIN qs = 1..k + 1 /\ qs[k + 1] = p /\ \A i \in 1..k : qs[i] = ps[i]
  BY <1>1
<1>3. ASSUME NEW i \in Nat \ {0} PROVE Argument(i, args) \in Maybe
  BY DEF Argument, Maybe
<1>4. B = [i \in 1..k |-> PUT(m, ps[i], Argument(i, args))]
  <2>1. B = [i \in DOMAIN ps |-> PUT(m, ps[i], Argument(i, args))]
    BY Zenon DEF Bind, Argument
  <2> QED
    BY <1>1, <2>1
<1>5. D = [i \in 1..k + 1 |-> PUT(m, qs[i], Argument(i, args))]
  <2>1. D = [i \in DOMAIN qs |-> PUT(m, qs[i], Argument(i, args))]
    BY Zenon DEF Bind, Argument
  <2> HIDE DEF qs
  <2> QED
    BY <1>2, <2>1
<1> HIDE DEF B, D, qs
<1>6. \A i \in 1..k : PUT(m, ps[i], Argument(i, args)) \in Op
  <2>1. ASSUME NEW i \in 1..k PROVE PUT(m, ps[i], Argument(i, args)) \in Op
    <3>1. ps[i] \in Names /\ Argument(i, args) \in Maybe
      BY <1>1, <1>3
    <3> QED
      BY <3>1, OpTypes
  <2> QED
    BY <2>1
<1>7. s \in Op /\ Argument(k + 1, args) \in Maybe
  <2>1. Argument(k + 1, args) \in Maybe
    BY <1>1, <1>3
  <2> QED
    BY <2>1, OpTypes
<1> HIDE DEF k
<1>8. B \in Seq(Op) /\ Len(B) = k /\ \A i \in 1..k : B[i] = PUT(m, ps[i], Argument(i, args))
  <2>1. \A i \in 1..k : B[i] = PUT(m, ps[i], Argument(i, args))
    BY <1>4
  <2>2. (\A i \in 1..k : B[i] \in Op) /\ B = [i \in 1..k |-> B[i]]
    BY <1>4, <1>6, <2>1
  <2>3. B \in [1..k -> Op] /\ k \in Nat
    BY <1>1, <2>2 DEF k
  <2>4. B \in Seq(Op) /\ Len(B) = k
    BY <2>3
  <2> QED
    BY <2>1, <2>4
<1>9. D = Plus(B, s)
  <2> HIDE DEF s
  <2> DEFINE E == Plus(B, s)
  <2>1. E \in Seq(Op) /\ Len(E) = k + 1 /\ E[k + 1] = s /\ \A i \in 1..k : E[i] = B[i]
    BY <1>7, <1>8, PlusParts
  <2> HIDE DEF E
  <2>2. E = [i \in 1..k + 1 |-> E[i]]
    BY <1>1, <2>1
  <2>3. ASSUME NEW i \in 1..k + 1 PROVE E[i] = PUT(m, qs[i], Argument(i, args))
    <3>1. CASE i = k + 1
      BY <1>2, <2>1, <3>1 DEF s, k
    <3>2. CASE i # k + 1
      <4>1. i \in 1..k
        BY <1>1, <3>2
      <4> QED
        BY <1>2, <1>8, <2>1, <4>1 DEF k
    <3> QED
      BY <3>1, <3>2
  <2>4. E = D
    BY <1>5, <2>2, <2>3
  <2> QED
    BY <2>4 DEF E
<1> QED
  BY <1>7, <1>8, <1>9 DEF k, qs, B, D

LEMMA BindStep ==
    ASSUME NEW H, NEW U, NEW R, Begun(H, U, R), NEW l \in Ids, NEW m \in Ids, NEW n, l # m,
           Calls(U, l, m, n, {}), m # n, l # n, R[l] > 0, R[m] > 0,
           H[m].k = "map", Bare(H, m),
           NEW args \in Seq(Ids), Given(U, l, args), \A i \in 1..Len(args) : H[args[i]].k \in Items,
           NEW p \in Names, NEW i \in Nat \ {0}
    PROVE  LET s == PUT(m, p, Argument(i, args))
           IN  /\ Begun(H, Plus(U, s), R) /\ Calls(Plus(U, s), l, m, n, {})
               /\ Given(Plus(U, s), l, args)
<1> DEFINE v == Argument(i, args)
           s == PUT(m, p, v)
<1>1. s.op = "put" /\ s.o = m /\ s.v = v
  BY OpFields
<1>2. v = NULL \/ \E j \in 1..Len(args) : v = args[j]
  BY DEF Argument
<1>3. v = NULL \/ IsA(H, v, Items)
  BY <1>2 DEF IsA
<1>4. s \in Op /\ U \in Seq(Op)
  <2>1. v \in Maybe
    BY <1>3 DEF IsA, Maybe
  <2> QED
    BY <2>1, OpTypes DEF Begun
<1>5. ASSUME v \in Ids PROVE Backed(H, U, s, R, v)
  <2>1. PICK j \in 1..Len(args) : v = args[j]
    BY <1>2, <1>5, IdsFinite
  <2>2. PICK x \in 1..Len(U) : U[x] = PREPEND(l, v)
    BY <2>1 DEF Given
  <2> HIDE DEF v, s
  <2>3. Steady(U, l) /\ Elsewhere(s, l)
    BY <1>1, CallsSteady DEF Elsewhere
  <2>4. Backed(H, U, s, R, l)
    BY BackRoot
  <2> QED
    BY <1>5, <2>2, <2>3, <2>4, BackItem
<1> HIDE DEF v
<1>6. Unrelied(H, U, s)
  BY <1>1, CallsUnrelied
<1>7. Backed(H, U, s, R, m) /\ IsA(H, m, {"map"})
  BY BackRoot DEF IsA
<1>8. Begun(H, Plus(U, s), R)
  <2> HIDE DEF s
  <2>1. s = PUT(m, p, v)
    BY DEF s
  <2> QED
    BY <1>3, <1>5, <1>6, <1>7, <2>1, AddPut
<1>9. Wanted(s, l, m, n, {})
  BY <1>1 DEF Wanted
<1> HIDE DEF s
<1>10. Calls(Plus(U, s), l, m, n, {}) /\ Given(Plus(U, s), l, args)
  BY <1>4, <1>9, CallsPlus, GivenPlus
<1> QED
  BY <1>8, <1>10 DEF s, v

Binding(H, R, l, m, n, args) ==
    /\ l \in Ids /\ m \in Ids /\ l # m /\ m # n /\ l # n /\ R[l] > 0 /\ R[m] > 0
    /\ H[m].k = "map" /\ Bare(H, m)
    /\ args \in Seq(Ids) /\ \A i \in 1..Len(args) : H[args[i]].k \in Items
Bound(H, T, R, l, m, n, args) ==
    Begun(H, T, R) /\ Calls(T, l, m, n, {}) /\ Given(T, l, args)

LEMMA BoundMore ==
    ASSUME NEW H, NEW T, NEW R, NEW l, NEW m, NEW n, NEW args, Binding(H, R, l, m, n, args),
           NEW ps \in Seq(Names), NEW p \in Names,
           Bound(H, T \o Bind(m, ps, args), R, l, m, n, args), T \in Seq(Op)
    PROVE  Bound(H, T \o Bind(m, ps \o <<p>>, args), R, l, m, n, args)
<1> DEFINE B == Bind(m, ps, args)
           i == Len(ps) + 1
           s == PUT(m, p, Argument(i, args))
           U == T \o B
<1>1. /\ l \in Ids /\ m \in Ids /\ l # m /\ m # n /\ l # n /\ R[l] > 0 /\ R[m] > 0
      /\ H[m].k = "map" /\ Bare(H, m)
      /\ args \in Seq(Ids) /\ \A j \in 1..Len(args) : H[args[j]].k \in Items
  BY DEF Binding
<1>2. B \in Seq(Op) /\ Bind(m, ps \o <<p>>, args) = Plus(B, s) /\ s \in Op
  BY <1>1, BindMore
<1>3. i \in Nat \ {0}
  OBVIOUS
<1> HIDE DEF i, B
<1>4. T \o Plus(B, s) = Plus(U, s)
  <2> HIDE DEF s
  <2> QED
    BY <1>2, PlusConcat
<1>5. Begun(H, U, R) /\ Calls(U, l, m, n, {}) /\ Given(U, l, args)
  BY DEF Bound, B
<1> HIDE DEF U
<1>6. Begun(H, Plus(U, s), R) /\ Calls(Plus(U, s), l, m, n, {}) /\ Given(Plus(U, s), l, args)
  BY <1>1, <1>3, <1>5, BindStep
<1> HIDE DEF s
<1> QED
  BY <1>2, <1>4, <1>6 DEF Bound

LEMMA BindNothing ==
    ASSUME NEW T \in Seq(Op), NEW m, NEW args
    PROVE  T \o Bind(m, <<>>, args) = T
<1>1. Bind(m, <<>>, args) = <<>>
  BY DEF Bind
<1> QED
  BY <1>1

LEMMA BindBegun ==
    ASSUME NEW H, NEW T, NEW R, NEW l, NEW m, NEW n, NEW args, Binding(H, R, l, m, n, args),
           Bound(H, T, R, l, m, n, args), NEW qs \in Seq(Names)
    PROVE  Bound(H, T \o Bind(m, qs, args), R, l, m, n, args)
<1> DEFINE Bad(ps) == ~Bound(H, T \o Bind(m, ps, args), R, l, m, n, args)
           B == {k \in Nat : \E ps \in Seq(Names) : Len(ps) = k /\ Bad(ps)}
<1>1. SUFFICES ASSUME B # {} PROVE FALSE
  <2>1. Len(qs) \in Nat
    OBVIOUS
  <2>2. ASSUME Bad(qs) PROVE Len(qs) \in B
    BY <2>1, <2>2
  <2> QED
    BY <1>1, <2>2
<1>2. B \subseteq Nat /\ T \in Seq(Op)
  BY DEF Bound, Begun
<1> HIDE DEF B
<1>3. PICK k \in B : \A j \in B : k <= j
  BY <1>1, <1>2, Smallest
<1>4. PICK ps \in Seq(Names) : Len(ps) = k /\ Bad(ps)
  BY <1>3 DEF B
<1>5. ps # <<>>
  <2>1. ASSUME ps = <<>> PROVE FALSE
    BY <1>2, <1>4, <2>1, BindNothing
  <2> QED
    BY <2>1
<1> DEFINE t == Front(ps)
           p == ps[Len(ps)]
<1>6. t \in Seq(Names) /\ Len(t) = Len(ps) - 1 /\ ps = t \o <<p>>
  BY <1>5, FrontOf
<1>7. p \in Names /\ k \in Nat /\ k - 1 \in Nat
  <2>1. Len(ps) \in Nat \ {0} /\ Len(ps) \in 1..Len(ps)
    BY <1>5
  <2> QED
    BY <1>4, <2>1
<1> HIDE DEF t, p
<1>8. ~Bad(t)
  <2>1. ASSUME Bad(t) PROVE k - 1 \in B
    BY <1>4, <1>6, <1>7, <2>1 DEF B
  <2>2. k - 1 \notin B
    BY <1>3, <1>7
  <2> QED
    BY <2>1, <2>2
<1>9. Bound(H, T \o Bind(m, t \o <<p>>, args), R, l, m, n, args)
  BY <1>2, <1>6, <1>7, <1>8, BoundMore, SMTT(30)
<1> QED
  BY <1>4, <1>6, <1>9

-----------------------------------------------------------------------------
(* The block of the call gets its three fields.                              *)

\* The function f that is called, and the new objects, in the heap H.
Calling(H, R, l, m, n, f) ==
    /\ l \in Ids /\ m \in Ids /\ n \in Ids /\ f \in Ids /\ l # m /\ m # n /\ l # n
    /\ f \notin {l, m, n} /\ R[l] > 0 /\ R[m] > 0 /\ R[n] > 0 /\ R[f] > 0
    /\ H[m].k = "map" /\ H[n].k = "block" /\ DOMAIN H[n].f = 1..3 /\ Bare(H, n)
    /\ 1 \in DOMAIN H[f].f /\ IsA(H, H[f].f[1], {"block"}) /\ H[f].f[1] \notin {l, m, n}
    /\ DOMAIN H[H[f].f[1]].f = 1..3
    /\ IsA(H, H[H[f].f[1]].f[2], {"map"}) /\ IsA(H, H[H[f].f[1]].f[3], {"list"})

LEMMA CodeBacked ==
    ASSUME NEW H, NEW R, NEW l, NEW m, NEW n, NEW f, Calling(H, R, l, m, n, f),
           NEW T, Begun(H, T, R), NEW K, Calls(T, l, m, n, K),
           NEW s, s.op \in {"put", "set"} => s.o \in {m, n}
    PROVE  /\ Backed(H, T, s, R, H[f].f[1])
           /\ \A x \in 2..3 : Backed(H, T, s, R, H[H[f].f[1]].f[x])
<1> DEFINE c == H[f].f[1]
<1>1. /\ f \in Ids /\ f \notin {m, n} /\ R[f] > 0 /\ 1 \in DOMAIN H[f].f
      /\ c \in Ids /\ c \notin {m, n} /\ DOMAIN H[c].f = 1..3
      /\ H[c].f[2] \in Ids /\ H[c].f[3] \in Ids
  BY DEF Calling, IsA
<1>2. Backed(H, T, s, R, f)
  BY <1>1, BackRoot
<1>3. Steady(T, f) /\ Steady(T, c)
  BY <1>1, CallsSteady
<1>4. Elsewhere(s, f) /\ Elsewhere(s, c)
  BY <1>1 DEF Elsewhere
<1>5. Backed(H, T, s, R, c)
  BY <1>1, <1>2, <1>3, <1>4, BackField
<1> HIDE DEF c
<1>6. ASSUME NEW x \in 2..3 PROVE Backed(H, T, s, R, H[c].f[x])
  <2>1. x \in DOMAIN H[c].f /\ H[c].f[x] \in Ids
    BY <1>1
  <2> QED
    BY <1>1, <1>3, <1>4, <1>5, <2>1, BackField
<1> QED
  BY <1>5, <1>6, SMTT(30) DEF c

LEMMA FieldStored ==
    ASSUME NEW H, NEW R, NEW l, NEW m, NEW n, NEW f, Calling(H, R, l, m, n, f),
           NEW T, Begun(H, T, R), NEW K, Calls(T, l, m, n, K),
           NEW x \in 1..3, x \notin K, NEW v \in Ids, Accepts(H, n, x, v),
           Backed(H, T, SET(n, x, v), R, v)
    PROVE  /\ Begun(H, Plus(T, SET(n, x, v)), R)
           /\ Calls(Plus(T, SET(n, x, v)), l, m, n, K \cup {x})
           /\ Stale(Plus(T, SET(n, x, v)), n, x)
           /\ \A y : Stale(T, n, y) => Stale(Plus(T, SET(n, x, v)), n, y)
<1> DEFINE s == SET(n, x, v)
<1>1. s.op = "set" /\ s.o = n /\ s.x = x /\ s.v = v
  BY OpFields, SMTT(30)
<1>2. n \in Ids /\ n # l /\ m # n /\ R[n] > 0 /\ H[n].k = "block" /\ DOMAIN H[n].f = 1..3 /\ Bare(H, n)
  BY DEF Calling
<1>3. s \in Op /\ T \in Seq(Op)
  BY <1>2, OpTypes DEF Maybe, Begun
<1>4. Wanted(s, l, m, n, K \cup {x})
  BY <1>1 DEF Wanted
<1>5. H[n].f[x] = NULL
  BY <1>2 DEF Bare
<1>6. Backed(H, T, s, R, n) /\ Backed(H, T, s, R, v)
  BY <1>2, BackRoot
<1>7. Unrelied(H, T, s) /\ Lone(T, s)
  <2> HIDE DEF s
  <2> QED
    BY <1>1, <1>2, CallsUnrelied, CallsLone
<1>8. H[n].k # "list"
  BY <1>2
<1> HIDE DEF s
<1>9. Begun(H, Plus(T, s), R)
  <2>1. s = SET(n, x, v)
    BY DEF s
  <2> QED
    BY <1>2, <1>5, <1>6, <1>7, <1>8, <2>1, AddSet
<1>10. Calls(Plus(T, s), l, m, n, K \cup {x})
  BY <1>3, <1>4, CallsPlus
<1>11. Stale(Plus(T, s), n, x) /\ \A y : Stale(T, n, y) => Stale(Plus(T, s), n, y)
  BY <1>1, <1>3, StalePlus
<1> QED
  BY <1>9, <1>10, <1>11 DEF s

\* The four operations that make the block.
Makes(T, n, m, c, g, k) ==
    Plus(Plus(Plus(Plus(T, READ(c)), SET(n, 1, m)), SET(n, 2, g)), SET(n, 3, k))
\* The five that drop what the call made or used.
Ends(T, l, m, n, f) ==
    Plus(Plus(Plus(Plus(Plus(T, DEC(m)), DEC(f)), DEC(l)), INC(n)), DEC(n))

LEMMA BlockMade ==
    ASSUME NEW H, NEW R, NEW l, NEW m, NEW n, NEW f, Calling(H, R, l, m, n, f),
           NEW T, Begun(H, T, R), Calls(T, l, m, n, {}),
           NEW c, c = H[f].f[1]
    PROVE  /\ Begun(H, Makes(T, n, m, c, H[c].f[2], H[c].f[3]), R)
           /\ \A x \in 1..3 : Stale(Makes(T, n, m, c, H[c].f[2], H[c].f[3]), n, x)
<1> DEFINE g == H[c].f[2]
           k == H[c].f[3]
           U1 == Plus(T, READ(c))
           U2 == Plus(U1, SET(n, 1, m))
           U3 == Plus(U2, SET(n, 2, g))
           U4 == Plus(U3, SET(n, 3, k))
<1>1. /\ m \in Ids /\ n \in Ids /\ R[m] > 0 /\ H[m].k = "map" /\ H[n].k = "block"
      /\ c \in Ids /\ IsA(H, g, {"map"}) /\ IsA(H, k, {"list"}) /\ g \in Ids /\ k \in Ids
  BY SMTT(30) DEF Calling, IsA
<1>2. READ(c).op = "read" /\ READ(c) \in Op
  BY <1>1, OpFields, OpTypes
<1>3. /\ \A x, v : SET(n, x, v).o = n /\ SET(n, x, v).op = "set"
  BY OpFields, SMTT(30)
<1>4. Accepts(H, n, 1, m) /\ Accepts(H, n, 2, g) /\ Accepts(H, n, 3, k)
  BY <1>1 DEF Accepts, IsA
<1>5. 1 \in 1..3 /\ 2 \in 1..3 /\ 3 \in 1..3 /\ 2 \in 2..3 /\ 3 \in 2..3
      /\ \A x \in 1..3 : x = 1 \/ x = 2 \/ x = 3
  OBVIOUS
<1> HIDE DEF g, k
<1>6. Begun(H, U1, R) /\ Calls(U1, l, m, n, {})
  <2>1. Backed(H, T, READ(c), R, c)
    BY <1>2, CodeBacked
  <2>2. Begun(H, U1, R)
    BY <1>1, <2>1, AddRead
  <2>3. Wanted(READ(c), l, m, n, {})
    BY <1>2 DEF Wanted
  <2>4. Calls(U1, l, m, n, {})
    BY <1>2, <2>3, CallsPlus
  <2> QED
    BY <2>2, <2>4
<1> HIDE DEF U1
<1>7. Begun(H, U2, R) /\ Calls(U2, l, m, n, {1}) /\ Stale(U2, n, 1)
  <2>1. Backed(H, U1, SET(n, 1, m), R, m)
    BY <1>1, <1>6, BackRoot
  <2>2. 1 \notin {} /\ {} \cup {1} = {1}
    OBVIOUS
  <2>3. /\ Begun(H, Plus(U1, SET(n, 1, m)), R)
        /\ Calls(Plus(U1, SET(n, 1, m)), l, m, n, {} \cup {1})
        /\ Stale(Plus(U1, SET(n, 1, m)), n, 1)
    BY <1>1, <1>4, <1>5, <1>6, <2>1, <2>2, FieldStored
  <2> QED
    BY <2>2, <2>3
<1> HIDE DEF U2
<1>8. Begun(H, U3, R) /\ Calls(U3, l, m, n, {1, 2}) /\ Stale(U3, n, 1) /\ Stale(U3, n, 2)
  <2>1. Backed(H, U2, SET(n, 2, g), R, g)
    BY <1>3, <1>5, <1>7, CodeBacked DEF g
  <2>2. 2 \notin {1} /\ {1} \cup {2} = {1, 2}
    OBVIOUS
  <2>3. /\ Begun(H, Plus(U2, SET(n, 2, g)), R)
        /\ Calls(Plus(U2, SET(n, 2, g)), l, m, n, {1} \cup {2})
        /\ Stale(Plus(U2, SET(n, 2, g)), n, 2)
        /\ \A y : Stale(U2, n, y) => Stale(Plus(U2, SET(n, 2, g)), n, y)
    BY <1>1, <1>4, <1>5, <1>7, <2>1, <2>2, FieldStored
  <2> QED
    BY <1>7, <2>2, <2>3
<1> HIDE DEF U3
<1>9. Begun(H, U4, R) /\ Stale(U4, n, 1) /\ Stale(U4, n, 2) /\ Stale(U4, n, 3)
  <2>1. Backed(H, U3, SET(n, 3, k), R, k)
    BY <1>3, <1>5, <1>8, CodeBacked DEF k
  <2>2. 3 \notin {1, 2}
    OBVIOUS
  <2>3. /\ Begun(H, Plus(U3, SET(n, 3, k)), R)
        /\ Stale(Plus(U3, SET(n, 3, k)), n, 3)
        /\ \A y : Stale(U3, n, y) => Stale(Plus(U3, SET(n, 3, k)), n, y)
    BY <1>1, <1>4, <1>5, <1>8, <2>1, <2>2, FieldStored
  <2> QED
    BY <1>8, <2>3
<1>10. Makes(T, n, m, c, g, k) = U4
  BY Zenon DEF Makes, U1, U2, U3, U4
<1> HIDE DEF U4
<1> QED
  BY <1>5, <1>9, <1>10, SMTT(30) DEF g, k

LEMMA CallEnded ==
    ASSUME NEW H, NEW R, NEW l, NEW m, NEW n, NEW f, Calling(H, R, l, m, n, f),
           NEW T, Begun(H, T, R), \A x \in 1..3 : Stale(T, n, x)
    PROVE  /\ Begun(H, Ends(T, l, m, n, f), Less(Less(Less(R, m), f), l))
           /\ \A x \in 1..3 : Stale(Ends(T, l, m, n, f), n, x)
<1> DEFINE R1 == Less(R, m)
           R2 == Less(R1, f)
           R3 == Less(R2, l)
           U1 == Plus(T, DEC(m))
           U2 == Plus(U1, DEC(f))
           U3 == Plus(U2, DEC(l))
           U4 == Plus(U3, INC(n))
           U5 == Plus(U4, DEC(n))
           Q == More(R3, n)
<1>1. /\ l \in Ids /\ m \in Ids /\ n \in Ids /\ f \in Ids /\ l # m /\ m # n /\ l # n
      /\ f # l /\ f # m /\ f # n /\ R[l] > 0 /\ R[m] > 0 /\ R[n] > 0 /\ R[f] > 0
      /\ R[l] \in Nat /\ R[n] \in Nat /\ R[f] \in Nat
  BY DEF Calling, Begun
<1>2. /\ One(f = m) = 0 /\ One(l = m) = 0 /\ One(l = f) = 0 /\ One(n = m) = 0 /\ One(n = f) = 0
      /\ One(n = l) = 0 /\ One(n = n) = 1
  BY <1>1 DEF One
<1>3. ASSUME NEW o \in Ids
      PROVE  /\ R1[o] = R[o] - One(o = m) /\ R2[o] = R1[o] - One(o = f)
             /\ R3[o] = R2[o] - One(o = l) /\ Q[o] = R3[o] + One(o = n)
  BY LessAt, MoreAt
<1>4. OnIds(R3) /\ OnIds(Less(Q, n))
  BY AllOnIds
<1> HIDE DEF R1, R2, R3, Q
<1>5. R1[f] > 0 /\ R2[l] > 0 /\ R3[n] > 0 /\ Q[n] > 0
  <2>1. R1[f] = R[f] - 0 /\ R2[l] = R[l] - 0 - 0
    BY <1>1, <1>2, <1>3
  <2>2. R3[n] = R[n] - 0 - 0 - 0 /\ Q[n] = R3[n] + 1
    BY <1>1, <1>2, <1>3
  <2> QED
    BY <1>1, <2>1, <2>2
<1>6. l \in Maybe /\ m \in Maybe /\ n \in Maybe /\ f \in Maybe
  BY <1>1 DEF Maybe
<1>7. Begun(H, U1, R1)
  BY <1>1, <1>6, AddDec DEF R1
<1> HIDE DEF U1
<1>8. Begun(H, U2, R2)
  BY <1>5, <1>6, <1>7, AddDec DEF R2
<1> HIDE DEF U2
<1>9. Begun(H, U3, R3)
  BY <1>5, <1>6, <1>8, AddDec DEF R3
<1> HIDE DEF U3
<1>10. Begun(H, U4, Q)
  <2>1. Backed(H, U3, INC(n), R3, n)
    BY <1>1, <1>5, <1>9, BackRoot
  <2> QED
    BY <1>1, <1>9, <2>1, AddInc DEF Q
<1> HIDE DEF U4
<1>11. Begun(H, U5, Less(Q, n))
  BY <1>5, <1>6, <1>10, AddDec
<1>12. Less(Q, n) = R3
  <2>1. ASSUME NEW o \in Ids PROVE Less(Q, n)[o] = R3[o]
    <3>1. Less(Q, n)[o] = Q[o] - One(o = n) /\ Q[o] = R3[o] + One(o = n)
      BY <1>3, LessAt
    <3>2. R3[o] \in Nat /\ One(o = n) \in Nat
      BY <1>9, OneType DEF Begun
    <3> QED
      BY <3>1, <3>2
  <2> QED
    BY <1>4, <2>1, AllOnIds
<1>13. ASSUME NEW x \in 1..3 PROVE Stale(U5, n, x)
  <2>1. T \in Seq(Op) /\ U1 \in Seq(Op) /\ U2 \in Seq(Op) /\ U3 \in Seq(Op) /\ U4 \in Seq(Op)
    BY <1>7, <1>8, <1>9, <1>10 DEF Begun
  <2>2. DEC(m) \in Op /\ DEC(f) \in Op /\ DEC(l) \in Op /\ INC(n) \in Op /\ DEC(n) \in Op
    BY <1>1, <1>6, OpTypes
  <2>3. Stale(U1, n, x)
    BY <2>1, <2>2, StalePlus DEF U1
  <2>4. Stale(U2, n, x)
    BY <2>1, <2>2, <2>3, StalePlus DEF U2
  <2>5. Stale(U3, n, x)
    BY <2>1, <2>2, <2>4, StalePlus DEF U3
  <2>6. Stale(U4, n, x)
    BY <2>1, <2>2, <2>5, StalePlus DEF U4
  <2> QED
    BY <2>1, <2>2, <2>6, StalePlus
<1>14. Ends(T, l, m, n, f) = U5
  BY Zenon DEF Ends, U1, U2, U3, U4, U5
<1> HIDE DEF U5
<1>15. Begun(H, U5, R3) /\ \A x \in 1..3 : Stale(U5, n, x)
  BY <1>11, <1>12, <1>13
<1> QED
  BY <1>14, <1>15 DEF R3, R2, R1

\* Nine operations after others.
LEMMA ConcatNine ==
    ASSUME NEW T \in Seq(Op), NEW v \in Seq(Op), Len(v) = 9
    PROVE  T \o v = Plus(Plus(Plus(Plus(Plus(Plus(Plus(Plus(Plus(T, v[1]), v[2]), v[3]), v[4]),
                        v[5]), v[6]), v[7]), v[8]), v[9])
<1> DEFINE a == v[1]
           b == v[2]
           c == v[3]
           d == v[4]
           e == v[5]
           f == v[6]
           g == v[7]
           h == v[8]
           i == v[9]
<1>21. \A x \in 1..9 : v[x] \in Op
  <2>1. ASSUME NEW x \in 1..Len(v) PROVE v[x] \in Op
    BY ElementOfSeq, Zenon
  <2> QED
    BY <2>1
<1>22. a \in Op /\ b \in Op /\ c \in Op /\ d \in Op /\ e \in Op /\ f \in Op /\ g \in Op /\ h \in Op /\ i \in Op
  BY <1>21
<1>23. v = <<a, b, c, d, e, f, g, h, i>>
  OBVIOUS
<1> HIDE DEF a, b, c, d, e, f, g, h, i
<1> DEFINE v1 == <<a>>
           v2 == <<a, b>>
           v3 == <<a, b, c>>
           v4 == <<a, b, c, d>>
           v5 == <<a, b, c, d, e>>
           v6 == <<a, b, c, d, e, f>>
           v7 == <<a, b, c, d, e, f, g>>
           v8 == <<a, b, c, d, e, f, g, h>>
           v9 == <<a, b, c, d, e, f, g, h, i>>
<1>1. /\ v1 \in Seq(Op) /\ v2 \in Seq(Op) /\ v3 \in Seq(Op) /\ v4 \in Seq(Op) /\ v5 \in Seq(Op)
      /\ v6 \in Seq(Op) /\ v7 \in Seq(Op) /\ v8 \in Seq(Op)
  BY <1>22
<1>2. v2 = Plus(v1, b) /\ v3 = Plus(v2, c) /\ v4 = Plus(v3, d) /\ v5 = Plus(v4, e) /\ v6 = Plus(v5, f)
  BY <1>22, List2, List3, List4, List5, List6
<1>3. v7 = Plus(v6, g)
  <2>1. v7 = Append(v6, g)
    BY <1>22
  <2>2. Append(v6, g) = v6 \o <<g>>
    BY <1>22
  <2> QED
    BY <2>1, <2>2 DEF Plus
<1>4. v8 = Plus(v7, h)
  <2>1. v8 = Append(v7, h)
    BY <1>22
  <2>2. Append(v7, h) = v7 \o <<h>>
    BY <1>22
  <2> QED
    BY <2>1, <2>2 DEF Plus
<1>5. v9 = Plus(v8, i)
  <2>1. v9 = Append(v8, i)
    BY <1>22
  <2>2. Append(v8, i) = v8 \o <<i>>
    BY <1>22
  <2> QED
    BY <2>1, <2>2 DEF Plus
<1> HIDE DEF v1, v2, v3, v4, v5, v6, v7, v8, v9
<1>6. T \o v1 = Plus(T, a)
  BY Zenon DEF Plus, v1
<1>7. T \o v2 = Plus(T \o v1, b)
  <2>0. v1 \in Seq(Op) /\ b \in Op
    BY <1>1, <1>22
  <2>1. T \o Plus(v1, b) = Plus(T \o v1, b)
    BY <2>0, PlusConcat
  <2> QED
    BY <1>2, <2>1, Zenon
<1>8. T \o v3 = Plus(T \o v2, c)
  <2>0. v2 \in Seq(Op) /\ c \in Op
    BY <1>1, <1>22
  <2>1. T \o Plus(v2, c) = Plus(T \o v2, c)
    BY <2>0, PlusConcat
  <2> QED
    BY <1>2, <2>1, Zenon
<1>9. T \o v4 = Plus(T \o v3, d)
  <2>0. v3 \in Seq(Op) /\ d \in Op
    BY <1>1, <1>22
  <2>1. T \o Plus(v3, d) = Plus(T \o v3, d)
    BY <2>0, PlusConcat
  <2> QED
    BY <1>2, <2>1, Zenon
<1>10. T \o v5 = Plus(T \o v4, e)
  <2>0. v4 \in Seq(Op) /\ e \in Op
    BY <1>1, <1>22
  <2>1. T \o Plus(v4, e) = Plus(T \o v4, e)
    BY <2>0, PlusConcat
  <2> QED
    BY <1>2, <2>1, Zenon
<1>11. T \o v6 = Plus(T \o v5, f)
  <2>0. v5 \in Seq(Op) /\ f \in Op
    BY <1>1, <1>22
  <2>1. T \o Plus(v5, f) = Plus(T \o v5, f)
    BY <2>0, PlusConcat
  <2> QED
    BY <1>2, <2>1, Zenon
<1>12. T \o v7 = Plus(T \o v6, g)
  <2>0. v6 \in Seq(Op) /\ g \in Op
    BY <1>1, <1>22
  <2>1. T \o Plus(v6, g) = Plus(T \o v6, g)
    BY <2>0, PlusConcat
  <2> QED
    BY <1>3, <2>1, Zenon
<1>13. T \o v8 = Plus(T \o v7, h)
  <2>0. v7 \in Seq(Op) /\ h \in Op
    BY <1>1, <1>22
  <2>1. T \o Plus(v7, h) = Plus(T \o v7, h)
    BY <2>0, PlusConcat
  <2> QED
    BY <1>4, <2>1, Zenon
<1>14. T \o v9 = Plus(T \o v8, i)
  <2>0. v8 \in Seq(Op) /\ i \in Op
    BY <1>1, <1>22
  <2>1. T \o Plus(v8, i) = Plus(T \o v8, i)
    BY <2>0, PlusConcat
  <2> QED
    BY <1>5, <2>1, Zenon
<1>15. T \o v9 = Plus(Plus(Plus(Plus(Plus(Plus(Plus(Plus(Plus(T, a), b), c), d), e), f), g), h), i)
  BY <1>6, <1>7, <1>8, <1>9, <1>10, <1>11, <1>12, <1>13, <1>14, Zenon
<1> QED
  BY <1>15, <1>23, Zenon DEF v9, a, b, c, d, e, f, g, h, i

\* A block starts to run above the one that called it.
LEMMA BlockStarts ==
    ASSUME IInv, Running, NEW H, NEW T, NEW Q, Prepared(H, T, Q),
           NEW s, Stacked(H, s), NEW n \in Ids, H[n].k = "block",
           \A o \in Ids : Q[o] + Occ(Stack, o) = Root[o] + Occ(s, o) + One(o = n)
    PROVE  Holding(H, T, WithStack(s) \o <<Frame(n)>>, ret, phase, defs, lost)
<1> DEFINE gs == WithStack(s)
           hs == gs \o <<Frame(n)>>
           R == RootsOf(hs, ret, phase, defs, lost)
<1>0. s \in Seq(Ids)
  BY DEF Stacked
<1>1. Phased(frames, ret, phase, defs, lost) /\ Anchored(heap, frames, ret, phase, defs)
  BY DEF IInv, Holding
<1>2. /\ frames \in Seq(FrameType) /\ frames # <<>> /\ Stack = frames[Len(frames)].stk
      /\ phase = "eval" /\ Stack \in Seq(Ids)
  BY Runs
<1>3. /\ gs \in Seq(FrameType) /\ Len(gs) = Len(frames) /\ gs # <<>>
      /\ gs[Len(frames)].lb = frames[Len(frames)].lb /\ gs[Len(frames)].stk = s
      /\ \A x \in 1..Len(frames) : gs[x].lb = frames[x].lb /\ (x # Len(frames) => gs[x] = frames[x])
  BY <1>0, <1>2, StackChanged DEF WithStack
<1>4. Frame(n) \in FrameType /\ Frame(n).lb = n /\ Frame(n).stk = <<>>
  <2>1. <<>> \in Seq(Ids)
    OBVIOUS
  <2> QED
    BY <2>1 DEF Frame, FrameType
<1> HIDE DEF gs
<1>5. /\ hs \in Seq(FrameType) /\ Len(hs) = Len(gs) + 1 /\ hs[Len(gs) + 1] = Frame(n)
      /\ \A x \in 1..Len(gs) : hs[x] = gs[x]
  BY <1>3, <1>4, FramePushed
<1>6. ASSUME NEW o \in Ids
      PROVE  /\ OnStacks(hs, o) = OnStacks(gs, o) /\ OnStacks(gs, o) \in Nat
             /\ OnChain(hs, o) = OnChain(gs, o) + One(o = n)
  <2>1. OnStacks(hs, o) = OnStacks(gs, o) + Occ(Frame(n).stk, o)
        /\ OnChain(hs, o) = OnChain(gs, o) + One(Frame(n).lb = o)
    BY <1>3, <1>4, PushedCounts
  <2>2. Occ(Frame(n).stk, o) = 0
    BY <1>4, EmptyTodo
  <2>3. One(Frame(n).lb = o) = One(o = n)
    BY <1>4 DEF One
  <2>4. OnStacks(gs, o) \in Nat
    BY <1>3, FramesCounted
  <2> QED
    BY <2>1, <2>2, <2>3, <2>4
<1>7. hs # <<>>
  <2>1. Len(hs) # 0
    BY <1>3, <1>5
  <2> QED
    BY <2>1
<1> HIDE DEF hs
<1>8. Phased(hs, ret, phase, defs, lost)
  BY <1>1, <1>2, <1>5, <1>7 DEF Phased
<1>9. ASSUME NEW o \in Ids PROVE R[o] = Q[o]
  <2> DEFINE z == One(o = ret)
             y == One(o \in Statics)
             w == One(o = Main /\ phase # "done")
             d == Occ(defs, o)
             c == OnChain(frames, o)
             x == One(o = n)
             a == OnStacks(frames, o)
             b == OnStacks(gs, o)
             p == Occ(Stack, o)
             q == Occ(s, o)
  <2>1. b + p = a + q /\ OnChain(gs, o) = c
    BY <1>0, SwapRoots DEF gs
  <2>2. OnStacks(hs, o) = b /\ OnChain(hs, o) = c + x
    BY <1>6, <2>1
  <2>3. R[o] = b + (c + x) + z + y + w + 2 * d + lost[o] /\ R[o] \in Nat
    BY <1>8, <2>2, Rooted
  <2>4. Root[o] = a + c + z + y + w + 2 * d + lost[o] /\ Root[o] \in Nat
    BY <1>1, Rooted DEF Root
  <2>5. Q[o] + p = Root[o] + q + x
    OBVIOUS
  <2>6. Q[o] \in Nat
    BY DEF Prepared, Begun
  <2>7. a \in Nat /\ b \in Nat /\ c \in Nat
    BY <1>2, <1>3, FramesCounted
  <2>8. p \in Nat /\ q \in Nat /\ d \in Nat /\ lost[o] \in Nat
    <3>1. defs \in Seq(Ids) /\ lost[o] \in Nat
      BY <1>1 DEF Phased
    <3> QED
      BY <1>0, <1>2, <3>1, OccType
  <2>9. z \in Nat /\ y \in Nat /\ w \in Nat /\ x \in Nat
    BY OneType
  <2> DEFINE e == c + z + y + w + 2 * d + lost[o]
             u == Root[o]
             m == R[o]
             k == Q[o]
  <2>10. m = b + e + x /\ u = a + e /\ e \in Nat /\ m \in Nat /\ u \in Nat
    <3> HIDE DEF R, z, y, w, d, c, a, b, x
    <3> QED
      BY <2>3, <2>4, <2>7, <2>8, <2>9
  <2>11. k + p = u + q + x /\ k \in Nat
    BY <2>5, <2>6
  <2> HIDE DEF e, u, m, k, a, b, p, q, x
  <2>12. m = k
    BY <2>1, <2>7, <2>8, <2>9, <2>10, <2>11
  <2> QED
    BY <2>12 DEF m, k
<1>10. Anchored(H, hs, ret, phase, defs)
  <2>1. Anchored(H, frames, ret, phase, defs)
    <3>1. ASSUME NEW o \in Ids, Root[o] > 0 PROVE H[o].k = heap[o].k
      <4>1. Sound(heap, <<>>, Root)
        BY Idle, Runs
      <4>2. heap[o].k # "free"
        BY <3>1, <4>1, IdleHeld
      <4> QED
        BY <4>2 DEF Prepared, Alike
    <3> QED
      BY <1>1, <3>1, AnchoredKept DEF Root
  <2>2. ASSUME NEW x \in DOMAIN hs PROVE FrameHolds(H, hs[x])
    <3>1. /\ DOMAIN hs = 1..Len(frames) + 1 /\ DOMAIN frames = 1..Len(frames)
          /\ Len(frames) \in Nat
      BY <1>2, <1>3, <1>5
    <3>2. CASE x = Len(frames) + 1
      <4>1. hs[x] = Frame(n) /\ DOMAIN <<>> = {}
        BY <1>3, <1>5, <3>2
      <4> QED
        BY <1>4, <4>1 DEF FrameHolds
    <3>3. CASE x # Len(frames) + 1
      <4>1. x \in 1..Len(frames) /\ hs[x] = gs[x]
        BY <1>3, <1>5, <3>1, <3>3
      <4>2. FrameHolds(H, frames[x])
        BY <2>1, <3>1, <4>1 DEF Anchored
      <4>3. CASE x # Len(frames)
        BY <1>3, <4>1, <4>2, <4>3
      <4>4. CASE x = Len(frames)
        <5>1. gs[x].lb = frames[x].lb /\ gs[x].stk = s /\ DOMAIN s = 1..Len(s)
          BY <1>0, <1>3, <4>4
        <5> QED
          BY <4>1, <4>2, <5>1 DEF FrameHolds, Stacked
      <4> QED
        BY <4>3, <4>4
    <3> QED
      BY <3>2, <3>3
  <2> QED
    BY <2>1, <2>2 DEF Anchored
<1> HIDE DEF R
<1>11. \A o \in Ids : RootsOf(hs, ret, phase, defs, lost)[o] = Q[o]
  BY <1>9 DEF R
<1>12. Holding(H, T, hs, ret, phase, defs, lost)
  BY <1>8, <1>10, <1>11, Closes
<1> QED
  BY <1>12 DEF hs, gs

LEMMA Joined ==
    ASSUME NEW S, NEW s \in Seq(S), NEW t \in Seq(S)
    PROVE  /\ s \o t \in Seq(S) /\ Len(s \o t) = Len(s) + Len(t)
           /\ \A i \in 1..Len(s) : (s \o t)[i] = s[i]
           /\ \A i \in 1..Len(t) : (s \o t)[Len(s) + i] = t[i]
  OBVIOUS

\* The arguments and the function on a stack.
LEMMA ArgumentsCut ==
    ASSUME NEW s \in Seq(Ids), NEW n \in 0..Len(s) - 1
    PROVE  /\ SubSeq(s, Len(s) - n, Len(s) - 1) \in Seq(Ids)
           /\ \A i \in 1..Len(SubSeq(s, Len(s) - n, Len(s) - 1)) :
                 \E j \in 1..Len(s) : SubSeq(s, Len(s) - n, Len(s) - 1)[i] = s[j]
           /\ SubSeq(s, 1, Len(s) - (n + 1)) \in Seq(Ids)
           /\ \A i \in 1..Len(SubSeq(s, 1, Len(s) - (n + 1))) :
                 \E j \in 1..Len(s) : SubSeq(s, 1, Len(s) - (n + 1))[i] = s[j]
           /\ \A o : Occ(s, o) = Occ(SubSeq(s, 1, Len(s) - (n + 1)), o)
                                   + Occ(SubSeq(s, Len(s) - n, Len(s) - 1), o)
                                   + One(o = s[Len(s)])
<1> DEFINE L == Len(s)
           k == L - (n + 1)
           B == SubSeq(s, 1, k)
           A == SubSeq(s, L - n, L - 1)
           x == s[L]
<1>1. /\ L \in Nat \ {0} /\ n \in Nat /\ k \in Nat /\ k + n + 1 = L /\ L \in 1..L
      /\ \A i \in 1..L : s[i] \in Ids
  OBVIOUS
<1>2. x \in Ids
  BY <1>1
<1>3. B \in Seq(Ids) /\ Len(B) = k /\ \A i \in 1..k : B[i] = s[i]
  <2>1. k \in 0..Len(s)
    BY <1>1
  <2> HIDE DEF k
  <2> QED
    BY <2>1
<1>4. A \in Seq(Ids) /\ Len(A) = n /\ \A i \in 1..n : A[i] = s[k + i]
  <2>1. A = SubSeq(s, k + 1, k + n)
    BY <1>1
  <2>2. k \in Nat /\ n \in Nat /\ k + n <= Len(s)
    BY <1>1
  <2> HIDE DEF A, k
  <2>3. Len(A) = n /\ \A i \in 1..n : A[i] = s[k + i]
    BY <2>1, <2>2
  <2>4. A \in Seq(Ids)
    BY <2>1, <2>2
  <2> QED
    BY <2>3, <2>4
<1> HIDE DEF x, B, A
<1>5. s = (B \o A) \o <<x>>
  <2> DEFINE C == B \o A
  <2>1. C \in Seq(Ids) /\ Len(C) = k + n /\ (\A i \in 1..k : C[i] = B[i])
        /\ \A i \in 1..n : C[k + i] = A[i]
    <3>1. /\ C \in Seq(Ids) /\ Len(C) = Len(B) + Len(A)
          /\ \A i \in 1..Len(B) : C[i] = B[i]
          /\ \A i \in 1..Len(A) : C[Len(B) + i] = A[i]
      <4>1. B \in Seq(Ids) /\ A \in Seq(Ids)
        BY <1>3, <1>4
      <4> HIDE DEF k
      <4>2. B \o A \in Seq(Ids) /\ Len(B \o A) = Len(B) + Len(A)
        BY <4>1, Joined
      <4>3. \A i \in 1..Len(B) : (B \o A)[i] = B[i]
        BY <4>1, Joined
      <4>4. \A i \in 1..Len(A) : (B \o A)[Len(B) + i] = A[i]
        BY <4>1, Joined
      <4> QED
        BY <4>2, <4>3, <4>4
    <3> HIDE DEF C, k
    <3> QED
      BY <1>3, <1>4, <3>1
  <2> HIDE DEF C
  <2> DEFINE D == C \o <<x>>
  <2>2. D \in Seq(Ids) /\ Len(D) = k + n + 1 /\ D[k + n + 1] = x /\ \A i \in 1..k + n : D[i] = C[i]
    <3> DEFINE w == <<x>>
    <3>1. w \in Seq(Ids) /\ Len(w) = 1 /\ 1 \in 1..Len(w) /\ w[1] = x
      BY <1>2
    <3>2. D = C \o w
      OBVIOUS
    <3> HIDE DEF w, D, k
    <3>3. /\ D \in Seq(Ids) /\ Len(D) = Len(C) + Len(w)
          /\ \A i \in 1..Len(C) : D[i] = C[i]
          /\ \A i \in 1..Len(w) : D[Len(C) + i] = w[i]
      <4>1. C \in Seq(Ids) /\ w \in Seq(Ids)
        BY <2>1, <3>1
      <4>2. C \o w \in Seq(Ids) /\ Len(C \o w) = Len(C) + Len(w)
        BY <4>1, Joined
      <4>3. \A i \in 1..Len(C) : (C \o w)[i] = C[i]
        BY <4>1, Joined
      <4>4. \A i \in 1..Len(w) : (C \o w)[Len(C) + i] = w[i]
        BY <4>1, Joined
      <4> QED
        BY <3>2, <4>2, <4>3, <4>4
    <3> QED
      BY <2>1, <3>1, <3>3
  <2> HIDE DEF D, L, k
  <2>3. ASSUME NEW i \in 1..L PROVE s[i] = D[i]
    <3>1. CASE i \in 1..k
      BY <1>1, <1>3, <2>1, <2>2, <3>1
    <3>2. CASE i = k + n + 1
      BY <1>1, <2>2, <3>2 DEF x
    <3>3. CASE i > k /\ i < k + n + 1
      <4>1. i - k \in 1..n /\ k + (i - k) = i /\ i \in 1..k + n
        BY <1>1, <3>3
      <4>2. C[i] = A[i - k] /\ A[i - k] = s[i]
        BY <1>4, <2>1, <4>1
      <4> QED
        BY <2>2, <4>1, <4>2
    <3> QED
      BY <1>1, <3>1, <3>2, <3>3
  <2>4. Len(s) = Len(D)
    BY <1>1, <2>2 DEF L
  <2>5. s = D
    BY <2>2, <2>3, <2>4 DEF L
  <2> QED
    BY <2>5 DEF D, C
<1>6. ASSUME NEW o PROVE Occ(s, o) = Occ(B, o) + Occ(A, o) + One(o = x)
  <2> DEFINE C == B \o A
             w == <<x>>
  <2>1. C \in Seq(Ids) /\ w \in Seq(Ids)
    BY <1>2, <1>3, <1>4
  <2>2. Occ(C, o) = Occ(B, o) + Occ(A, o)
    BY <1>3, <1>4, OccConcat
  <2>3. Occ(w, o) = One(x = o) /\ One(x = o) = One(o = x)
    BY OccShort DEF One
  <2> HIDE DEF C, w
  <2>4. Occ(C \o w, o) = Occ(C, o) + Occ(w, o)
    BY <2>1, OccConcat
  <2>5. s = C \o w
    BY <1>5 DEF C, w
  <2> QED
    BY <2>2, <2>3, <2>4, <2>5
<1>7. \A i \in 1..Len(A) : \E j \in 1..L : A[i] = s[j]
  <2>1. \A i \in 1..n : k + i \in 1..L
    BY <1>1
  <2> HIDE DEF k, L
  <2> QED
    BY <1>4, <2>1
<1>8. \A i \in 1..Len(B) : \E j \in 1..L : B[i] = s[j]
  <2>1. \A i \in 1..k : i \in 1..L
    BY <1>1, SMTT(30)
  <2> HIDE DEF k, L
  <2> QED
    BY <1>3, <2>1
<1> QED
  BY <1>3, <1>4, <1>6, <1>7, <1>8 DEF A, B, x, k, L

\* What the function on top of the stack leads to.
LEMMA CalledFields ==
    ASSUME IInv, Running, Len(Stack) > 0, heap[FromTop(1)].k = "function",
           NEW f, f = FromTop(1), NEW c, c = heap[f].f[1]
    PROVE  /\ f \in Ids /\ Root[f] > 0 /\ DOMAIN heap[f].f = 1..1 /\ heap[f].ps \in Seq(Names)
           /\ c \in Ids /\ heap[c].k = "block" /\ DOMAIN heap[c].f = 1..3
           /\ heap[c].f[2] \in Ids /\ heap[heap[c].f[2]].k = "map"
           /\ heap[c].f[3] \in Ids /\ heap[heap[c].f[3]].k = "list"
<1>1. f \in Ids /\ Root[f] > 0
  BY TopHeld
<1>2. Sound(heap, <<>>, Root)
  BY Idle, Runs
<1>3. heap[f].rc > 0
  BY <1>1, <1>2, IdleHeld
<1>4. DOMAIN heap[f].f = 1..1 /\ heap[f].ps \in Params /\ IsA(heap, c, {"block"}) /\ heap[c].rc > 0
  BY <1>1, <1>2, <1>3, FunctionFields
<1>5. heap[f].ps \in Seq(Names)
  BY <1>4, NamesAssumption
<1>6. c \in Ids /\ heap[c].k = "block"
  BY <1>4 DEF IsA
<1>7. /\ DOMAIN heap[c].f = 1..3 /\ IsA(heap, heap[c].f[2], {"map"})
      /\ IsA(heap, heap[c].f[3], {"list"})
  BY <1>2, <1>4, <1>6, BlockFields
<1> QED
  BY <1>1, <1>4, <1>5, <1>6, <1>7 DEF IsA

\* The roots of what a call uses.
LEMMA CallRoots ==
    ASSUME IInv, Running, Len(Stack) > 0, NEW n \in 0..Len(Stack) - 1,
           NEW l \in Ids, NEW m \in Ids, NEW b \in Ids, NEW o \in Ids
    PROVE  LET args == SubSeq(Stack, Len(Stack) - n, Len(Stack) - 1)
               R == More(More(More(Root, l), m), b)
           IN  /\ R[o] = Root[o] + One(o = l) + One(o = m) + One(o = b)
               /\ R[o] >= Occ(args, o) + One(o = l) + One(o = m) + One(o = b) + One(o = FromTop(1))
               /\ R[o] \in Nat /\ Occ(args, o) \in Nat /\ Root[o] \in Nat
               /\ Occ(Stack, o) = Occ(Below(n + 1), o) + Occ(args, o) + One(o = FromTop(1))
               /\ Occ(Below(n + 1), o) \in Nat
<1> DEFINE args == SubSeq(Stack, Len(Stack) - n, Len(Stack) - 1)
           R == More(More(More(Root, l), m), b)
<1> DEFINE R1 == More(Root, l)
           R2 == More(R1, m)
           x == One(o = l)
           y == One(o = m)
           z == One(o = b)
           f == FromTop(1)
           w == One(o = f)
           a == Occ(args, o)
           p == Occ(Below(n + 1), o)
           t == Occ(Stack, o)
           u == Root[o]
           r == R[o]
           r1 == R1[o]
           r2 == R2[o]
<1>1. Stack \in Seq(Ids) /\ Len(Stack) \in Nat
  BY Runs
<1>2. /\ args \in Seq(Ids) /\ Below(n + 1) \in Seq(Ids)
      /\ Occ(Stack, o) = Occ(Below(n + 1), o) + Occ(args, o) + One(o = Stack[Len(Stack)])
  BY <1>1, ArgumentsCut DEF Below
<1>3. f = Stack[Len(Stack)]
  <2>1. Len(Stack) + 1 - 1 = Len(Stack)
    BY <1>1
  <2> QED
    BY <2>1 DEF FromTop
<1>4. t = p + a + w /\ a \in Nat /\ p \in Nat
  BY <1>2, <1>3, OccType
<1>5. u \in Nat /\ t \in Nat /\ u >= t
  <2>1. /\ Root[o] = Besides(o) + Occ(Stack, o) + One(o = lb) + One(o = ret)
                      + One(o \in Statics) + One(o = Main)
        /\ Besides(o) \in Nat /\ Occ(Stack, o) \in Nat
    BY RunningRoots
  <2>2. One(o = lb) \in Nat /\ One(o = ret) \in Nat /\ One(o \in Statics) \in Nat /\ One(o = Main) \in Nat
    BY OneType
  <2> DEFINE b1 == Besides(o)
             c1 == One(o = lb)
             c2 == One(o = ret)
             c3 == One(o \in Statics)
             c4 == One(o = Main)
  <2>3. u = b1 + t + c1 + c2 + c3 + c4 /\ b1 \in Nat /\ t \in Nat
    BY <2>1
  <2> HIDE DEF b1, c1, c2, c3, c4, u, t
  <2> QED
    BY <2>2, <2>3, SMTT(30) DEF c1, c2, c3, c4
<1>6. r1 = u + x /\ r2 = r1 + y /\ r = r2 + z
  BY MoreAt
<1>7. x \in Nat /\ y \in Nat /\ z \in Nat /\ w \in Nat
  BY OneType
<1> HIDE DEF R1, R2, x, y, z, w, a, p, t, u, r, r1, r2
<1>8. r = u + x + y + z /\ r >= a + x + y + z + w /\ r \in Nat
  BY <1>4, <1>5, <1>6, <1>7
<1> QED
  BY <1>4, <1>5, <1>8 DEF r, u, x, y, z, w, a, p, t

\* What INVOKE does once its arguments are bound.
CallOps(l, m, b, f, code, g, k) ==
    <<READ(code), SET(b, 1, m), SET(b, 2, g), SET(b, 3, k),
      DEC(m), DEC(f), DEC(l), INC(b), DEC(b)>>

Callers(T, l, m, b, f, code, g, k) ==
    /\ T \in Seq(Op) /\ l \in Ids /\ m \in Ids /\ b \in Ids
    /\ f \in Ids /\ code \in Ids /\ g \in Ids /\ k \in Ids

LEMMA CallTail ==
    ASSUME NEW T, NEW l, NEW m, NEW b, NEW f, NEW code, NEW g, NEW k,
           Callers(T, l, m, b, f, code, g, k)
    PROVE  T \o CallOps(l, m, b, f, code, g, k) = Ends(Makes(T, b, m, code, g, k), l, m, b, f)
<1>0. /\ T \in Seq(Op) /\ l \in Ids /\ m \in Ids /\ b \in Ids
      /\ f \in Ids /\ code \in Ids /\ g \in Ids /\ k \in Ids
  BY DEF Callers
<1>1. /\ SET(b, 1, m) \in Op /\ SET(b, 2, g) \in Op /\ SET(b, 3, k) \in Op /\ READ(code) \in Op
      /\ DEC(m) \in Op /\ DEC(f) \in Op /\ DEC(l) \in Op /\ INC(b) \in Op /\ DEC(b) \in Op
  <2>1. m \in Maybe /\ g \in Maybe /\ k \in Maybe /\ f \in Maybe /\ l \in Maybe /\ b \in Maybe
    BY <1>0 DEF Maybe
  <2>2. 1 \in Names \cup (1..3) /\ 2 \in Names \cup (1..3) /\ 3 \in Names \cup (1..3)
    OBVIOUS
  <2> QED
    BY <1>0, <2>1, <2>2, OpTypes
<1> DEFINE v == <<READ(code), SET(b, 1, m), SET(b, 2, g), SET(b, 3, k),
                  DEC(m), DEC(f), DEC(l), INC(b), DEC(b)>>
<1>2. v \in Seq(Op) /\ Len(v) = 9
  BY <1>1
<1>3. /\ v[1] = READ(code) /\ v[2] = SET(b, 1, m) /\ v[3] = SET(b, 2, g) /\ v[4] = SET(b, 3, k)
      /\ v[5] = DEC(m) /\ v[6] = DEC(f) /\ v[7] = DEC(l) /\ v[8] = INC(b) /\ v[9] = DEC(b)
  OBVIOUS
<1> HIDE DEF v
<1>4. T \o v = Plus(Plus(Plus(Plus(Plus(Plus(Plus(Plus(Plus(T, v[1]), v[2]), v[3]), v[4]),
                        v[5]), v[6]), v[7]), v[8]), v[9])
  BY <1>0, <1>2, ConcatNine, Zenon
<1>5. Ends(Makes(T, b, m, code, g, k), l, m, b, f)
        = Plus(Plus(Plus(Plus(Plus(Plus(Plus(Plus(Plus(T, READ(code)), SET(b, 1, m)),
              SET(b, 2, g)), SET(b, 3, k)), DEC(m)), DEC(f)), DEC(l)), INC(b)), DEC(b))
  BY Zenon DEF Ends, Makes
<1>6. T \o v = Ends(Makes(T, b, m, code, g, k), l, m, b, f)
  BY <1>3, <1>4, <1>5
<1> QED
  BY <1>6, Zenon DEF v, CallOps

LEMMA InvokeHolds == ASSUME IInv, Invoke PROVE IInv'
<1> DEFINE f == FromTop(1)
           code == heap[f].f[1]
           ps == heap[f].ps
           g == heap[code].f[2]
           k == heap[code].f[3]
           l == Fresh({})
           m == Fresh({l})
           b == Fresh({l, m})
           u == New("list", <<>>)
           v == New("map", EmptyMap)
           w == New("block", <<NULL, NULL, NULL>>)
<1>1. /\ Running /\ Len(Stack) > 0 /\ Room(3) /\ heap[f].k = "function"
      /\ UNCHANGED <<phase, defs, ret, lost>>
  BY DEF Invoke
<1>2. PICK n \in 0..Len(Stack) - 1 :
         /\ heap' = [heap EXCEPT ![l] = u, ![m] = v, ![b] = w]
         /\ todo' = Collect(l, SubSeq(Stack, Len(Stack) - n, Len(Stack) - 1)) \o <<READ(f)>>
                      \o Bind(m, ps, SubSeq(Stack, Len(Stack) - n, Len(Stack) - 1))
                      \o <<READ(code), SET(b, 1, m), SET(b, 2, g), SET(b, 3, k),
                           DEC(m), DEC(f), DEC(l), INC(b), DEC(b)>>
         /\ frames' = [frames EXCEPT ![Len(frames)].stk = Below(n + 1)] \o <<Frame(b)>>
  BY ZenonT(40) DEF Invoke, Field, GlobalsOf, Consts
<1> DEFINE args == SubSeq(Stack, Len(Stack) - n, Len(Stack) - 1)
           s == Below(n + 1)
           H1 == Birth(heap, l, u)
           H2 == Birth(H1, m, v)
           H == Birth(H2, b, w)
           R1 == More(Root, l)
           R2 == More(R1, m)
           R == More(R2, b)
           W == Without(R, args)
           Q == Less(Less(Less(W, m), f), l)
           T1 == Collect(l, args)
           T2 == Plus(T1, READ(f))
           T3 == T2 \o Bind(m, ps, args)
           T4 == Makes(T3, b, m, code, g, k)
           T == Ends(T4, l, m, b, f)
<1>3. heap' = H
  BY <1>2, SMTT(30) DEF Birth
<1>4. frames' = WithStack(s) \o <<Frame(b)>>
  BY <1>2 DEF WithStack, WithTop
<1>5. /\ l \in Ids /\ m \in Ids /\ b \in Ids /\ l # m /\ l # b /\ m # b
      /\ heap[l].k = "free" /\ heap[m].k = "free" /\ heap[b].k = "free"
  <2>1. 3 \in Nat /\ 3 > 2
    OBVIOUS
  <2> QED
    BY <1>1, <2>1, FreshThree, ZenonT(30)
<1>6. /\ f \in Ids /\ DOMAIN heap[f].f = 1..1 /\ ps \in Seq(Names)
      /\ code \in Ids /\ heap[code].k = "block" /\ DOMAIN heap[code].f = 1..3
      /\ g \in Ids /\ heap[g].k = "map" /\ k \in Ids /\ heap[k].k = "list"
  BY <1>1, CalledFields
<1>7. u \in Blanks /\ v \in Blanks /\ w \in Blanks
  BY DEF Blanks
<1>8. /\ u.k = "list" /\ v.k = "map" /\ w.k = "block" /\ DOMAIN w.f = 1..3
      /\ (\A x \in DOMAIN v.f : v.f[x] = NULL) /\ (\A x \in DOMAIN w.f : w.f[x] = NULL)
  <2>1. u.k = "list" /\ v.k = "map" /\ w.k = "block" /\ w.f = <<NULL, NULL, NULL>>
    BY DEF New
  <2>2. DOMAIN w.f = 1..3
    BY <2>1
  <2>3. (\A x \in DOMAIN v.f : v.f[x] = NULL) /\ (\A x \in DOMAIN w.f : w.f[x] = NULL)
    BY <1>7, BlankFacts
  <2> QED
    BY <2>1, <2>2, <2>3
<1>9. Grown(heap, Root) /\ \A U : Filled(heap, U)
  BY <1>1, GrownFirst DEF Ready, Running
<1>10. /\ Stack \in Seq(Ids) /\ Len(Stack) \in Nat
       /\ \A i \in 1..Len(Stack) : Stack[i] \in Ids /\ heap[Stack[i]].k \in Items
  BY <1>1, Runs
<1>11. /\ args \in Seq(Ids) /\ (\A i \in 1..Len(args) : \E j \in 1..Len(Stack) : args[i] = Stack[j])
       /\ s \in Seq(Ids) /\ \A i \in 1..Len(s) : \E j \in 1..Len(Stack) : s[i] = Stack[j]
  BY <1>10, ArgumentsCut DEF Below
<1>12. ASSUME NEW o \in Ids
       PROVE  /\ R[o] = Root[o] + One(o = l) + One(o = m) + One(o = b)
              /\ R[o] >= Occ(args, o) + One(o = l) + One(o = m) + One(o = b) + One(o = f)
              /\ R[o] \in Nat /\ Occ(args, o) \in Nat /\ Root[o] \in Nat
              /\ Occ(Stack, o) = Occ(s, o) + Occ(args, o) + One(o = f)
              /\ Occ(s, o) \in Nat
  <2> HIDE DEF l, m, b
  <2>1. LET x == SubSeq(Stack, Len(Stack) - n, Len(Stack) - 1)
            Y == More(More(More(Root, l), m), b)
        IN  /\ Y[o] = Root[o] + One(o = l) + One(o = m) + One(o = b)
            /\ Y[o] >= Occ(x, o) + One(o = l) + One(o = m) + One(o = b) + One(o = FromTop(1))
            /\ Y[o] \in Nat /\ Occ(x, o) \in Nat /\ Root[o] \in Nat
            /\ Occ(Stack, o) = Occ(Below(n + 1), o) + Occ(x, o) + One(o = FromTop(1))
            /\ Occ(Below(n + 1), o) \in Nat
    BY <1>1, <1>5, CallRoots, SMTT(30)
  <2> QED
    BY <2>1, Zenon DEF R, R2, R1, args, s, f
<1> HIDE DEF f, code, ps, g, k, l, m, b, u, v, w, args, s
<1>13. /\ Grown(H1, R1) /\ DOMAIN heap = Ids /\ H1[l] = u /\ \A o : o # l => H1[o] = heap[o]
  BY <1>5, <1>7, <1>9, GrownBlank
<1> HIDE DEF H1
<1>14. /\ Grown(H2, R2) /\ DOMAIN H1 = Ids /\ H2[m] = v /\ \A o : o # m => H2[o] = H1[o]
  <2>1. H1[m].k = "free"
    BY <1>5, <1>13
  <2> QED
    BY <1>5, <1>7, <1>13, <2>1, GrownBlank
<1> HIDE DEF H2
<1>15. /\ Grown(H, R) /\ DOMAIN H2 = Ids /\ H[b] = w /\ \A o : o # b => H[o] = H2[o]
  <2>1. H2[b].k = "free"
    BY <1>5, <1>13, <1>14
  <2> QED
    BY <1>5, <1>7, <1>14, <2>1, GrownBlank
<1>16. OnIds(R)
  BY AllOnIds
<1> HIDE DEF H, R, R1, R2
<1>17. Records(H) /\ Begun(H, <<>>, R) /\ Alike(heap, H)
  BY <1>15 DEF Grown
<1>18. /\ H[l] = u /\ H[m] = v /\ H[b] = w
       /\ \A o \in Ids : heap[o].k # "free" => H[o] = heap[o] /\ o # l /\ o # m /\ o # b
  BY <1>5, <1>13, <1>14, <1>15
<1>19. /\ H[f] = heap[f] /\ f \notin {l, m, b} /\ H[code] = heap[code] /\ code \notin {l, m, b}
       /\ H[g].k = "map" /\ H[k].k = "list" /\ H[f].f[1] = code /\ H[code].f[2] = g /\ H[code].f[3] = k
  <2>1. heap[f].k # "free" /\ heap[code].k # "free" /\ heap[g].k # "free" /\ heap[k].k # "free"
    BY <1>1, <1>6 DEF f
  <2>2. /\ H[f] = heap[f] /\ f \notin {l, m, b} /\ H[code] = heap[code] /\ code \notin {l, m, b}
        /\ H[g] = heap[g] /\ H[k] = heap[k]
    BY <1>6, <1>18, <2>1
  <2>3. heap[f].f[1] = code /\ heap[code].f[2] = g /\ heap[code].f[3] = k
    BY DEF code, g, k
  <2> QED
    BY <1>6, <2>2, <2>3
<1>20. \A i \in 1..Len(args) : H[args[i]].k \in Items
  <2>1. ASSUME NEW i \in 1..Len(args) PROVE H[args[i]].k \in Items
    <3>1. PICK j \in 1..Len(Stack) : args[i] = Stack[j]
      BY <1>11
    <3>2. Stack[j] \in Ids /\ heap[Stack[j]].k \in Items
      BY <1>10
    <3>3. heap[Stack[j]].k # "free"
      BY <3>2 DEF Items
    <3> QED
      BY <1>17, <3>1, <3>2, <3>3 DEF Alike
  <2> QED
    BY <2>1
<1>21. ASSUME NEW o \in Ids
       PROVE  /\ W[o] = R[o] - Occ(args, o)
              /\ W[o] >= One(o = l) /\ W[o] >= One(o = m) /\ W[o] >= One(o = b)
              /\ W[o] >= One(o = f)
  <2> DEFINE x == One(o = l)
             y == One(o = m)
             z == One(o = b)
             q == One(o = f)
             a == Occ(args, o)
             r == R[o]
             p == W[o]
  <2>1. r >= a + x + y + z + q /\ r \in Nat /\ a \in Nat
    BY <1>12
  <2>2. p = r - a
    BY DEF Without
  <2>3. x \in Nat /\ y \in Nat /\ z \in Nat /\ q \in Nat
    BY OneType
  <2> HIDE DEF x, y, z, q, a, r, p
  <2>4. p >= x /\ p >= y /\ p >= z /\ p >= q
    BY <2>1, <2>2, <2>3
  <2> QED
    BY <2>2, <2>4 DEF x, y, z, q, a, r, p
<1> HIDE DEF W
<1>22. W[l] > 0 /\ W[m] > 0 /\ W[b] > 0 /\ W[f] > 0
  <2>1. One(l = l) = 1 /\ One(m = m) = 1 /\ One(b = b) = 1 /\ One(f = f) = 1
    BY DEF One
  <2>2. ASSUME NEW o \in Ids PROVE W[o] \in Int
    <3>1. R[o] \in Nat /\ Occ(args, o) \in Nat
      BY <1>12
    <3> QED
      BY <1>21, <3>1
  <2>3. W[l] >= 1 /\ W[m] >= 1 /\ W[b] >= 1 /\ W[f] >= 1
    BY <1>5, <1>6, <1>21, <2>1
  <2>4. W[l] \in Int /\ W[m] \in Int /\ W[b] \in Int /\ W[f] \in Int
    BY <1>5, <1>6, <2>2
  <2> QED
    BY <2>3, <2>4
<1>23. Calling(H, W, l, m, b, f)
  <2>1. 1 \in DOMAIN H[f].f
    BY <1>6, <1>19
  <2>2. Bare(H, b)
    BY <1>8, <1>18 DEF Bare
  <2> QED
    BY <1>5, <1>6, <1>8, <1>18, <1>19, <1>22, <2>1, <2>2 DEF Calling, IsA
<1>24. Binding(H, W, l, m, b, args)
  <2>1. Bare(H, m)
    BY <1>8, <1>18 DEF Bare
  <2> QED
    BY <1>5, <1>8, <1>11, <1>18, <1>20, <1>22, <2>1 DEF Binding
<1>25. Bound(H, T1, W, l, m, b, args)
  <2>1. Spare(H, R, l, args)
    <3>1. ASSUME NEW o \in Ids PROVE R[o] >= Occ(args, o) + One(o = l)
      <4>1. /\ R[o] >= Occ(args, o) + One(o = l) + One(o = m) + One(o = b) + One(o = f)
            /\ R[o] \in Nat /\ Occ(args, o) \in Nat
        BY <1>12
      <4>2. One(o = l) \in Nat /\ One(o = m) \in Nat /\ One(o = b) \in Nat /\ One(o = f) \in Nat
        BY OneType
      <4> QED
        BY <4>1, <4>2
    <3> QED
      BY <1>11, <1>20, <3>1 DEF Spare
  <2>2. H[l].k = "list"
    BY <1>8, <1>18
  <2>3. Begun(H, T1, W)
    BY <1>5, <1>16, <1>17, <2>1, <2>2, CollectBegun DEF W
  <2>4. Calls(T1, l, m, b, {}) /\ Given(T1, l, args)
    BY <1>5, <1>11, CollectCalls
  <2> QED
    BY <2>3, <2>4 DEF Bound
<1>26. READ(f) \in Op /\ READ(f).op = "read" /\ T1 \in Seq(Op)
  BY <1>6, <1>25, OpTypes, OpFields DEF Bound, Begun
<1> HIDE DEF T1
<1>27. Bound(H, T2, W, l, m, b, args)
  <2>1. Begun(H, T1, W) /\ Calls(T1, l, m, b, {}) /\ Given(T1, l, args)
    BY <1>25 DEF Bound
  <2>2. Backed(H, T1, READ(f), W, f)
    BY <1>6, <1>22, <2>1, BackRoot
  <2>3. Begun(H, T2, W)
    BY <1>6, <2>1, <2>2, AddRead
  <2>4. Wanted(READ(f), l, m, b, {})
    BY <1>26 DEF Wanted
  <2>5. Calls(T2, l, m, b, {}) /\ Given(T2, l, args)
    BY <1>26, <2>1, <2>4, CallsPlus, GivenPlus
  <2> QED
    BY <2>3, <2>5 DEF Bound
<1>28. T2 \in Seq(Op)
  BY <1>26, PlusParts
<1> HIDE DEF T2
<1>29. Bound(H, T3, W, l, m, b, args)
  BY <1>6, <1>24, <1>27, BindBegun
<1> HIDE DEF T3
<1>30. Begun(H, T3, W) /\ Calls(T3, l, m, b, {}) /\ T3 \in Seq(Op)
  BY <1>29 DEF Bound, Begun
<1>31. Begun(H, T4, W) /\ \A x \in 1..3 : Stale(T4, b, x)
  <2>1. /\ Begun(H, Makes(T3, b, m, code, H[code].f[2], H[code].f[3]), W)
        /\ \A x \in 1..3 : Stale(Makes(T3, b, m, code, H[code].f[2], H[code].f[3]), b, x)
    BY <1>19, <1>23, <1>30, BlockMade
  <2> QED
    BY <1>19, <2>1
<1>32. Begun(H, T, Q) /\ \A x \in 1..3 : Stale(T, b, x)
  <2> HIDE DEF T4
  <2> QED
    BY <1>23, <1>31, CallEnded
<1>33. todo' = T
  <2>1. T3 \o CallOps(l, m, b, f, code, g, k)
          = Ends(Makes(T3, b, m, code, g, k), l, m, b, f)
    <3>1. T3 \in Seq(Op) /\ b \in Ids /\ m \in Ids /\ l \in Ids
      BY <1>5, <1>30
    <3>2. code \in Ids /\ g \in Ids /\ k \in Ids /\ f \in Ids
      BY <1>6
    <3> HIDE DEF T4, T
    <3> QED
      BY <3>1, <3>2, CallTail DEF Callers
  <2>2. T = Ends(Makes(T3, b, m, code, g, k), l, m, b, f)
    BY Zenon
  <2>4. T3 = (Collect(l, args) \o <<READ(f)>>) \o Bind(m, ps, args)
    BY Zenon DEF T3, T2, T1, Plus
  <2>5. todo' = ((Collect(l, args) \o <<READ(f)>>) \o Bind(m, ps, args))
                   \o CallOps(l, m, b, f, code, g, k)
    BY <1>2, Zenon DEF args, CallOps
  <2> QED
    BY <2>1, <2>2, <2>4, <2>5, Zenon
<1> HIDE DEF T, T4
<1>34. Filled(H, T)
  <2>1. Filled(H1, T)
    <3>1. u.k \notin {"block", "function"} /\ Filled(heap, T)
      BY <1>8, <1>9
    <3> QED
      BY <1>5, <1>13, <3>1, BlankFilled DEF H1
  <2>2. Filled(H2, T)
    <3>1. v.k \notin {"block", "function"}
      BY <1>8
    <3> QED
      BY <1>5, <1>14, <2>1, <3>1, BlankFilled DEF H2
  <2>3. \A x \in DOMAIN w.f : w.f[x] = NULL => Stale(T, b, x)
    BY <1>8, <1>32
  <2> QED
    BY <1>5, <1>15, <2>2, <2>3, BirthFilled DEF H
<1>35. Prepared(H, T, Q)
  BY <1>17, <1>32, <1>34, AllOnIds DEF Prepared
<1>36. Stacked(H, s)
  <2>1. ASSUME NEW i \in 1..Len(s) PROVE H[s[i]].k \in Items
    <3>1. PICK j \in 1..Len(Stack) : s[i] = Stack[j]
      BY <1>11
    <3>2. Stack[j] \in Ids /\ heap[Stack[j]].k \in Items
      BY <1>10
    <3>3. heap[Stack[j]].k # "free"
      BY <3>2 DEF Items
    <3> QED
      BY <1>17, <3>1, <3>2, <3>3 DEF Alike
  <2> QED
    BY <1>11, <2>1 DEF Stacked
<1>37. ASSUME NEW o \in Ids
       PROVE  Q[o] + Occ(Stack, o) = Root[o] + Occ(s, o) + One(o = b)
  <2> DEFINE x == One(o = l)
             y == One(o = m)
             z == One(o = b)
             q == One(o = f)
             a == Occ(args, o)
             c == Occ(s, o)
             t == Occ(Stack, o)
             h == Root[o]
             r == R[o]
             p == W[o]
             p1 == Less(W, m)[o]
             p2 == Less(Less(W, m), f)[o]
             p3 == Q[o]
  <2>1. r = h + x + y + z /\ t = c + a + q /\ h \in Nat /\ a \in Nat /\ c \in Nat /\ r \in Nat
    BY <1>12
  <2>2. p = r - a
    BY <1>21
  <2>3. p1 = p - y /\ p2 = p1 - q /\ p3 = p2 - x
    BY LessAt
  <2>4. x \in Nat /\ y \in Nat /\ z \in Nat /\ q \in Nat
    BY OneType
  <2> HIDE DEF x, y, z, q, a, c, t, h, r, p, p1, p2, p3
  <2>5. p3 + t = h + c + z
    BY <2>1, <2>2, <2>3, <2>4
  <2> QED
    BY <2>5 DEF p3, t, h, c, z
<1> HIDE DEF Q
<1>38. H[b].k = "block"
  BY <1>8, <1>18
<1>39. Holding(H, T, WithStack(s) \o <<Frame(b)>>, ret, phase, defs, lost)
  BY <1>1, <1>5, <1>35, <1>36, <1>37, <1>38, BlockStarts
<1> QED
  BY <1>1, <1>3, <1>4, <1>33, <1>39, Zenon DEF IInv

-----------------------------------------------------------------------------
(* The beginning. *)

\* Before the first object.
Nothing == [o \in Ids |-> FREE]
Unheld == [o \in Ids |-> 0]

LEMMA NothingBegun == Records(Nothing) /\ Begun(Nothing, <<>>, Unheld)
<1> DEFINE H == Nothing
           R == Unheld
<1>1. /\ \A o \in Ids : H[o] = FREE /\ R[o] = 0
      /\ FREE.k = "free" /\ FREE.rc = 0 /\ FREE.f = <<>> /\ Boxed(FREE)
  BY DEF Nothing, Unheld, FREE, Boxed
<1>2. Records(H)
  BY <1>1 DEF Records, Nothing
<1> HIDE DEF H, R
<1>3. ASSUME NEW o \in Ids PROVE Held(H, <<>>, o) = 0
  <2> DEFINE X == [b \in Ids |-> Kept(H, <<>>, b, o)]
  <2>1. DOMAIN X = Ids /\ \A b \in Ids : X[b] = {}
    BY <1>1 DEF Kept
  <2>2. Held(H, <<>>, o) = Tally(X)
    BY DEF Held
  <2> HIDE DEF X
  <2>3. \A b \in DOMAIN X : IsFiniteSet(X[b])
    BY <2>1, FS_EmptySet
  <2>4. Tally(X) \in Nat /\ (Tally(X) > 0 <=> \E i \in DOMAIN X : X[i] # {})
    BY <2>1, <2>3, IdsFinite, TallyType
  <2> QED
    BY <2>1, <2>2, <2>4
<1>4. Weighed(H, <<>>, R)
  <2>1. ASSUME NEW o \in Ids
        PROVE  H[o].rc + Occ(<<>>, INC(o)) = Held(H, <<>>, o) + R[o] + Occ(<<>>, DEC(o))
    BY <1>1, <1>3, EmptyTodo
  <2> QED
    BY <2>1 DEF Weighed
<1>5. Guarded(H, <<>>, R) /\ Alone(<<>>) /\ <<>> \in Seq(Op)
  BY EmptyTodo DEF Guarded, Alone
<1>6. \A j \in 1..Len(<<>>) : Fits(H, <<>>[j]) /\ Fillable(H, <<>>[j])
  BY EmptyTodo
<1>7. Begun(H, <<>>, R)
  BY <1>1, <1>4, <1>5, <1>6 DEF Begun
<1> QED
  BY <1>2, <1>7 DEF H, R

\* The objects that there are from the beginning.
TheGlobals == [New("map", EmptyMap) EXCEPT !.rc = 2]
TheMain == New("block", <<Globals, Globals, 3>>)
WithGlobals == Birth(Nothing, Globals, TheGlobals)
WithList == Birth(WithGlobals, 3, New("list", <<>>))
WithMain == Birth(WithList, Main, TheMain)
WithBools == Birth(WithMain, Static, New("static", <<>>))
First == Birth(WithBools, Nil, New("static", <<>>))

LEMMA Places4 ==
    /\ Static = 1 /\ Globals = 2 /\ Main = 4 /\ Nil = 5 /\ Statics = {1, 5}
    /\ 1 \in Ids /\ 2 \in Ids /\ 3 \in Ids /\ 4 \in Ids /\ 5 \in Ids /\ Ids \subseteq Nat
  BY BoundsAssumption DEF Static, Globals, Main, Nil, Statics, Ids

LEMMA InitHeap == Init => heap = First
<1> SUFFICES ASSUME Init PROVE heap = First
  OBVIOUS
<1> DEFINE g == TheGlobals
           l == New("list", <<>>)
           m == TheMain
           s == New("static", <<>>)
<1>1. heap = [o \in Ids |-> CASE o \in {1, 5} -> s [] o = 2 -> g [] o = 3 -> l [] o = 4 -> m
                              [] OTHER -> FREE]
  BY Places4 DEF Init, TheGlobals, TheMain
<1>2. First = [[[[[[o \in Ids |-> FREE] EXCEPT ![2] = g] EXCEPT ![3] = l] EXCEPT ![4] = m]
                  EXCEPT ![1] = s] EXCEPT ![5] = s]
  BY Places4 DEF First, WithBools, WithMain, WithList, WithGlobals, Nothing, Birth
<1> HIDE DEF g, l, m, s
<1> QED
  BY <1>1, <1>2

LEMMA GlobalsFields ==
    /\ TheGlobals.k = "map" /\ TheGlobals.rc = 2 /\ TheGlobals.f = EmptyMap
    /\ Boxed(TheGlobals) /\ DOMAIN EmptyMap = Names /\ \A n \in Names : EmptyMap[n] = NULL
<1>1. New("map", EmptyMap) = [k |-> "map", rc |-> 1, f |-> EmptyMap, ps |-> <<>>]
  BY DEF New
<1>2. DOMAIN EmptyMap = Names /\ \A n \in Names : EmptyMap[n] = NULL
  BY DEF EmptyMap
<1> DEFINE e == EmptyMap
<1>3. TheGlobals = [[k |-> "map", rc |-> 1, f |-> e, ps |-> <<>>] EXCEPT !.rc = 2]
  BY <1>1 DEF TheGlobals
<1> HIDE DEF e
<1>4. TheGlobals.k = "map" /\ TheGlobals.rc = 2 /\ TheGlobals.f = e /\ Boxed(TheGlobals)
  BY <1>3 DEF Boxed
<1> QED
  BY <1>2, <1>4 DEF e

\* The globals, with a reference of the block and one of the compiler's.
LEMMA GlobalsBegun ==
    /\ Records(WithGlobals) /\ Begun(WithGlobals, <<>>, More(More(Unheld, Globals), Globals))
    /\ WithGlobals[Globals] = TheGlobals
    /\ \A o \in Ids : o # Globals => WithGlobals[o] = FREE
<1> DEFINE H == WithGlobals
           v == TheGlobals
           n == Globals
           R == Unheld
           R1 == More(R, n)
           Q == More(R1, n)
<1>1. Records(Nothing) /\ Begun(Nothing, <<>>, R) /\ DOMAIN Nothing = Ids /\ n \in Ids
  BY NothingBegun, Places4 DEF Nothing
<1>2. Nothing[n].k = "free" /\ \A o \in Ids : Nothing[o] = FREE
  BY <1>1 DEF Nothing, FREE
<1>3. v.rc = 2 /\ v.k = "map" /\ Boxed(v) /\ v.f = EmptyMap
  BY GlobalsFields
<1>4. /\ Records(H) /\ H[n] = v /\ \A o : o # n => H[o] = Nothing[o]
  BY <1>1, <1>3, BirthRecords DEF WithGlobals
<1>5. Bears(Nothing, R, n, v, Q)
  <2>1. ASSUME NEW o \in Ids
        PROVE  Q[o] \in Nat /\ Q[o] + Occ(v.f, o) = R[o] + IF o = n THEN v.rc ELSE 0
    <3>1. Places(v.f, o) = {}
      BY <1>3, GlobalsFields, IdsFinite DEF Places
    <3>2. Occ(v.f, o) = 0
      BY <3>1, FS_EmptySet DEF Occ
    <3>3. R[o] = 0 /\ R1[o] = R[o] + One(o = n) /\ Q[o] = R1[o] + One(o = n)
      BY MoreAt DEF Unheld
    <3>4. One(o = n) = IF o = n THEN 1 ELSE 0
      BY DEF One
    <3> DEFINE q == Q[o]
               r == R1[o]
               d == One(o = n)
    <3>5. R[o] = 0 /\ r = 0 + d /\ q = r + d /\ d = IF o = n THEN 1 ELSE 0
      BY <3>3, <3>4
    <3> HIDE DEF q, r, d
    <3>6. q \in Nat /\ q + 0 = 0 + IF o = n THEN 2 ELSE 0
      BY <3>5
    <3> QED
      BY <1>3, <3>2, <3>3, <3>6 DEF q
  <2> QED
    BY <2>1 DEF Bears
<1>6. Drafted(Birth(Nothing, n, v), n)
  <2>1. H[n].k = "map" /\ H[n].f = EmptyMap
    BY <1>3, <1>4
  <2>2. Framed(H, n) /\ \A x \in DOMAIN H[n].f : H[n].f[x] = NULL
    BY <2>1, GlobalsFields DEF Framed
  <2> QED
    BY <2>1, <2>2 DEF Drafted, WithGlobals
<1>7. v.rc \in Nat \ {0}
  BY <1>3
<1>8. Begun(Birth(Nothing, n, v), <<>>, Q)
  BY <1>1, <1>2, <1>5, <1>6, <1>7, NewBegun
<1> QED
  BY <1>2, <1>4, <1>8 DEF WithGlobals

\* The list of constants.
LEMMA ListBegun ==
    /\ Records(WithList) /\ Begun(WithList, <<>>, More(More(More(Unheld, Globals), Globals), 3))
    /\ WithList[Globals] = TheGlobals /\ WithList[3] = New("list", <<>>)
    /\ \A o \in Ids : o # Globals /\ o # 3 => WithList[o] = FREE
<1> DEFINE l == New("list", <<>>)
           R == More(More(Unheld, Globals), Globals)
<1>1. l \in Blanks /\ Boxed(l)
  BY BlankFacts DEF Blanks
<1>2. 3 \in Ids /\ 3 # Globals /\ FREE.k = "free" /\ Globals \in Ids
  BY Places4 DEF FREE
<1>3. Records(WithGlobals) /\ Begun(WithGlobals, <<>>, R) /\ WithGlobals[3].k = "free"
  BY <1>2, GlobalsBegun
<1>4. /\ Records(WithList) /\ WithList[3] = l /\ DOMAIN WithGlobals = Ids
      /\ \A o : o # 3 => WithList[o] = WithGlobals[o]
  BY <1>1, <1>2, <1>3, BirthRecords DEF WithList
<1>5. Begun(WithList, <<>>, More(R, 3))
  BY <1>1, <1>2, <1>3, <1>4, BlankBegun DEF WithList
<1> QED
  BY <1>2, <1>4, <1>5, GlobalsBegun

\* The block of the file, which takes the globals twice and the list.
LEMMA MainBegun ==
    /\ Records(WithMain) /\ Begun(WithMain, <<>>, More(Unheld, Main))
    /\ WithMain[Main] = TheMain /\ TheMain.k = "block" /\ TheMain.f = <<Globals, Globals, 3>>
    /\ WithMain[Globals] = TheGlobals /\ WithMain[3] = New("list", <<>>)
    /\ \A o \in Ids : o # Globals /\ o # 3 /\ o # Main => WithMain[o] = FREE
<1> DEFINE v == TheMain
           n == Main
           g == Globals
           l == New("list", <<>>)
           R1 == More(Unheld, g)
           R2 == More(R1, g)
           R == More(R2, 3)
           Q == More(Unheld, n)
<1>1. /\ g \in Ids /\ 3 \in Ids /\ n \in Ids /\ n # g /\ n # 3 /\ g # 3
      /\ FREE.k = "free"
  BY Places4 DEF FREE
<1>2. v.k = "block" /\ v.rc = 1 /\ v.f = <<g, g, 3>> /\ Boxed(v)
  BY DEF TheMain, New, Boxed
<1>3. /\ Records(WithList) /\ Begun(WithList, <<>>, R) /\ WithList[n].k = "free"
      /\ WithList[g] = TheGlobals /\ WithList[3] = l
      /\ \A o \in Ids : o # g /\ o # 3 => WithList[o] = FREE
  BY <1>1, ListBegun
<1> HIDE DEF v, l
<1>4. /\ Records(WithMain) /\ WithMain[n] = v /\ DOMAIN WithList = Ids
      /\ \A o : o # n => WithMain[o] = WithList[o]
  BY <1>1, <1>2, <1>3, BirthRecords DEF WithMain, v
<1>5. Bears(WithList, R, n, v, Q)
  <2>1. ASSUME NEW o \in Ids
        PROVE  Q[o] \in Nat /\ Q[o] + Occ(v.f, o) = R[o] + IF o = n THEN v.rc ELSE 0
    <3>1. Occ(v.f, o) = One(g = o) + One(g = o) + One(3 = o)
      <4>1. Occ(<<g, g, 3>>, o) = One(g = o) + One(g = o) + One(3 = o)
        BY <1>1, OccTriple
      <4> QED
        BY <1>2, <4>1
    <3>2. /\ Unheld[o] = 0 /\ R1[o] = Unheld[o] + One(o = g) /\ R2[o] = R1[o] + One(o = g)
          /\ R[o] = R2[o] + One(o = 3) /\ Q[o] = Unheld[o] + One(o = n)
      BY MoreAt DEF Unheld
    <3>3. One(g = o) = One(o = g) /\ One(3 = o) = One(o = 3)
      BY DEF One
    <3> DEFINE q == Q[o]
               r == R[o]
               r1 == R1[o]
               r2 == R2[o]
               a == One(o = g)
               b == One(o = 3)
               d == One(o = n)
               c == Occ(v.f, o)
    <3>4. /\ c = a + a + b /\ r1 = 0 + a /\ r2 = r1 + a /\ r = r2 + b /\ q = 0 + d
      BY <3>1, <3>2, <3>3
    <3>5. a \in Nat /\ b \in Nat /\ d \in Nat /\ d = IF o = n THEN 1 ELSE 0
      BY OneType DEF One
    <3> HIDE DEF q, r, r1, r2, a, b, c, d
    <3>6. q \in Nat /\ q + c = r + d
      BY <3>4, <3>5
    <3> QED
      BY <1>2, <3>5, <3>6 DEF q, r, c
  <2> QED
    BY <2>1 DEF Bears
<1>6. Drafted(Birth(WithList, n, v), n)
  <2> DEFINE H == WithMain
  <2>1. H[n].k = "block" /\ H[n].f = <<g, g, 3>>
    BY <1>2, <1>4
  <2>2. H[g].k = "map" /\ H[3].k = "list"
    BY <1>1, <1>3, <1>4, GlobalsFields DEF New, l
  <2> HIDE DEF H
  <2>3. DOMAIN H[n].f = 1..3 /\ H[n].f[1] = g /\ H[n].f[2] = g /\ H[n].f[3] = 3
    BY <2>1
  <2>4. Framed(H, n)
    BY <2>1, <2>3 DEF Framed
  <2>5. \A x \in 1..3 : Accepts(H, n, x, H[n].f[x])
    <3>1. IsA(H, g, {"map"}) /\ IsA(H, 3, {"list"})
      BY <1>1, <2>2 DEF IsA
    <3>2. \A x \in 1..3 : x \in {1, 2} \/ x = 3
      OBVIOUS
    <3>3. 1 \in 1..2 /\ 2 \in 1..2
      OBVIOUS
    <3>4. Accepts(H, n, 1, H[n].f[1]) /\ Accepts(H, n, 2, H[n].f[2]) /\ Accepts(H, n, 3, H[n].f[3])
      BY <2>1, <2>3, <3>1, <3>3 DEF Accepts
    <3> QED
      BY <3>2, <3>4
  <2>6. Drafted(H, n)
    BY <2>1, <2>3, <2>4, <2>5 DEF Drafted
  <2> QED
    BY <2>6 DEF H, WithMain, v
<1>7. v.rc \in Nat \ {0}
  BY <1>2
<1>8. Begun(Birth(WithList, n, v), <<>>, Q)
  BY <1>1, <1>3, <1>4, <1>5, <1>6, <1>7, NewBegun
<1> QED
  BY <1>1, <1>2, <1>3, <1>4, <1>8 DEF WithMain, v, l

\* A static object.
LEMMA StaticBorn ==
    ASSUME NEW H, NEW R, Records(H), Begun(H, <<>>, R), NEW n \in Ids, H[n].k = "free",
           NEW G, G = Birth(H, n, New("static", <<>>))
    PROVE  /\ Records(G) /\ Begun(G, <<>>, More(R, n)) /\ G[n].k = "static"
           /\ \A o : o # n => G[o] = H[o]
<1> DEFINE v == New("static", <<>>)
           Q == More(R, n)
<1>1. v.k = "static" /\ v.rc = 1 /\ v.f = <<>> /\ Boxed(v) /\ G = Birth(H, n, v)
  BY DEF New, Boxed
<1> HIDE DEF v
<1>2. Records(G) /\ G[n] = v /\ DOMAIN H = Ids /\ \A o : o # n => G[o] = H[o]
  BY <1>1, BirthRecords
<1>3. Bears(H, R, n, v, Q)
  <2>1. ASSUME NEW o \in Ids
        PROVE  Q[o] \in Nat /\ Q[o] + Occ(v.f, o) = R[o] + IF o = n THEN v.rc ELSE 0
    <3>1. Occ(v.f, o) = 0
      BY <1>1, OccShort
    <3>2. R[o] \in Nat /\ Q[o] = R[o] + One(o = n)
      BY MoreAt DEF Begun
    <3> DEFINE q == Q[o]
               r == R[o]
               d == One(o = n)
    <3>3. r \in Nat /\ q = r + d /\ d \in Nat /\ d = IF o = n THEN 1 ELSE 0
      BY <3>2, OneType DEF One
    <3> HIDE DEF q, r, d
    <3>4. q \in Nat /\ q + 0 = r + d
      BY <3>3
    <3> QED
      BY <1>1, <3>1, <3>3, <3>4 DEF q, r
  <2> QED
    BY <2>1 DEF Bears
<1>4. Drafted(Birth(H, n, v), n)
  <2>1. G[n].k = "static" /\ G[n].f = <<>>
    BY <1>1, <1>2
  <2>2. Framed(G, n) /\ DOMAIN G[n].f = {}
    BY <2>1 DEF Framed
  <2>3. Drafted(G, n)
    BY <2>1, <2>2 DEF Drafted
  <2> QED
    BY <1>1, <2>3
<1>5. v.rc \in Nat \ {0}
  BY <1>1
<1>6. Begun(Birth(H, n, v), <<>>, Q)
  BY <1>2, <1>3, <1>4, <1>5, NewBegun
<1> QED
  BY <1>1, <1>2, <1>6

\* The values that every program shares.
LEMMA FirstBegun ==
    /\ Records(First) /\ Begun(First, <<>>, More(More(More(Unheld, Main), Static), Nil))
    /\ First[Static].k = "static" /\ First[Nil].k = "static" /\ First[Main] = TheMain
    /\ First[Globals].k = "map" /\ First[3].k = "list"
    /\ \A o \in Ids : o \notin {Static, Globals, 3, Main, Nil} => First[o].k = "free"
<1> DEFINE R == More(Unheld, Main)
           Q == More(R, Static)
<1>1. /\ Static \in Ids /\ Static \notin {Main, Globals, 3} /\ FREE.k = "free"
      /\ Nil \in Ids /\ Nil \notin {Main, Globals, 3, Static} /\ Main \notin {Globals, 3}
  BY Places4 DEF FREE
<1>2. /\ Records(WithMain) /\ Begun(WithMain, <<>>, R)
      /\ WithMain[Main] = TheMain /\ WithMain[Globals].k = "map" /\ WithMain[3].k = "list"
      /\ \A o \in Ids : o # Globals /\ o # 3 /\ o # Main => WithMain[o].k = "free"
  <2>1. New("list", <<>>).k = "list"
    BY DEF New
  <2> QED
    BY <1>1, <2>1, MainBegun, GlobalsFields
<1>3. /\ Records(WithBools) /\ Begun(WithBools, <<>>, Q) /\ WithBools[Static].k = "static"
      /\ \A o : o # Static => WithBools[o] = WithMain[o]
  <2>1. WithMain[Static].k = "free" /\ WithBools = Birth(WithMain, Static, New("static", <<>>))
    BY <1>1, <1>2 DEF WithBools
  <2> QED
    BY <1>1, <1>2, <2>1, StaticBorn
<1>4. /\ Records(First) /\ Begun(First, <<>>, More(Q, Nil)) /\ First[Nil].k = "static"
      /\ \A o : o # Nil => First[o] = WithBools[o]
  <2>1. WithBools[Nil].k = "free" /\ First = Birth(WithBools, Nil, New("static", <<>>))
    BY <1>1, <1>2, <1>3 DEF First
  <2> QED
    BY <1>1, <1>3, <2>1, StaticBorn
<1>5. /\ First[Static] = WithBools[Static] /\ First[Main] = WithMain[Main]
      /\ First[Globals] = WithMain[Globals] /\ First[3] = WithMain[3]
      /\ \A o \in Ids : o # Nil /\ o # Static => First[o] = WithMain[o]
  BY <1>1, <1>3, <1>4, Places4
<1> QED
  BY <1>2, <1>3, <1>4, <1>5

LEMMA InitHolds == Init => IInv
<1> SUFFICES ASSUME Init PROVE IInv
  OBVIOUS
<1> DEFINE Q == More(More(More(Unheld, Main), Static), Nil)
           l == [o \in Ids |-> 0]
<1>1. /\ heap = First /\ todo = <<>> /\ phase = "compile" /\ defs = <<>> /\ frames = <<>>
      /\ ret = NULL /\ lost = l
  BY InitHeap DEF Init
<1>2. /\ Records(First) /\ Begun(First, <<>>, Q)
      /\ First[Static].k = "static" /\ First[Nil].k = "static"
      /\ First[Main].k = "block" /\ First[Main].f = <<Globals, Globals, 3>>
      /\ First[Globals].k = "map" /\ First[3].k = "list"
      /\ \A o \in Ids : o \notin {Static, Globals, 3, Main, Nil} => First[o].k = "free"
  BY FirstBegun, MainBegun
<1>3. Filled(First, <<>>)
  <2>1. ASSUME NEW b \in Ids, First[b].k \in {"block", "function"}, NEW x \in DOMAIN First[b].f
        PROVE  First[b].f[x] # NULL
    <3>1. b = Main
      BY <1>2, <2>1
    <3>2. Globals # NULL /\ 3 # NULL
      BY DEF Globals, NULL
    <3> QED
      BY <1>2, <2>1, <3>1, <3>2
  <2> QED
    BY <2>1 DEF Filled
<1>4. Prepared(First, <<>>, Q)
  <2>1. Alike(heap, First)
    BY <1>1, SelfAlike
  <2> QED
    BY <1>2, <1>3, <2>1, AllOnIds DEF Prepared
<1>5. Phased(<<>>, NULL, "compile", <<>>, l)
  <2>1. <<>> \in Seq(FrameType) /\ <<>> \in Seq(Ids) /\ NULL \in Maybe
    BY DEF Maybe
  <2>2. l \in [Ids -> Nat] /\ \A o \in Ids : l[o] = 0
    OBVIOUS
  <2> QED
    BY <2>1, <2>2 DEF Phased
<1>6. Anchored(First, <<>>, NULL, "compile", <<>>)
  <2>1. DOMAIN <<>> = {}
    OBVIOUS
  <2> QED
    BY <1>2, <2>1 DEF Anchored, Statics
<1>7. ASSUME NEW o \in Ids PROVE RootsOf(<<>>, NULL, "compile", <<>>, l)[o] = Q[o]
  <2> DEFINE r == RootsOf(<<>>, NULL, "compile", <<>>, l)[o]
             q == Q[o]
             q1 == More(Unheld, Main)[o]
             q2 == More(More(Unheld, Main), Static)[o]
             u == One(o = Static)
             v == One(o = Nil)
             a == One(o = NULL)
             b == One(o \in Statics)
             c == One(o = Main /\ "compile" # "done")
             d == Occ(<<>>, o)
             m == One(o = Main)
             s == OnStacks(<<>>, o)
             t == OnChain(<<>>, o)
  <2>1. r = s + t + a + b + c + 2 * d + l[o]
    BY <1>5, Rooted
  <2>2. s = 0 /\ t = 0
    BY NoFrames
  <2>3. d = 0 /\ l[o] = 0 /\ a = 0 /\ c = m
    BY OccShort, IdsFinite DEF One
  <2>4. q = q2 + v /\ q2 = q1 + u /\ q1 = 0 + m
    BY MoreAt DEF Unheld
  <2>5. b \in Nat /\ m \in Nat /\ u \in Nat /\ v \in Nat /\ b = u + v
    BY StaticMain, OneType DEF One, Statics
  <2>6. r = 0 + 0 + 0 + b + m + 2 * 0 + 0
    BY <2>1, <2>2, <2>3
  <2> HIDE DEF r, q, q1, q2, a, b, c, d, m, s, t, u, v, l
  <2>7. r = q
    BY <2>4, <2>5, <2>6
  <2> QED
    BY <2>7 DEF r, q
<1> HIDE DEF Q, l
<1>8. Holding(First, <<>>, <<>>, NULL, "compile", <<>>, l)
  BY <1>4, <1>5, <1>6, <1>7, Closes
<1> QED
  BY <1>1, <1>8 DEF IInv

-----------------------------------------------------------------------------
(* The theorems. *)

LEMMA StutterHolds == ASSUME IInv, UNCHANGED vars PROVE IInv'
<1>1. /\ heap' = heap /\ todo' = todo /\ frames' = frames /\ ret' = ret /\ phase' = phase
      /\ defs' = defs /\ lost' = lost
  BY DEF vars
<1>2. IInv' = Holding(heap', todo', frames', ret', phase', defs', lost')
  BY DEF IInv
<1> QED
  BY <1>1, <1>2 DEF IInv

\* The invariant holds in every reachable state: what todo, the roots and the
\* fields say of every count stays true through each operation of each
\* instruction of the compiler, of eval and of the destructors.
THEOREM Invariance == Spec => []IInv
<1>1. Init => IInv
  BY InitHolds
<1>2. IInv /\ [Next]_vars => IInv'
  <2> SUFFICES ASSUME IInv, [Next]_vars PROVE IInv'
    OBVIOUS
  <2>1. CASE StoreNumber
    BY <2>1, StoreNumberHolds
  <2>18. CASE StoreBool
    BY <2>18, StoreBoolHolds
  <2>19. CASE StoreNil
    BY <2>19, StoreNilHolds
  <2>20. CASE FakeElse
    BY <2>20, FakeElseHolds
  <2>2. CASE EnterFunction
    BY <2>2, EnterFunctionHolds
  <2>3. CASE LeaveFunction
    BY <2>3, LeaveFunctionHolds
  <2>4. CASE StartEval
    BY <2>4, StartEvalHolds
  <2>5. CASE Push
    BY <2>5, PushHolds
  <2>6. CASE LoadName
    BY <2>6, LoadNameHolds
  <2>7. CASE StoreName
    BY <2>7, StoreNameHolds
  <2>8. CASE Dup
    BY <2>8, DupHolds
  <2>9. CASE PopTop
    BY <2>9, PopTopHolds
  <2>10. CASE Arithmetic
    BY <2>10, ArithmeticHolds
  <2>11. CASE Comparison
    BY <2>11, ComparisonHolds
  <2>12. CASE JumpOnNoBool
    BY <2>12, JumpHolds
  <2>13. CASE Invoke
    BY <2>13, InvokeHolds
  <2>14. CASE EndFrame
    BY <2>14, EndFrameHolds
  <2>15. CASE Step
    BY <2>15, StepHolds
  <2>16. CASE DestructCompiler
    BY <2>16, DestructCompilerHolds
  <2>17. CASE UNCHANGED vars
    BY <2>17, StutterHolds
  <2> QED
    BY <2>1, <2>2, <2>3, <2>4, <2>5, <2>6, <2>7, <2>8, <2>9, <2>10, <2>11, <2>12, <2>13,
       <2>14, <2>15, <2>16, <2>17, <2>18, <2>19, <2>20, Zenon DEF Next
<1> QED
  BY <1>1, <1>2, PTL DEF Spec

\* What is there between two instructions has references.
LEMMA LiveCounted ==
    ASSUME IInv, todo = <<>>, NEW o \in Ids
    PROVE  /\ Live(o) <=> heap[o].rc > 0
           /\ heap[o].rc \in Nat /\ (~Live(o) => heap[o].rc = 0 /\ heap[o].f = <<>>)
<1>1. Sound(heap, <<>>, Root)
  BY Idle
<1>2. heap[o].rc \in Nat
  BY <1>1 DEF Sound, Formed
<1>3. /\ Occ(<<>>, FREED(o)) = One(heap[o].k # "free" /\ heap[o].rc = 0)
      /\ heap[o].k = "free" => heap[o].rc = 0 /\ heap[o].f = <<>>
  BY <1>1 DEF Sound, FreedOnce
<1>4. ~(heap[o].k # "free" /\ heap[o].rc = 0)
  <2>1. Occ(<<>>, FREED(o)) = 0
    BY OccShort
  <2>2. One(heap[o].k # "free" /\ heap[o].rc = 0) = 0
    BY <1>3, <2>1
  <2>3. ASSUME heap[o].k # "free" /\ heap[o].rc = 0 PROVE FALSE
    <3>1. One(heap[o].k # "free" /\ heap[o].rc = 0) = 1
      BY <2>3, Zenon DEF One
    <3> QED
      BY <2>2, <3>1
  <2> QED
    BY <2>3
<1> QED
  BY <1>2, <1>3, <1>4 DEF Live

\* nil->refcnt is behind the references to nil by the number of nil literals.
NilInv == nilref \in Nat /\ nils \in Nat /\ nilref + nils = heap[Nil].rc

\* nil is always there, and nothing frees it.
LEMMA NilLives ==
    ASSUME IInv
    PROVE  /\ Nil \in Ids /\ heap[Nil].k = "static" /\ Live(Nil) /\ DOMAIN heap = Ids
           /\ heap[Nil].rc \in Nat /\ Boxed(heap[Nil])
           /\ todo # <<>> => Head(todo) \in Op /\ Head(todo) # FREED(Nil)
<1>1. /\ Records(heap) /\ Sound(heap, todo, Root) /\ Anchored(heap, frames, ret, phase, defs)
      /\ Phased(frames, ret, phase, defs, lost) /\ Nil \in Ids /\ Nil \in Statics
  BY StaticMain DEF IInv, Holding, Root
<1>2. DOMAIN heap = Ids /\ Boxed(heap[Nil]) /\ heap[Nil].k = "static"
  BY <1>1 DEF Records, Anchored
<1>3. heap[Nil].rc > 0 /\ heap[Nil].rc \in Nat
  <2>1. Root[Nil] > 0
    BY <1>1, Rooted DEF Root
  <2> QED
    BY <1>1, <2>1, RefCounted DEF Sound, Formed
<1>4. ASSUME todo # <<>> PROVE Head(todo) \in Op /\ Head(todo) # FREED(Nil)
  <2>1. todo \in Seq(Op) /\ Head(todo) = todo[1] /\ 1 \in 1..Len(todo) /\ todo[1] \in Op
    BY <1>1, <1>4 DEF Sound, Formed
  <2>2. Occ(todo, FREED(Nil)) = One(heap[Nil].k # "free" /\ heap[Nil].rc = 0)
    BY <1>1 DEF Sound, FreedOnce
  <2>3. Occ(todo, FREED(Nil)) = 0
    BY <1>3, <2>2 DEF One
  <2>4. todo[1] = FREED(Nil) => Occ(todo, FREED(Nil)) > 0
    BY <2>1, OccType
  <2> QED
    BY <2>1, <2>3, <2>4
<1> QED
  BY <1>1, <1>2, <1>3, <1>4 DEF Live

\* Only DEC(Nil) takes a reference to nil.
LEMMA NilStep == ASSUME IInv, NilInv, Step PROVE NilInv'
<1> DEFINE s == Head(todo)
           c == heap[Nil].rc
           d == heap'[Nil].rc
<1>1. /\ Nil \in Ids /\ Boxed(heap[Nil]) /\ c \in Nat /\ s \in Op /\ s # FREED(Nil)
      /\ s = DEC(Nil) => nilref > 0
  BY NilLives DEF Step
<1>2. heap'[Nil] = After(s, Nil) /\ nilref' = nilref + d - c /\ nils' = nils
  BY <1>1 DEF Step
<1>3. (s.op = "free" /\ s.o = Nil => s = FREED(Nil)) /\ (s.op = "dec" /\ s.o = Nil => s = DEC(Nil))
  BY <1>1, OpForms, OpFields
<1> HIDE DEF s
<1>4. d = c \/ d = c + 1 \/ (d = c - 1 /\ s = DEC(Nil))
  <2>1. CASE s.op = "dec"
    BY <1>1, <1>2, <1>3, <2>1, AfterDec
  <2>2. CASE s.op = "free"
    BY <1>1, <1>2, <1>3, <2>2, AfterFree
  <2>3. CASE s.op # "dec" /\ s.op # "free"
    BY <1>1, <1>2, <2>3, AfterOther DEF Raised
  <2> QED
    BY <2>1, <2>2, <2>3
<1>5. nilref \in Nat /\ nils \in Nat /\ nilref + nils = c
  BY DEF NilInv
<1> HIDE DEF c
<1>6. nilref' \in Nat /\ nilref' + nils = d
  BY <1>1, <1>2, <1>4, <1>5
<1> QED
  BY <1>2, <1>5, <1>6 DEF NilInv

LEMMA NilCounted == ASSUME IInv, NilInv, [Next]_vars PROVE NilInv'
<1>1. ASSUME heap'[Nil].rc = heap[Nil].rc, UNCHANGED <<nilref, nils>> PROVE NilInv'
  BY <1>1 DEF NilInv
<1>2. Nil \in Ids /\ heap[Nil].k # "free" /\ DOMAIN heap = Ids /\ heap[Nil].rc \in Nat
  BY NilLives
<1>3. \A n, v : n # Nil => [heap EXCEPT ![n] = v][Nil] = heap[Nil]
  BY <1>2
<1>4. ASSUME NEW k \in Nat \ {0}, Room(k) PROVE Fresh({}) # Nil
  BY <1>2, <1>4, FirstFresh
<1>5. ASSUME NEW k \in Nat, k > 2, Room(k), NEW a, a = Fresh({}), NEW b, b = Fresh({a}),
             NEW c, c = Fresh({a, b})
      PROVE  a # Nil /\ b # Nil /\ c # Nil
  BY <1>2, <1>5, ThreeFresh
<1>7. CASE StoreNumber
  <2>1. Room(1) /\ heap' = [heap EXCEPT ![Fresh({})] = New("value", <<>>)]
        /\ UNCHANGED <<nilref, nils>>
    BY <1>7 DEF StoreNumber, Literal
  <2>2. Fresh({}) # Nil
    BY <1>4, <2>1
  <2> QED
    BY <1>1, <1>3, <2>1, <2>2
<1>8. CASE StoreBool
  <2>1. heap' = [heap EXCEPT ![Static].rc = @ + 1] /\ UNCHANGED <<nilref, nils>>
    BY <1>8 DEF StoreBool, Literal
  <2> QED
    BY <1>1, <1>2, <2>1, StaticMain
<1>9. CASE StoreNil
  <2>1. heap' = [heap EXCEPT ![Nil].rc = @ + 1] /\ nilref' = nilref /\ nils' = nils + 1
    BY <1>9 DEF StoreNil, Literal
  <2>2. heap'[Nil].rc = heap[Nil].rc + 1
    BY <1>2, <2>1, NilLives DEF Boxed
  <2> QED
    BY <2>1, <2>2 DEF NilInv
<1>10. CASE EnterFunction
  <2> DEFINE a == Fresh({})
             b == Fresh({a})
             c == Fresh({a, b})
  <2>1. Room(4) /\ UNCHANGED <<nilref, nils>>
    BY <1>10 DEF EnterFunction
  <2>2. heap' = [heap EXCEPT ![a] = New("map", EmptyMap), ![b] = New("list", <<>>),
                             ![c] = New("block", <<NULL, NULL, b>>)]
    BY <1>10, Zenon DEF EnterFunction
  <2>3. a = Fresh({}) /\ b = Fresh({a}) /\ c = Fresh({a, b})
    OBVIOUS
  <2> HIDE DEF a, b, c
  <2>4. a # Nil /\ b # Nil /\ c # Nil
    BY <1>5, <2>1, <2>3
  <2>5. heap'[Nil] = heap[Nil]
    BY <1>2, <2>2, <2>4
  <2> QED
    BY <1>1, <2>1, <2>5
<1>11. CASE LeaveFunction
  <2>1. Room(1) /\ UNCHANGED <<nilref, nils>>
    BY <1>11 DEF LeaveFunction
  <2>2. \E v : heap' = [heap EXCEPT ![Fresh({})] = v]
    BY <1>11 DEF LeaveFunction
  <2>3. Fresh({}) # Nil
    BY <1>4, <2>1
  <2> QED
    BY <1>1, <1>3, <2>1, <2>2, <2>3
<1>12. CASE Arithmetic
  <2>1. UNCHANGED <<nilref, nils>>
    BY <1>12 DEF Arithmetic, Do, Quit
  <2>2. heap' = heap \/ (Room(1) /\ heap' = [heap EXCEPT ![Fresh({})] = New("value", <<>>)])
    BY <1>12 DEF Arithmetic, Quit
  <2>3. Room(1) => Fresh({}) # Nil
    BY <1>4
  <2> QED
    BY <1>1, <1>3, <2>1, <2>2, <2>3
<1>13. CASE Invoke
  <2> DEFINE a == Fresh({})
             b == Fresh({a})
             c == Fresh({a, b})
  <2>1. Room(3) /\ UNCHANGED <<nilref, nils>>
    BY <1>13 DEF Invoke
  <2>2. heap' = [heap EXCEPT ![a] = New("list", <<>>), ![b] = New("map", EmptyMap),
                             ![c] = New("block", <<NULL, NULL, NULL>>)]
    BY <1>13, Zenon DEF Invoke
  <2>3. a = Fresh({}) /\ b = Fresh({a}) /\ c = Fresh({a, b})
    OBVIOUS
  <2> HIDE DEF a, b, c
  <2>4. a # Nil /\ b # Nil /\ c # Nil
    BY <1>5, <2>1, <2>3
  <2>5. heap'[Nil] = heap[Nil]
    BY <1>2, <2>2, <2>4
  <2> QED
    BY <1>1, <2>1, <2>5
<1>14. CASE Step
  BY <1>14, NilStep
<1>15. CASE FakeElse \/ StartEval \/ EndFrame \/ DestructCompiler \/ UNCHANGED vars
  <2>1. heap' = heap /\ UNCHANGED <<nilref, nils>>
    BY <1>15 DEF FakeElse, StartEval, EndFrame, DestructCompiler, vars
  <2> QED
    BY <1>1, <2>1
<1>16. CASE Push \/ LoadName \/ StoreName \/ Dup \/ PopTop \/ Comparison \/ JumpOnNoBool
  <2>1. (\E t, ops : Does(t, ops)) \/ \E t, ops : Quit(t, ops)
    BY <1>16 DEF Push, LoadName, StoreName, Dup, PopTop, Comparison, JumpOnNoBool
  <2>2. heap' = heap /\ UNCHANGED <<nilref, nils>>
    BY <2>1 DEF Does, Do, Quit
  <2> QED
    BY <1>1, <2>2
<1> QED
  BY <1>7, <1>8, <1>9, <1>10, <1>11, <1>12, <1>13, <1>14, <1>15, <1>16, Zenon DEF Next

\* In every reachable state nil->refcnt and the number of nil literals add up to
\* the references to nil, those included that the literals should have taken:
\* the literals are the only place where a count of nil is missing.
THEOREM NilBehind == Spec => [](IInv /\ NilInv)
<1>1. Init => NilInv
  <2> SUFFICES ASSUME Init PROVE NilInv
    OBVIOUS
  <2>1. heap[Nil] = New("static", <<>>) /\ nilref = 1 /\ nils = 0
    <3> DEFINE v == New("static", <<>>)
    <3>1. \A H : DOMAIN H = Ids => Birth(H, Nil, v)[Nil] = v
      BY StaticMain DEF Birth
    <3>2. heap = Birth(WithBools, Nil, v) /\ DOMAIN WithBools = DOMAIN heap
      BY InitHeap DEF First, Birth
    <3>3. DOMAIN heap = Ids
      BY DEF Init
    <3> QED
      BY <3>1, <3>2, <3>3 DEF Init
  <2> QED
    BY <2>1 DEF NilInv, New
<1>2. IInv /\ NilInv /\ [Next]_vars => NilInv'
  BY NilCounted
<1> QED
  BY <1>1, <1>2, Invariance, PTL DEF Spec

\* The heap keeps its shape: between two instructions every field leads to an
\* object of the type that its reader in vm.c or visitor.c casts it to.
THEOREM TypeCorrect == Spec => []TypeOK
<1>1. IInv /\ NilInv => TypeOK
  <2> SUFFICES ASSUME IInv, NilInv PROVE TypeOK
    OBVIOUS
  <2>1. phase \in {"compile", "eval", "evaled", "done"}
    BY DEF IInv, Holding, Phased
  <2>2. nilref \in Nat /\ \A o \in Ids : heap[o].rc \in Nat
    BY DEF IInv, Holding, Sound, Formed, NilInv
  <2>3. ASSUME todo = <<>>, NEW o \in Ids, Live(o)
        PROVE  /\ heap[o].k = "block" =>
                   /\ heap[Field(o, 1)].k = "map" /\ heap[Field(o, 2)].k = "map"
                   /\ heap[Field(o, 3)].k = "list"
               /\ heap[o].k = "function" => heap[Field(o, 1)].k = "block"
               /\ heap[o].k \in {"map", "list"} =>
                   \A x \in DOMAIN heap[o].f :
                      \/ Field(o, x) = NULL
                      \/ heap[Field(o, x)].k \in {"value", "static", "function"}
    <3>1. Sound(heap, <<>>, Root) /\ heap[o].rc > 0
      BY <2>3, Idle, LiveCounted
    <3>2. ASSUME heap[o].k = "block"
          PROVE  /\ heap[Field(o, 1)].k = "map" /\ heap[Field(o, 2)].k = "map"
                 /\ heap[Field(o, 3)].k = "list"
      BY <3>1, <3>2, BlockFields DEF IsA, Field
    <3>3. ASSUME heap[o].k = "function" PROVE heap[Field(o, 1)].k = "block"
      BY <3>1, <3>3, FunctionFields DEF IsA, Field
    <3>4. ASSUME heap[o].k \in {"map", "list"}, NEW x \in DOMAIN heap[o].f, Field(o, x) # NULL
          PROVE  heap[Field(o, x)].k \in {"value", "static", "function"}
      BY <3>1, <3>4, ItemFields DEF IsA, Field, Items
    <3> QED
      BY <3>2, <3>3, <3>4
  <2> QED
    BY <2>1, <2>2, <2>3 DEF TypeOK
<1> QED
  BY <1>1, NilBehind, PTL

\* The fields that hold o, with no operation left.
LEMMA FieldsCounted ==
    ASSUME IInv, todo = <<>>, NEW o \in Ids
    PROVE  Held(heap, <<>>, o) = InFields(o)
<1>1. ASSUME NEW b \in Ids PROVE Kept(heap, <<>>, b, o) = Places(heap[b].f, o)
  <2>1. CASE heap[b].rc > 0
    BY <2>1, EmptyTodo DEF Kept, Places
  <2>2. CASE ~(heap[b].rc > 0)
    <3>1. heap[b].f = <<>>
      BY <2>2, LiveCounted
    <3>2. Places(<<>>, o) = {}
      BY DEF Places
    <3> QED
      BY <2>2, <3>1, <3>2 DEF Kept
  <2> QED
    BY <2>1, <2>2
<1>2. [b \in Ids |-> Kept(heap, <<>>, b, o)] = [h \in Ids |-> Places(heap[h].f, o)]
  BY <1>1
<1> QED
  BY <1>2 DEF Held, InFields

\* Between two instructions the count of an object is the number of references
\* to it, and that of nil is smaller by the number of nil literals: what INC_REF
\* and DEC_REF do in visitor.c, vm.c, function_object.c, in the containers and
\* in the destructors balances, for every program, but for visitor.c:126.
THEOREM CountsAreExact == Spec => []CountsExact
<1>1. IInv /\ NilInv => CountsExact
  <2> SUFFICES ASSUME IInv, NilInv, todo = <<>>, NEW o \in Ids
               PROVE  Refcnt(o) = IF ~Live(o) THEN 0
                                  ELSE References(o) - (IF o = Nil THEN nils ELSE 0)
    BY DEF CountsExact
  <2>1. ~Live(o) => heap[o].rc = 0
    BY LiveCounted
  <2>2. heap[o].rc = References(o)
    <3>1. Sound(heap, <<>>, Root)
      BY Idle
    <3>2. heap[o].rc + Occ(<<>>, INC(o)) = Held(heap, <<>>, o) + Root[o] + Occ(<<>>, DEC(o))
      BY <3>1 DEF Sound, Balanced
    <3>3. Occ(<<>>, INC(o)) = 0 /\ Occ(<<>>, DEC(o)) = 0
      BY OccShort
    <3>4. Root[o] = Roots(o)
      BY DEF Root, RootsOf, Roots
    <3>5. heap[o].rc \in Nat /\ Root[o] \in Nat /\ Held(heap, <<>>, o) \in Nat
      BY <3>1, HeldType DEF Sound, Formed, Shaped
    <3>6. heap[o].rc = Held(heap, <<>>, o) + Root[o]
      BY <3>2, <3>3, <3>5
    <3>7. Held(heap, <<>>, o) = InFields(o)
      BY FieldsCounted
    <3> QED
      BY <3>4, <3>6, <3>7 DEF References
  <2>3. CASE o = Nil
    <3>1. nilref \in Nat /\ nils \in Nat /\ nilref + nils = References(o)
      BY <2>2, <2>3 DEF NilInv
    <3>2. Live(o)
      BY <2>3, NilLives
    <3>3. nilref = References(o) - nils
      BY <3>1
    <3> QED
      BY <2>3, <3>2, <3>3 DEF Refcnt
  <2>4. CASE o # Nil
    <3>1. heap[o].rc \in Nat
      BY LiveCounted
    <3> QED
      BY <2>1, <2>2, <2>4, <3>1 DEF Refcnt
  <2> QED
    BY <2>3, <2>4
<1> QED
  BY <1>1, NilBehind, PTL

\* No operation of an instruction reads, counts, stores into or frees an object
\* that is gone, also where map_put drops the old value before it stores the
\* new one, where a destructor runs in the middle, and where INVOKE drops the
\* function whose code it just took; only error messages name a freed type.
THEOREM NothingFreedIsRead == Spec => []OnlyMessagesReadFreed
<1>1. IInv => OnlyMessagesReadFreed
  <2> SUFFICES ASSUME IInv, todo # <<>>, Head(todo).op # "name",
                      NEW o \in Operands(Head(todo)), o # NULL
               PROVE  Live(o)
    BY DEF OnlyMessagesReadFreed
  <2> DEFINE s == Head(todo)
  <2>1. Sound(heap, todo, Root) /\ todo \in Seq(Op)
    BY DEF IInv, Holding, Root, Sound, Formed
  <2>2. 1 \in 1..Len(todo) /\ s = todo[1] /\ s \in Op
    BY <2>1
  <2> HIDE DEF s
  <2>3. o \in Ids
    <3>1. CASE \E p \in Ids : s \in {INC(p), READ(p), FREED(p), NAME(p)}
      BY <3>1, OpFields DEF Operands, s
    <3>2. CASE \E p \in Maybe : s = DEC(p)
      BY <3>2, OpFields DEF Operands, Maybe, s
    <3>3. CASE \E m \in Ids, n \in Names, v \in Maybe : s = PUT(m, n, v)
      BY <3>3, OpFields DEF Operands, Maybe, s
    <3>4. CASE \E p \in Ids, x \in Names \cup (1..3), v \in Maybe : s = SET(p, x, v)
      BY <3>4, OpFields DEF Operands, Maybe, s
    <3>5. CASE \E l \in Ids, v \in Ids : s \in {APPEND(l, v), PREPEND(l, v)}
      BY <3>5, OpFields DEF Operands, s
    <3> QED
      BY <2>2, <3>1, <3>2, <3>3, <3>4, <3>5, OpForms
  <2>4. heap[o].k = "free" => heap[o].rc = 0
    BY <2>1, <2>3 DEF Sound, FreedOnce
  <2>5. CASE o \in Mentioned(s)
    <3>1. heap[o].rc > 0
      BY <2>1, <2>2, <2>5, MentionedCounted DEF Sound
    <3> QED
      BY <2>3, <2>4, <3>1 DEF Live
  <2>6. CASE s = DEC(o)
    <3>1. Occ(todo, DEC(o)) > 0
      BY <2>1, <2>2, <2>6, OccType
    <3> QED
      BY <2>1, <2>3, <3>1, RefCounted DEF Live
  <2>7. CASE s = FREED(o)
    <3>1. Occ(todo, FREED(o)) > 0
      BY <2>1, <2>2, <2>7, OccType
    <3>2. heap[o].k # "free"
      BY <2>1, <2>3, <3>1 DEF Sound, FreedOnce, One
    <3> QED
      BY <2>3, <3>2 DEF Live
  <2>8. o \in Mentioned(s) \/ s = DEC(o) \/ s = FREED(o)
    <3>1. s.op # "name"
      BY DEF s
    <3>2. CASE \E p \in Ids : s \in {INC(p), READ(p), FREED(p), NAME(p)}
      BY <2>3, <3>1, <3>2, OpFields DEF Operands, Mentioned, s
    <3>3. CASE \E p \in Maybe : s = DEC(p)
      BY <3>3, OpFields DEF Operands, s
    <3>4. CASE s.op \in {"put", "set", "append", "prepend"}
      BY <2>3, <3>4 DEF Operands, Mentioned, s
    <3>5. CASE \E m \in Ids, n \in Names, v \in Maybe : s = PUT(m, n, v)
      BY <3>4, <3>5, OpFields
    <3>6. CASE \E p \in Ids, x \in Names \cup (1..3), v \in Maybe : s = SET(p, x, v)
      BY <3>4, <3>6, OpFields
    <3>7. CASE \E l \in Ids, v \in Ids : s \in {APPEND(l, v), PREPEND(l, v)}
      BY <3>4, <3>7, OpFields
    <3> QED
      BY <2>2, <3>2, <3>3, <3>5, <3>6, <3>7, OpForms
  <2> QED
    BY <2>5, <2>6, <2>7, <2>8
<1> QED
  BY <1>1, Invariance, PTL

-----------------------------------------------------------------------------
(* Who refers to whom, in fields and in the stores that are left to do.      *)

Storing == {"put", "set", "append", "prepend"}

Points(H, T, b, o) ==
    \/ \E x \in DOMAIN H[b].f : H[b].f[x] = o
    \/ \E j \in 1..Len(T) : T[j].op \in Storing /\ T[j].o = b /\ T[j].v = o

\* o is, or will be, in the field x of b.
Slot(H, T, b, x, o) ==
    \/ x \in DOMAIN H[b].f /\ H[b].f[x] = o
    \/ \E j \in 1..Len(T) : T[j].op \in {"put", "set"} /\ T[j].o = b /\ T[j].x = x /\ T[j].v = o

\* The references between objects other than the globals go down.
Graph(H, T) == {e \in Ids \X Ids : e[1] # Globals /\ e[2] # Globals /\ Points(H, T, e[1], e[2])}
Ranks(D, r) == \A b, o \in Ids : <<b, o>> \in D => r[o] < r[b]
Ordered(D) == \E n \in Nat : \E r \in [Ids -> 0..n] : Ranks(D, r)

\* No object refers to l, and none but l to what l has in its field x.
Unled(H, T, l) == \A b \in Ids : ~Points(H, T, b, l)
Only(H, T, l, m) == \A b \in Ids : Points(H, T, b, m) => b = l
Private(H, T, l, x) ==
    Unled(H, T, l) /\ \A m \in Ids : Slot(H, T, l, x, m) => m = Globals \/ Only(H, T, l, m)

\* The blocks that are being compiled: no function has them yet.  Only they
\* refer to their constants, and only a running block to its locals.
Coding(ds) == {Main} \cup {ds[i] : i \in DOMAIN ds}

Distinct(ds) ==
    \A i \in DOMAIN ds : ds[i] # Main /\ \A j \in DOMAIN ds : i # j => ds[i] # ds[j]

Compiling(H, T, ds) ==
    /\ \A l \in Coding(ds) : Private(H, T, l, 3)
    /\ \A m \in Ids : Slot(H, T, Main, 1, m) => m = Globals

Rings(H, T, ph, ds, fs) ==
    /\ Ordered(Graph(H, T)) /\ Distinct(ds)
    /\ ph = "compile" => Compiling(H, T, ds)
    /\ \A x \in DOMAIN fs : Private(H, T, fs[x].lb, 1)

RInv == Rings(heap, todo, phase, defs, frames)

-----------------------------------------------------------------------------
(* Order.                                                                    *)

\* References that go down a level are new, and no old one goes up.
LEMMA OrderedLevels ==
    ASSUME NEW D, Ordered(D), NEW lv \in [Ids -> 0..2],
           \A b, o \in Ids : <<b, o>> \in D => lv[o] <= lv[b],
           NEW E, \A b, o \in Ids : <<b, o>> \in E => <<b, o>> \in D \/ lv[o] < lv[b]
    PROVE  Ordered(E)
<1>1. PICK n \in Nat : \E r \in [Ids -> 0..n] : Ranks(D, r)
  BY DEF Ordered
<1>2. PICK r \in [Ids -> 0..n] : Ranks(D, r)
  BY <1>1
<1> DEFINE k == 3 * n + 2
           up(i) == IF i = 0 THEN 0 ELSE IF i = 1 THEN n + 1 ELSE 2 * n + 2
           q == [o \in Ids |-> r[o] + up(lv[o])]
<1>3. k \in Nat
  OBVIOUS
<1>4. ASSUME NEW o \in Ids
      PROVE  /\ r[o] \in Nat /\ r[o] <= n /\ lv[o] \in 0..2
             /\ q[o] = r[o] + up(lv[o])
  BY <1>2
<1>5. q \in [Ids -> 0..k]
  <2>1. ASSUME NEW o \in Ids PROVE r[o] + up(lv[o]) \in 0..k
    BY <1>4
  <2> QED
    BY <2>1
<1> HIDE DEF q, k
<1>6. ASSUME NEW b \in Ids, NEW o \in Ids, <<b, o>> \in E PROVE q[o] < q[b]
  <2>1. CASE <<b, o>> \in D
    <3>1. r[o] < r[b] /\ lv[o] <= lv[b]
      BY <1>2, <2>1 DEF Ranks
    <3> QED
      BY <1>4, <3>1
  <2>2. CASE lv[o] < lv[b]
    BY <1>4, <2>2
  <2> QED
    BY <1>6, <2>1, <2>2
<1>7. Ranks(E, q)
  BY <1>6 DEF Ranks
<1> QED
  BY <1>3, <1>5, <1>7 DEF Ordered

LEMMA OrderedLess ==
    ASSUME NEW D, Ordered(D), NEW E, \A b, o \in Ids : <<b, o>> \in E => <<b, o>> \in D
    PROVE  Ordered(E)
  BY DEF Ordered, Ranks

LEMMA InGraph ==
    ASSUME NEW H, NEW T, NEW b \in Ids, NEW o \in Ids
    PROVE  <<b, o>> \in Graph(H, T) <=> b # Globals /\ o # Globals /\ Points(H, T, b, o)
  BY DEF Graph

-----------------------------------------------------------------------------
(* A step takes references away, or carries out a store.                     *)

LEMMA StepFields ==
    ASSUME IInv, Step, NEW b \in Ids, NEW x \in DOMAIN heap'[b].f
    PROVE  /\ \/ x \in DOMAIN heap[b].f /\ heap'[b].f[x] = heap[b].f[x]
              \/ /\ Head(todo).op = "set" /\ Head(todo).o = b
                 /\ x = Head(todo).x /\ heap'[b].f[x] = Head(todo).v
              \/ /\ Head(todo).op \in {"append", "prepend"} /\ Head(todo).o = b
                 /\ heap[b].k = "list"
                 /\ \/ heap'[b].f[x] = Head(todo).v
                    \/ \E y \in DOMAIN heap[b].f : heap'[b].f[x] = heap[b].f[y]
<1> DEFINE s == Head(todo)
<1>1. Records(heap) /\ Sound(heap, todo, Root) /\ todo # <<>> /\ heap'[b] = After(s, b)
  BY DEF IInv, Holding, Step, Root
<1>2. todo \in Seq(Op) /\ s = todo[1] /\ s \in Op /\ 1 \in 1..Len(todo)
  BY <1>1 DEF Sound, Formed
<1>3. Boxed(heap[b])
  BY <1>1 DEF Records
<1> HIDE DEF s
<1>4. CASE s.op = "dec"
  BY <1>1, <1>3, <1>4, AfterDec
<1>5. CASE s.op = "free"
  <2>1. After(s, b) = IF b = s.o THEN FREE ELSE heap[b]
    BY <1>3, <1>5, AfterFree
  <2>2. DOMAIN FREE.f = {}
    BY DEF FREE
  <2> QED
    BY <1>1, <2>1, <2>2
<1>6. CASE s.op \notin {"dec", "free"}
  <2>1. heap'[b].f = Fielded(s, b)
    BY <1>1, <1>3, <1>6, AfterOther
  <2>2. CASE s.op = "set" /\ b = s.o
    BY <2>1, <2>2 DEF Fielded, s
  <2>3. CASE s.op \in {"append", "prepend"} /\ b = s.o
    <3>1. Fits(heap, s)
      BY <1>1, <1>2 DEF Sound, Formed
    <3>2. heap[b].k = "list" /\ b \in Mentioned(s) /\ s.v \in Ids
      BY <2>3, <3>1 DEF Fits, IsA, Mentioned
    <3>3. heap[b].rc > 0
      BY <1>1, <1>2, <3>2, MentionedCounted DEF Sound
    <3>4. heap[b].f \in Seq(Ids)
      BY <1>1, <3>2, <3>3 DEF Sound, Formed, Shaped, Framed
    <3>5. Inserted(heap[b].f, heap'[b].f, s.v)
      BY <2>1, <2>3 DEF Fielded, Inserted
    <3>6. \A y \in DOMAIN heap'[b].f :
             heap'[b].f[y] = s.v \/ \E z \in DOMAIN heap[b].f : heap'[b].f[y] = heap[b].f[z]
      BY <3>2, <3>4, <3>5, InsertedSeq
    <3> QED
      BY <2>3, <3>2, <3>6 DEF s
  <2>4. CASE ~(s.op \in {"set", "append", "prepend"} /\ b = s.o)
    BY <2>1, <2>4 DEF Fielded
  <2> QED
    BY <2>2, <2>3, <2>4
<1> QED
  BY <1>4, <1>5, <1>6

LEMMA StepStores ==
    ASSUME IInv, Step, NEW i \in 1..Len(todo'), todo'[i].op \in Storing
    PROVE  \E j \in 1..Len(todo) :
              /\ todo[j].op \in Storing /\ todo[j].o = todo'[i].o /\ todo[j].v = todo'[i].v
              /\ todo'[i].op \in {"put", "set"} =>
                    todo[j].op \in {"put", "set"} /\ todo[j].x = todo'[i].x
<1> DEFINE s == Head(todo)
           t == Then(s)
           u == Tail(todo)
<1>1. Sound(heap, todo, Root) /\ todo # <<>> /\ todo' = t \o u
  BY DEF IInv, Holding, Step, Root
<1>2. todo \in Seq(Op) /\ s = todo[1] /\ s \in Op /\ 1 \in 1..Len(todo)
  BY <1>1 DEF Sound, Formed
<1>3. /\ u \in Seq(Op) /\ Len(u) = Len(todo) - 1 /\ Len(todo) \in Nat
      /\ \A j \in 1..Len(u) : u[j] = todo[j + 1] /\ j + 1 \in 1..Len(todo)
  BY <1>1, <1>2
<1>4. /\ t \in Seq(Op)
      /\ \A j \in 1..Len(t) : t[j].op \in Storing =>
            s.op = "put" /\ t[j] = SET(s.o, s.x, s.v)
  <2>1. CASE s.op = "put"
    <3>1. t = <<DEC(Field(s.o, s.x)), SET(s.o, s.x, s.v)>>
      BY <2>1 DEF Then
    <3>2. Fits(heap, s)
      BY <1>1, <1>2 DEF Sound, Formed
    <3>3. PICK m \in Ids, n \in Names, v \in Maybe : s = PUT(m, n, v)
      BY <1>2, <2>1, OpForms, OpFields
    <3>4. s.o = m /\ s.x = n /\ s.v = v
      BY <3>3, OpFields
    <3>5. SET(s.o, s.x, s.v) \in Op
      BY <3>4, OpTypes
    <3>6. DEC(Field(s.o, s.x)) \in Op
      <4>1. heap[m].rc > 0
        <5>1. m \in Mentioned(s)
          BY <2>1, <3>4 DEF Mentioned
        <5> QED
          BY <1>1, <1>2, <5>1, MentionedCounted DEF Sound
      <4>2. heap[m].k = "map"
        BY <2>1, <3>2, <3>4 DEF Fits
      <4>3. n \in DOMAIN heap[m].f
        BY <1>1, <4>1, <4>2 DEF Sound, Formed, Shaped, Framed
      <4>4. heap[m].f[n] \in Maybe
        BY <1>1, <4>1, <4>3 DEF Sound, Formed, Shaped
      <4> QED
        BY <3>4, <4>4, OpTypes DEF Field
    <3>7. Len(t) = 2 /\ t[1] = DEC(Field(s.o, s.x)) /\ t[2] = SET(s.o, s.x, s.v)
      BY <3>1
    <3>8. DEC(Field(s.o, s.x)).op = "dec"
      BY DEF DEC
    <3>9. t \in Seq(Op)
      <4>1. \A a, b \in Op : <<a, b>> \in Seq(Op)
        OBVIOUS
      <4> QED
        BY <3>1, <3>5, <3>6, <4>1, Zenon
    <3> HIDE DEF t
    <3>10. \A j \in 1..Len(t) : j = 1 \/ j = 2
      BY <3>7
    <3>11. \A j \in 1..Len(t) : t[j].op \in Storing => t[j] = SET(s.o, s.x, s.v)
      BY <3>7, <3>8, <3>10 DEF Storing
    <3> QED
      BY <2>1, <3>9, <3>11
  <2>2. CASE s.op = "dec" /\ s.o # NULL /\ heap[s.o].rc = 1
    <3>1. t = Destruct(s.o)
      BY <2>2 DEF Then
    <3>2. PICK o \in Maybe : s = DEC(o)
      BY <1>2, <2>2, OpForms, OpFields
    <3>3. s.o = o /\ o \in Ids
      BY <2>2, <3>2, OpFields DEF Maybe
    <3>4. Destruct(o) \in Seq(Op) /\ Drains(heap, o, Destruct(o))
      <4>1. todo[1] = DEC(o) /\ heap[o].rc = 1
        BY <1>2, <2>2, <3>2, <3>3
      <4> QED
        BY <1>1, <3>3, <4>1, DestructDrains
    <3>5. \A j \in 1..Len(t) : t[j].op \notin Storing
      BY <3>1, <3>3, <3>4, OpFields DEF Drains, Storing
    <3> QED
      BY <3>1, <3>3, <3>4, <3>5
  <2>3. CASE s.op # "put" /\ ~(s.op = "dec" /\ s.o # NULL /\ heap[s.o].rc = 1)
    BY <2>3 DEF Then
  <2> QED
    BY <2>1, <2>2, <2>3
<1> HIDE DEF t, u, s
<1>5. \/ i \in 1..Len(t) /\ todo'[i] = t[i]
      \/ \E j \in 1..Len(u) : todo'[i] = u[j]
  <2>1. Len(t) \in Nat /\ Len(u) \in Nat /\ i \in 1..Len(t \o u)
    BY <1>1, <1>3, <1>4
  <2>2. CASE i <= Len(t)
    <3>1. i \in 1..Len(t)
      BY <2>1, <2>2
    <3> QED
      BY <1>1, <1>3, <1>4, <3>1
  <2>3. CASE i > Len(t)
    <3>1. i - Len(t) \in 1..Len(u) /\ (t \o u)[i] = u[i - Len(t)]
      BY <1>3, <1>4, <2>1, <2>3
    <3> QED
      BY <1>1, <3>1
  <2> QED
    BY <2>1, <2>2, <2>3
<1>6. CASE i \in 1..Len(t) /\ todo'[i] = t[i]
  <2>1. s.op = "put" /\ todo'[i] = SET(s.o, s.x, s.v)
    BY <1>4, <1>6
  <2>2. todo'[i].o = s.o /\ todo'[i].x = s.x /\ todo'[i].v = s.v /\ s.op \in Storing
    BY <2>1, OpFields DEF Storing
  <2> QED
    BY <1>2, <2>1, <2>2
<1>7. CASE \E j \in 1..Len(u) : todo'[i] = u[j]
  BY <1>3, <1>7
<1> QED
  BY <1>5, <1>6, <1>7

LEMMA StepPoints ==
    ASSUME IInv, Step, NEW b \in Ids, NEW o
    PROVE  /\ Points(heap', todo', b, o) => Points(heap, todo, b, o)
           /\ heap[b].k # "list" =>
                 \A x : Slot(heap', todo', b, x, o) => Slot(heap, todo, b, x, o)
<1>1. 1 \in 1..Len(todo) /\ todo[1] = Head(todo)
  BY DEF IInv, Holding, Sound, Formed, Step
<1>2. ASSUME NEW x \in DOMAIN heap'[b].f, heap'[b].f[x] = o
      PROVE  Points(heap, todo, b, o) /\ (heap[b].k # "list" => Slot(heap, todo, b, x, o))
  BY <1>1, <1>2, StepFields DEF Points, Slot, Storing
<1>3. ASSUME NEW i \in 1..Len(todo'), todo'[i].op \in Storing, todo'[i].o = b, todo'[i].v = o
      PROVE  /\ Points(heap, todo, b, o)
             /\ todo'[i].op \in {"put", "set"} => Slot(heap, todo, b, todo'[i].x, o)
  <2>1. PICK j \in 1..Len(todo) :
              /\ todo[j].op \in Storing /\ todo[j].o = b /\ todo[j].v = o
              /\ todo'[i].op \in {"put", "set"} =>
                    todo[j].op \in {"put", "set"} /\ todo[j].x = todo'[i].x
    BY <1>3, StepStores
  <2> QED
    BY <2>1 DEF Points, Slot
<1> QED
  BY <1>2, <1>3 DEF Points, Slot, Storing

-----------------------------------------------------------------------------
(* An instruction begins: it makes objects, and leaves the stores of E to do *)
(* where the fields of the new objects are not among them already.           *)

Grows(H, G, T, E) ==
    /\ \A b \in Ids : H[b].k # "free" => G[b].f = H[b].f
    /\ \A b \in Ids : H[b].k = "free" =>
          \A x \in DOMAIN G[b].f : G[b].f[x] \in Ids => SET(b, x, G[b].f[x]) \in E
    /\ \A j \in 1..Len(T) : T[j].op \in Storing => T[j] \in E

LEMMA GrowsPoints ==
    ASSUME NEW H, NEW G, NEW T, NEW E, Grows(H, G, T, E), NEW b \in Ids, NEW o \in Ids
    PROVE  /\ Points(G, T, b, o) =>
                 Points(H, <<>>, b, o) \/ \E s \in E : s.o = b /\ s.v = o
           /\ \A x : Slot(G, T, b, x, o) =>
                 \/ Slot(H, <<>>, b, x, o)
                 \/ \E s \in E : s.op \in {"put", "set"} /\ s.o = b /\ s.x = x /\ s.v = o
<1>1. ASSUME NEW x \in DOMAIN G[b].f, G[b].f[x] = o
      PROVE  \/ x \in DOMAIN H[b].f /\ H[b].f[x] = o
             \/ \E s \in E : s.op = "set" /\ s.o = b /\ s.x = x /\ s.v = o
  <2>1. CASE H[b].k = "free"
    <3>1. SET(b, x, o) \in E
      BY <1>1, <2>1 DEF Grows
    <3> QED
      BY <3>1, OpFields
  <2>2. CASE H[b].k # "free"
    BY <1>1, <2>2 DEF Grows
  <2> QED
    BY <2>1, <2>2
<1>2. \A j \in 1..Len(T) : T[j].op \in Storing => T[j] \in E
  BY DEF Grows
<1>3. ASSUME Points(G, T, b, o)
      PROVE  Points(H, <<>>, b, o) \/ \E s \in E : s.o = b /\ s.v = o
  BY <1>1, <1>2, <1>3 DEF Points
<1>4. ASSUME NEW x, Slot(G, T, b, x, o)
      PROVE  \/ Slot(H, <<>>, b, x, o)
             \/ \E s \in E : s.op \in {"put", "set"} /\ s.o = b /\ s.x = x /\ s.v = o
  BY <1>1, <1>2, <1>4 DEF Slot, Storing
<1> QED
  BY <1>3, <1>4

Climbs(H, E, lv) ==
    /\ lv \in [Ids -> 0..2]
    /\ \A b, o \in Ids : b # Globals /\ o # Globals /\ Points(H, <<>>, b, o) => lv[o] <= lv[b]
    /\ \A s \in E : s.o # Globals /\ s.v \in Ids \ {Globals} => lv[s.v] < lv[s.o]

LEMMA GrowsOrdered ==
    ASSUME NEW H, NEW G, NEW T, NEW E, Grows(H, G, T, E), Ordered(Graph(H, <<>>)),
           NEW lv, Climbs(H, E, lv)
    PROVE  Ordered(Graph(G, T))
<1>1. lv \in [Ids -> 0..2]
  BY DEF Climbs
<1>2. ASSUME NEW b \in Ids, NEW o \in Ids, <<b, o>> \in Graph(H, <<>>) PROVE lv[o] <= lv[b]
  BY <1>2, InGraph DEF Climbs
<1>3. ASSUME NEW b \in Ids, NEW o \in Ids, <<b, o>> \in Graph(G, T)
      PROVE  <<b, o>> \in Graph(H, <<>>) \/ lv[o] < lv[b]
  <2>1. b # Globals /\ o # Globals /\ Points(G, T, b, o)
    BY <1>3, InGraph
  <2>2. CASE Points(H, <<>>, b, o)
    BY <2>1, <2>2, InGraph
  <2>3. CASE \E s \in E : s.o = b /\ s.v = o
    BY <2>1, <2>3 DEF Climbs
  <2> QED
    BY <2>1, <2>2, <2>3, GrowsPoints
<1> QED
  BY <1>1, <1>2, <1>3, OrderedLevels

\* What was private stays so when no store has to do with it,
LEMMA PrivateKept ==
    ASSUME NEW H, NEW G, NEW T, NEW E, Grows(H, G, T, E),
           NEW l \in Ids, NEW x, Private(H, <<>>, l, x),
           \A s \in E : /\ s.v # l /\ (s.op \in {"put", "set"} => s.o # l)
                        /\ s.v \in Ids /\ Slot(H, <<>>, l, x, s.v) => s.v = Globals
    PROVE  Private(G, T, l, x)
<1>1. Unled(G, T, l)
  BY GrowsPoints DEF Unled, Private
<1>2. ASSUME NEW m \in Ids, Slot(G, T, l, x, m) PROVE m = Globals \/ Only(G, T, l, m)
  <2>1. Slot(H, <<>>, l, x, m)
    BY <1>2, GrowsPoints
  <2>2. m = Globals \/ \A s \in E : s.v # m
    BY <2>1
  <2>3. m = Globals \/ Only(H, <<>>, l, m)
    BY <2>1 DEF Private
  <2> QED
    BY <2>2, <2>3, GrowsPoints DEF Only
<1> QED
  BY <1>1, <1>2 DEF Private

\* and a new object is, when only its field x gets what else is new.
Apart(H, o) == /\ \A b \in Ids : ~Points(H, <<>>, b, o)
               /\ \A b \in Ids : ~Points(H, <<>>, o, b)

LEMMA PrivateNew ==
    ASSUME NEW H, NEW G, NEW T, NEW E, Grows(H, G, T, E), NEW l \in Ids, NEW x, Apart(H, l),
           \A s \in E : s.v # l,
           \A s \in E : s.op \in {"put", "set"} /\ s.o = l /\ s.x = x /\ s.v \in Ids =>
                           Apart(H, s.v) /\ \A t \in E : t.v = s.v => t.o = l
    PROVE  Private(G, T, l, x)
<1>1. Unled(G, T, l)
  BY GrowsPoints DEF Unled, Apart
<1>2. ASSUME NEW m \in Ids, Slot(G, T, l, x, m) PROVE Only(G, T, l, m)
  <2>1. ~Slot(H, <<>>, l, x, m)
    BY EmptyTodo DEF Apart, Slot, Points
  <2>2. PICK s \in E : s.op \in {"put", "set"} /\ s.o = l /\ s.x = x /\ s.v = m
    BY <1>2, <2>1, GrowsPoints
  <2>3. Apart(H, m) /\ \A t \in E : t.v = m => t.o = l
    BY <2>2
  <2> QED
    BY <2>3, GrowsPoints DEF Only, Apart
<1> QED
  BY <1>1, <1>2 DEF Private

\* No references to or from where there is no object, and only such as the
\* types allow.
LEMMA FreeApart ==
    ASSUME NEW H, NEW R, Sound(H, <<>>, R), NEW o \in Ids, H[o].k = "free"
    PROVE  Apart(H, o)
<1>1. H[o].f = <<>> /\ Begun(H, <<>>, R) /\ 1..Len(<<>>) = {}
  BY SoundBegun DEF Sound, FreedOnce
<1>2. ASSUME NEW b \in Ids, NEW x \in DOMAIN H[b].f, H[b].f[x] = o PROVE FALSE
  <2>1. H[b].k # "free"
    BY <1>2 DEF Sound, FreedOnce
  <2>2. H[b].rc > 0
    BY <1>1, <2>1 DEF Begun
  <2> QED
    BY <1>2, <2>2, EmptyTodo, FieldCounted
<1> QED
  BY <1>1, <1>2 DEF Apart, Points

LEMMA PointsTyped ==
    ASSUME NEW H, NEW R, Sound(H, <<>>, R), NEW b \in Ids, NEW o \in Ids, Points(H, <<>>, b, o)
    PROVE  /\ H[b].rc > 0 /\ H[o].rc > 0 /\ H[o].k # "free"
           /\ \/ H[b].k \in {"map", "list"} /\ H[o].k \in Items
              \/ H[b].k = "block" /\ H[o].k \in {"map", "list"}
              \/ H[b].k = "function" /\ H[o].k = "block"
<1>1. PICK x \in DOMAIN H[b].f : H[b].f[x] = o
  BY EmptyTodo DEF Points
<1>2. H[b].k # "free"
  BY <1>1 DEF Sound, FreedOnce
<1>3. H[b].rc > 0
  BY <1>2, SoundBegun DEF Begun
<1>4. Accepts(H, b, x, o) /\ ~Stale(<<>>, b, x)
  BY <1>1, <1>3, EmptyTodo DEF Sound, Formed, Shaped
<1>5. H[o].rc > 0 /\ H[o].k # "free"
  BY <1>1, <1>3, <1>4, FieldCounted
<1>6. o # NULL
  BY IdsFinite
<1> QED
  BY <1>3, <1>4, <1>5, <1>6 DEF Accepts, IsA

-----------------------------------------------------------------------------
(* What takes references away, or leaves them as they are.                   *)

LEMMA BlocksHeld ==
    ASSUME IInv
    PROVE  /\ \A x \in DOMAIN frames : frames[x].lb \in Ids /\ heap[frames[x].lb].k = "block"
           /\ phase = "compile" =>
                 \A l \in Coding(defs) : l \in Ids /\ heap[l].k = "block"
<1>1. Phased(frames, ret, phase, defs, lost) /\ Anchored(heap, frames, ret, phase, defs)
  BY DEF IInv, Holding
<1>2. ASSUME NEW x \in DOMAIN frames
      PROVE  frames[x].lb \in Ids /\ heap[frames[x].lb].k = "block"
  <2>1. frames[x] \in FrameType
    BY <1>1 DEF Phased
  <2>2. FrameHolds(heap, frames[x])
    BY <1>1 DEF Anchored
  <2> QED
    BY <2>1, <2>2 DEF FrameType, FrameHolds
<1>3. ASSUME phase = "compile", NEW l \in Coding(defs)
      PROVE  l \in Ids /\ heap[l].k = "block"
  <2>1. \A i \in DOMAIN defs : defs[i] \in Ids /\ heap[defs[i]].k = "block"
    BY <1>1 DEF Phased, Anchored
  <2>2. heap[Main].k = "block"
    BY <1>1, <1>3 DEF Anchored
  <2> QED
    BY <1>3, <2>1, <2>2, StaticMain DEF Coding
<1> QED
  BY <1>2, <1>3

LEMMA RingsShrink ==
    ASSUME IInv, RInv,
           \A b, o \in Ids : Points(heap', todo', b, o) => Points(heap, todo, b, o),
           \A b, o \in Ids : heap[b].k = "block" =>
               \A x : Slot(heap', todo', b, x, o) => Slot(heap, todo, b, x, o),
           defs' = defs, phase' = "compile" => phase = "compile",
           \A x \in DOMAIN frames' : \E y \in DOMAIN frames : frames'[x].lb = frames[y].lb
    PROVE  RInv'
<1>1. /\ Ordered(Graph(heap, todo)) /\ Distinct(defs)
      /\ phase = "compile" => Compiling(heap, todo, defs)
      /\ \A x \in DOMAIN frames : Private(heap, todo, frames[x].lb, 1)
  BY DEF RInv, Rings
<1>2. Ordered(Graph(heap', todo'))
  <2>1. \A b, o \in Ids : <<b, o>> \in Graph(heap', todo') => <<b, o>> \in Graph(heap, todo)
    BY InGraph
  <2> QED
    BY <1>1, <2>1, OrderedLess
<1>3. ASSUME NEW l \in Ids, heap[l].k = "block", NEW x, Private(heap, todo, l, x)
      PROVE  Private(heap', todo', l, x)
  <2>1. Unled(heap', todo', l)
    BY <1>3 DEF Private, Unled
  <2>2. ASSUME NEW m \in Ids, Slot(heap', todo', l, x, m)
        PROVE  m = Globals \/ Only(heap', todo', l, m)
    <3>1. Slot(heap, todo, l, x, m)
      BY <1>3, <2>2
    <3> QED
      BY <1>3, <3>1 DEF Private, Only
  <2> QED
    BY <2>1, <2>2 DEF Private
<1>4. ASSUME phase' = "compile" PROVE Compiling(heap', todo', defs)
  <2>1. phase = "compile" /\ Compiling(heap, todo, defs)
    BY <1>1, <1>4
  <2>2. \A l \in Coding(defs) : Private(heap', todo', l, 3)
    BY <1>3, <2>1, BlocksHeld DEF Compiling
  <2>3. Main \in Ids /\ heap[Main].k = "block"
    BY <2>1, BlocksHeld DEF Coding
  <2>4. \A m \in Ids : Slot(heap', todo', Main, 1, m) => m = Globals
    BY <2>1, <2>3 DEF Compiling
  <2> QED
    BY <2>2, <2>4 DEF Compiling
<1>5. \A x \in DOMAIN frames' : Private(heap', todo', frames'[x].lb, 1)
  BY <1>1, <1>3, BlocksHeld
<1> QED
  BY <1>1, <1>2, <1>4, <1>5 DEF RInv, Rings

LEMMA StepRings == ASSUME IInv, RInv, Step PROVE RInv'
<1>1. \A b, o \in Ids : Points(heap', todo', b, o) => Points(heap, todo, b, o)
  BY StepPoints
<1>2. \A b, o \in Ids : heap[b].k = "block" =>
          \A x : Slot(heap', todo', b, x, o) => Slot(heap, todo, b, x, o)
  BY StepPoints
<1>3. defs' = defs /\ phase' = phase /\ frames' = frames
  BY DEF Step
<1> QED
  BY <1>1, <1>2, <1>3, RingsShrink

\* Operations that store nothing.
Plain(T) == \A j \in 1..Len(T) : T[j].op \notin Storing

LEMMA PlainOps ==
    \A o : /\ INC(o).op \notin Storing /\ DEC(o).op \notin Storing
           /\ READ(o).op \notin Storing /\ NAME(o).op \notin Storing
  BY OpFields DEF Storing

LEMMA PlainLists ==
    /\ Plain(<<>>)
    /\ \A a : a.op \notin Storing => Plain(<<a>>)
    /\ \A a, b : a.op \notin Storing /\ b.op \notin Storing => Plain(<<a, b>>)
    /\ \A a, b, c : a.op \notin Storing /\ b.op \notin Storing /\ c.op \notin Storing =>
          Plain(<<a, b, c>>)
    /\ \A a, b, c, d, e, f :
          /\ a.op \notin Storing /\ b.op \notin Storing /\ c.op \notin Storing
          /\ d.op \notin Storing /\ e.op \notin Storing /\ f.op \notin Storing
          => Plain(<<a, b, c, d, e, f>>)
<1>1. Plain(<<>>) /\ \A a : a.op \notin Storing => Plain(<<a>>)
  BY DEF Plain
<1>2. \A a, b : a.op \notin Storing /\ b.op \notin Storing => Plain(<<a, b>>)
  BY DEF Plain
<1>3. \A a, b, c : a.op \notin Storing /\ b.op \notin Storing /\ c.op \notin Storing =>
          Plain(<<a, b, c>>)
  BY DEF Plain
<1>4. ASSUME NEW a, NEW b, NEW c, NEW d, NEW e, NEW f,
             a.op \notin Storing, b.op \notin Storing, c.op \notin Storing,
             d.op \notin Storing, e.op \notin Storing, f.op \notin Storing
      PROVE  Plain(<<a, b, c, d, e, f>>)
  BY <1>4 DEF Plain
<1> QED
  BY <1>1, <1>2, <1>3, <1>4

LEMMA Calm ==
    ASSUME IInv, RInv, Plain(todo'), \A b \in Ids : heap'[b].f = heap[b].f,
           defs' = defs, phase' = "compile" => phase = "compile",
           \A x \in DOMAIN frames' : \E y \in DOMAIN frames : frames'[x].lb = frames[y].lb
    PROVE  RInv'
<1>1. \A b, o \in Ids : Points(heap', todo', b, o) => Points(heap, todo, b, o)
  BY DEF Points, Plain
<1>2. \A b, o \in Ids : \A x : Slot(heap', todo', b, x, o) => Slot(heap, todo, b, x, o)
  BY DEF Slot, Plain, Storing
<1> QED
  BY <1>1, <1>2, RingsShrink

\* An instruction that changes the stack and stores nothing, and QUIT_VM.
LEMMA DoCalm ==
    ASSUME IInv, RInv, Running, NEW s, NEW ops, Do(s, ops), Plain(ops),
           \A b \in Ids : heap'[b].f = heap[b].f
    PROVE  RInv'
<1>1. todo' = ops /\ defs' = defs /\ phase' = phase
      /\ frames' = [frames EXCEPT ![Len(frames)].stk = s]
  BY DEF Do
<1>2. frames \in Seq(FrameType)
  BY Runs
<1>3. \A x \in DOMAIN frames' : x \in DOMAIN frames /\ frames'[x].lb = frames[x].lb
  <2>1. \A x \in DOMAIN frames : frames[x] \in FrameType
    BY <1>2
  <2> QED
    BY <1>1, <2>1 DEF FrameType
<1> QED
  BY <1>1, <1>3, Calm

LEMMA QuitCalm ==
    ASSUME IInv, RInv, NEW s, NEW ops, Quit(s, ops), Plain(ops)
    PROVE  RInv'
<1>1. todo' = ops /\ defs' = defs /\ phase' = "evaled" /\ frames' = <<>> /\ heap' = heap
  BY DEF Quit
<1>2. DOMAIN <<>> = {}
  OBVIOUS
<1> QED
  BY <1>1, <1>2, Calm

LEMMA StackRings ==
    ASSUME IInv, RInv, Push \/ LoadName \/ Dup \/ PopTop \/ Comparison \/ JumpOnNoBool
    PROVE  RInv'
<1>0. \A v : Plain(<<>>) /\ Plain(<<INC(v)>>) /\ Plain(<<DEC(v)>>)
  BY PlainOps, PlainLists
<1>1. ASSUME Running, NEW s, NEW ops, Does(s, ops), Plain(ops) PROVE RInv'
  BY <1>1, DoCalm DEF Does
<1>2. CASE Push
  <2>1. PICK x \in DOMAIN heap[Consts(lb)].f :
            Does(Append(Stack, Field(Consts(lb), x)), <<INC(Field(Consts(lb), x))>>)
    BY <1>2 DEF Push
  <2> QED
    BY <1>0, <1>1, <1>2, <2>1 DEF Push
<1>3. CASE LoadName
  <2>1. PICK n \in Names : IF Value(n) = NULL THEN Quit(Stack, <<>>)
                           ELSE Does(Append(Stack, Value(n)), <<INC(Value(n))>>)
    BY <1>3 DEF LoadName
  <2>2. Running
    BY <1>3 DEF LoadName
  <2> QED
    BY <1>0, <1>1, <2>1, <2>2, QuitCalm
<1>4. CASE Dup
  BY <1>0, <1>1, <1>4 DEF Dup
<1>5. CASE PopTop
  BY <1>0, <1>1, <1>5 DEF PopTop
<1>6. CASE Comparison
  <2>1. \A a, b, c : Plain(<<DEC(a), DEC(b), INC(c)>>)
    BY PlainOps, PlainLists
  <2> QED
    BY <1>1, <1>6, <2>1 DEF Comparison
<1>7. CASE JumpOnNoBool
  <2>1. Quit(Below(1), <<DEC(FromTop(1))>>)
    BY <1>7 DEF JumpOnNoBool
  <2> QED
    BY <1>0, <2>1, QuitCalm
<1> QED
  BY <1>2, <1>3, <1>4, <1>5, <1>6, <1>7

\* A new value has no fields.
LEMMA ArithmeticRings == ASSUME IInv, RInv, Arithmetic PROVE RInv'
<1>1. Running
  BY DEF Arithmetic
<1>2. PICK p \in {<<1, 2>>, <<2, 1>>} :
        LET op1 == FromTop(p[1])
            op2 == FromTop(p[2])
            drop == <<DEC(op1), DEC(op2)>>
        IN  IF heap[op1].k = "value" /\ heap[op2].k = "value"
            THEN /\ Room(1)
                 /\ heap' = [heap EXCEPT ![Fresh({})] = New("value", <<>>)]
                 /\ Do(Append(Below(2), Fresh({})), drop)
            ELSE Quit(Below(2), <<INC(Nil), DEC(op1), DEC(op2), DEC(Nil),
                                  NAME(op1), NAME(op2)>>)
  BY Zenon DEF Arithmetic
<1> DEFINE a == FromTop(p[1])
           b == FromTop(p[2])
<1>3. CASE heap[a].k = "value" /\ heap[b].k = "value"
  <2>1. /\ Room(1) /\ heap' = [heap EXCEPT ![Fresh({})] = New("value", <<>>)]
        /\ Do(Append(Below(2), Fresh({})), <<DEC(a), DEC(b)>>)
    BY <1>2, <1>3
  <2>2. Fresh({}) \in Ids /\ heap[Fresh({})].k = "free"
    BY <2>1, FirstFresh
  <2>3. heap[Fresh({})].f = <<>> /\ DOMAIN heap = Ids
    BY <1>1, <2>2, Runs, Idle DEF Sound, FreedOnce
  <2>4. \A o \in Ids : heap'[o].f = heap[o].f
    BY <2>1, <2>3 DEF New
  <2>5. Plain(<<DEC(a), DEC(b)>>)
    BY PlainOps, PlainLists
  <2> QED
    BY <1>1, <2>1, <2>4, <2>5, DoCalm
<1>4. CASE ~(heap[a].k = "value" /\ heap[b].k = "value")
  <2>1. Quit(Below(2), <<INC(Nil), DEC(a), DEC(b), DEC(Nil), NAME(a), NAME(b)>>)
    BY <1>2, <1>4
  <2>2. Plain(<<INC(Nil), DEC(a), DEC(b), DEC(Nil), NAME(a), NAME(b)>>)
    BY PlainOps, PlainLists
  <2> QED
    BY <2>1, <2>2, QuitCalm
<1> QED
  BY <1>3, <1>4

LEMMA EndRings == ASSUME IInv, RInv, EndFrame \/ DestructCompiler PROVE RInv'
<1>1. CASE EndFrame /\ Len(frames) > 1
  <2> DEFINE v == Stack[1]
             fs == Front(frames)
             gs == [fs EXCEPT ![Len(frames) - 1].stk = Append(@, v)]
  <2>1. Running /\ frames' = gs /\ todo' = <<DEC(ret), DEC(lb)>> \o <<INC(v)>> /\ phase' = phase
        /\ heap' = heap /\ defs' = defs
    BY <1>1 DEF EndFrame
  <2>2. frames \in Seq(FrameType) /\ frames # <<>>
    BY <2>1, Runs
  <2>3. fs \in Seq(FrameType) /\ Len(fs) = Len(frames) - 1
        /\ \A x \in 1..Len(fs) : fs[x] = frames[x] /\ x \in 1..Len(frames)
    BY <2>2, FramePopped
  <2>4. \A x \in DOMAIN fs : fs[x] \in FrameType
    BY <2>3
  <2>5. \A x \in DOMAIN gs : x \in DOMAIN fs /\ gs[x].lb = fs[x].lb
    BY <2>4 DEF FrameType
  <2> HIDE DEF gs, fs, v
  <2>6. \A x \in DOMAIN gs : x \in DOMAIN frames /\ gs[x].lb = frames[x].lb
    BY <2>2, <2>3, <2>5
  <2>7. <<DEC(ret), DEC(lb)>> \o <<INC(v)>> = <<DEC(ret), DEC(lb), INC(v)>>
    BY List3, Zenon DEF Plus
  <2>8. Plain(<<DEC(ret), DEC(lb), INC(v)>>)
    BY PlainOps, PlainLists
  <2> QED
    BY <2>1, <2>6, <2>7, <2>8, Calm
<1>2. CASE EndFrame /\ ~(Len(frames) > 1)
  <2>1. frames' = <<>> /\ todo' = <<DEC(ret), DEC(lb)>> \o <<DEC(Stack[1])>>
        /\ phase' = "evaled" /\ heap' = heap /\ defs' = defs
    BY <1>2 DEF EndFrame
  <2>2. <<DEC(ret), DEC(lb)>> \o <<DEC(Stack[1])>> = <<DEC(ret), DEC(lb), DEC(Stack[1])>>
    BY List3, Zenon DEF Plus
  <2>3. Plain(<<DEC(ret), DEC(lb), DEC(Stack[1])>>)
    BY PlainOps, PlainLists
  <2>4. DOMAIN <<>> = {}
    OBVIOUS
  <2> QED
    BY <2>1, <2>2, <2>3, <2>4, Calm
<1>3. CASE DestructCompiler
  <2>1. todo' = <<DEC(Main)>> /\ phase' = "done" /\ heap' = heap /\ defs' = defs /\ frames' = frames
    BY <1>3 DEF DestructCompiler
  <2>2. Plain(<<DEC(Main)>>)
    BY PlainOps, PlainLists
  <2> QED
    BY <2>1, <2>2, Calm
<1> QED
  BY <1>1, <1>2, <1>3

-----------------------------------------------------------------------------
(* The compiler.                                                             *)

LEMMA SlotField ==
    \A H, b, x, o : Slot(H, <<>>, b, x, o) <=> x \in DOMAIN H[b].f /\ H[b].f[x] = o
  BY EmptyTodo DEF Slot

LEMMA BlockSlots ==
    ASSUME NEW H, NEW R, Sound(H, <<>>, R), NEW b \in Ids, H[b].k = "block", NEW o \in Ids
    PROVE  /\ \A x : Slot(H, <<>>, b, x, o) => Points(H, <<>>, b, o)
           /\ Slot(H, <<>>, b, 1, o) => H[o].k = "map"
           /\ Slot(H, <<>>, b, 3, o) => H[o].k = "list"
           /\ \A x \in 1..3 : Slot(H, <<>>, b, x, H[b].f[x])
           /\ H[b].f[2] \in Ids /\ H[H[b].f[2]].k = "map"
           /\ H[b].f[3] \in Ids /\ H[H[b].f[3]].k = "list"
<1>1. H[b].rc > 0
  BY SoundBegun DEF Begun, Sound, FreedOnce
<1>2. /\ DOMAIN H[b].f = 1..3 /\ IsA(H, H[b].f[1], {"map"}) /\ IsA(H, H[b].f[2], {"map"})
      /\ IsA(H, H[b].f[3], {"list"})
  BY <1>1, BlockFields
<1> QED
  BY <1>2, SlotField DEF IsA, Points

\* What is compiled, and its constants.
LEMMA Codes ==
    ASSUME IInv, RInv, Ready("compile"), NEW b \in Coding(defs), NEW k, k = heap[b].f[3]
    PROVE  /\ b \in Ids /\ heap[b].k = "block" /\ k \in Ids /\ heap[k].k = "list"
           /\ \A x \in Ids : ~Points(heap, <<>>, x, b)
           /\ \A x \in Ids : k # Globals /\ Points(heap, <<>>, x, k) => x = b
<1>1. phase = "compile" /\ todo = <<>>
  BY DEF Ready
<1>2. b \in Ids /\ heap[b].k = "block"
  BY <1>1, BlocksHeld
<1>3. Private(heap, <<>>, b, 3)
  BY <1>1 DEF RInv, Rings, Compiling
<1>4. Sound(heap, <<>>, Root)
  BY <1>1, Idle
<1>5. k \in Ids /\ heap[k].k = "list" /\ Slot(heap, <<>>, b, 3, k)
  BY <1>2, <1>4, BlockSlots
<1>6. k = Globals \/ Only(heap, <<>>, b, k)
  BY <1>3, <1>5 DEF Private
<1> QED
  BY <1>2, <1>3, <1>5, <1>6 DEF Private, Unled, Only

LEMMA CompiledCoding ==
    ASSUME IInv, Ready("compile")
    PROVE  Compiled \in Coding(defs)
<1>1. defs \in Seq(Ids)
  BY Compiles
<1>2. CASE defs = <<>>
  BY <1>2 DEF Compiled, Coding
<1>3. CASE defs # <<>>
  <2>1. Len(defs) \in DOMAIN defs /\ Compiled = defs[Len(defs)]
    BY <1>1, <1>3 DEF Compiled, Last
  <2> QED
    BY <2>1 DEF Coding
<1> QED
  BY <1>2, <1>3

LEMMA CompilingKept ==
    ASSUME NEW H, NEW R, Sound(H, <<>>, R), NEW ds, NEW cs, Coding(ds) \subseteq Coding(cs),
           Compiling(H, <<>>, cs), \A l \in Coding(ds) : l \in Ids /\ H[l].k = "block",
           NEW G, NEW T, NEW E, Grows(H, G, T, E),
           \A s \in E : /\ s.v \in Ids /\ s.v \notin Coding(ds) /\ H[s.v].k # "list"
                        /\ s.op \in {"put", "set"} => s.o \notin Coding(ds)
    PROVE  Compiling(G, T, ds)
<1>1. ASSUME NEW l \in Coding(ds) PROVE Private(G, T, l, 3)
  <2>1. Private(H, <<>>, l, 3) /\ l \in Ids /\ H[l].k = "block"
    BY <1>1 DEF Compiling
  <2>2. ASSUME NEW s \in E
        PROVE  /\ s.v # l /\ (s.op \in {"put", "set"} => s.o # l)
               /\ Slot(H, <<>>, l, 3, s.v) => s.v = Globals
    BY <1>1, <2>1, <2>2, BlockSlots
  <2> QED
    BY <2>1, <2>2, PrivateKept
<1>2. ASSUME NEW m \in Ids, Slot(G, T, Main, 1, m) PROVE m = Globals
  <2>1. Main \in Coding(ds)
    BY DEF Coding
  <2>2. Slot(H, <<>>, Main, 1, m)
    BY <1>2, <2>1, GrowsPoints
  <2> QED
    BY <2>2 DEF Compiling
<1> QED
  BY <1>1, <1>2 DEF Compiling

\* A literal, which has no fields, becomes the last constant or none.
LEMMA LiteralRings ==
    ASSUME IInv, RInv, Ready("compile"), NEW o \in Ids, heap[o].k \notin {"block", "list"},
           NEW k, k = heap[Compiled].f[3],
           todo' \in {<<APPEND(k, o), DEC(o)>>, <<APPEND(k, o)>>, <<DEC(o)>>, <<>>},
           \A c \in Ids : heap'[c].f = heap[c].f, UNCHANGED <<phase, defs, frames>>
    PROVE  RInv'
<1> DEFINE b == Compiled
<1>1. phase = "compile" /\ todo = <<>> /\ frames = <<>>
  BY Compiles DEF Ready
<1>2. Sound(heap, <<>>, Root)
  BY <1>1, Idle
<1>3. /\ b \in Ids /\ heap[b].k = "block" /\ k \in Ids /\ heap[k].k = "list"
      /\ \A x \in Ids : ~Points(heap, <<>>, x, b)
      /\ \A x \in Ids : k # Globals /\ Points(heap, <<>>, x, k) => x = b
  BY CompiledCoding, Codes
<1> HIDE DEF b
<1>4. CASE todo' \in {<<DEC(o)>>, <<>>}
  <2>1. Plain(todo')
    BY <1>4, PlainOps, PlainLists
  <2> QED
    BY <2>1, Calm
<1>5. CASE todo' \in {<<APPEND(k, o), DEC(o)>>, <<APPEND(k, o)>>}
  <2> DEFINE E == {APPEND(k, o)}
             lv == [x \in Ids |-> IF x \in {k, b} THEN 1 ELSE 0]
  <2>1. Grows(heap, heap', todo', E)
    <3>1. \A j \in 1..Len(todo') : todo'[j] \in E \/ todo'[j] = DEC(o)
      BY <1>5
    <3>2. \A c \in Ids : heap[c].k = "free" => DOMAIN heap'[c].f = {}
      BY <1>2 DEF Sound, FreedOnce
    <3> QED
      BY <3>1, <3>2, PlainOps DEF Grows
  <2>2. \A s \in E : s.op = "append" /\ s.o = k /\ s.v = o
    BY OpFields
  <2>3. Climbs(heap, E, lv)
    BY <1>3, <2>2 DEF Climbs
  <2> HIDE DEF E, lv
  <2>4. Ordered(Graph(heap', todo'))
    BY <1>1, <2>1, <2>3, GrowsOrdered DEF RInv, Rings
  <2>5. Compiling(heap', todo', defs)
    <3>1. \A l \in Coding(defs) : l \in Ids /\ heap[l].k = "block"
      BY <1>1, BlocksHeld
    <3>2. Compiling(heap, <<>>, defs)
      BY <1>1 DEF RInv, Rings
    <3>3. \A s \in E : /\ s.v \in Ids /\ s.v \notin Coding(defs) /\ heap[s.v].k # "list"
                       /\ s.op \in {"put", "set"} => s.o \notin Coding(defs)
      BY <2>2, <3>1
    <3> QED
      BY <1>2, <2>1, <3>1, <3>2, <3>3, CompilingKept
  <2> QED
    BY <1>1, <2>4, <2>5 DEF RInv, Rings
<1> QED
  BY <1>4, <1>5

LEMMA StoreNumberRings == ASSUME IInv, RInv, StoreNumber PROVE RInv'
<1> DEFINE o == Fresh({})
           k == heap[Compiled].f[3]
           v == New("value", <<>>)
<1>1. /\ Ready("compile") /\ Room(1) /\ heap' = [heap EXCEPT ![o] = v]
      /\ todo' = <<APPEND(k, o), DEC(o)>> \/ todo' = <<DEC(o)>>
      /\ UNCHANGED <<phase, defs, frames>>
  BY DEF StoreNumber, Literal, Stored, Consts, Field
<1>2. Sound(heap, <<>>, Root) /\ DOMAIN heap = Ids
  BY <1>1, Idle DEF Ready
<1>3. o \in Ids /\ heap[o].k = "free" /\ heap[o].f = <<>>
  BY <1>1, <1>2, FirstFresh DEF Sound, FreedOnce
<1> HIDE DEF o, k
<1>4. \A c \in Ids : heap'[c].f = heap[c].f
  BY <1>1, <1>2, <1>3 DEF New
<1> QED
  BY <1>1, <1>3, <1>4, LiteralRings DEF k

LEMMA StaticRings ==
    ASSUME IInv, RInv, StoreBool \/ StoreNil \/ FakeElse
    PROVE  RInv'
<1> DEFINE k == heap[Compiled].f[3]
<1>1. PICK z \in Statics :
        /\ todo' \in {<<APPEND(k, z), DEC(z)>>, <<APPEND(k, z)>>, <<DEC(z)>>, <<>>}
        /\ heap' = heap \/ heap' = [heap EXCEPT ![z].rc = @ + 1]
  <2>1. CASE StoreBool
    <3>1. /\ todo' = <<APPEND(k, Static), DEC(Static)>> \/ todo' = <<DEC(Static)>>
          /\ heap' = [heap EXCEPT ![Static].rc = @ + 1]
      BY <2>1 DEF StoreBool, Literal, Stored, Consts, Field
    <3> HIDE DEF k
    <3> QED
      BY <3>1, StaticMain
  <2>2. CASE StoreNil
    <3>1. /\ todo' = <<APPEND(k, Nil), DEC(Nil)>> \/ todo' = <<DEC(Nil)>>
          /\ heap' = [heap EXCEPT ![Nil].rc = @ + 1]
      BY <2>2 DEF StoreNil, Literal, Stored, Consts, Field
    <3> HIDE DEF k
    <3> QED
      BY <3>1, StaticMain
  <2>3. CASE FakeElse
    <3>1. /\ todo' = <<APPEND(k, Nil)>> \/ todo' = <<>>
          /\ heap' = heap
      BY <2>3 DEF FakeElse, Consts, Field
    <3> HIDE DEF k
    <3> QED
      BY <3>1, StaticMain
  <2> QED
    BY <2>1, <2>2, <2>3
<1>2. Ready("compile") /\ UNCHANGED <<phase, defs, frames>>
  BY DEF StoreBool, StoreNil, FakeElse, Literal
<1>3. z \in Ids /\ heap[z].k = "static" /\ DOMAIN heap = Ids /\ \A c \in Ids : Boxed(heap[c])
  <2>1. todo = <<>>
    BY <1>2 DEF Ready
  <2>2. z \in Ids
    BY StaticMain
  <2>3. heap[z].k = "static"
    BY DEF IInv, Holding, Anchored
  <2> QED
    BY <2>1, <2>2, <2>3, Idle DEF IInv, Holding, Records
<1> HIDE DEF k
<1>4. \A c \in Ids : heap'[c].f = heap[c].f
  BY <1>1, <1>3 DEF Boxed
<1> QED
  BY <1>1, <1>2, <1>3, <1>4, LiteralRings DEF k

LEMMA StartEvalRings == ASSUME IInv, RInv, StartEval PROVE RInv'
<1> DEFINE E == {}
           lv == [x \in Ids |-> 0]
           fs == <<[lb |-> Main, stk |-> <<>>]>>
<1>1. /\ Ready("compile") /\ phase' = "eval" /\ todo' = <<INC(Main)>> /\ frames' = fs
      /\ heap' = heap /\ defs' = defs
  BY DEF StartEval
<1>2. phase = "compile" /\ todo = <<>>
  BY <1>1 DEF Ready
<1>3. Sound(heap, <<>>, Root) /\ Main \in Ids /\ heap[Main].k = "block"
  BY <1>2, Idle, BlocksHeld DEF Coding
<1>4. DOMAIN fs = {1} /\ fs[1].lb = Main
  OBVIOUS
<1> HIDE DEF fs
<1>5. Grows(heap, heap', todo', E)
  <2>1. Plain(todo')
    BY <1>1, PlainOps, PlainLists
  <2>2. \A c \in Ids : heap[c].k = "free" => DOMAIN heap[c].f = {}
    BY <1>3 DEF Sound, FreedOnce
  <2> QED
    BY <1>1, <2>1, <2>2 DEF Grows, Plain
<1>6. Climbs(heap, E, lv)
  BY DEF Climbs
<1> HIDE DEF E, lv
<1>7. Ordered(Graph(heap', todo'))
  BY <1>2, <1>5, <1>6, GrowsOrdered DEF RInv, Rings
<1>8. Private(heap', todo', Main, 1)
  <2>1. Compiling(heap, <<>>, defs) /\ Main \in Coding(defs)
    BY <1>2 DEF RInv, Rings, Coding
  <2>2. Private(heap, <<>>, Main, 1)
    BY <2>1 DEF Compiling, Private
  <2> QED
    BY <1>3, <1>5, <2>2, PrivateKept DEF E
<1> QED
  BY <1>1, <1>4, <1>7, <1>8 DEF RInv, Rings

LEMMA LeaveFunctionRings == ASSUME IInv, RInv, LeaveFunction PROVE RInv'
<1> DEFINE code == Last(defs)
           f == Fresh({})
           ds == Front(defs)
           n == Len(defs)
           b == IF n = 1 THEN Main ELSE defs[n - 1]
           k == heap[b].f[3]
           E == {SET(f, 1, code), APPEND(k, f)}
           lv == [x \in Ids |-> IF x \in {k, b} THEN 2 ELSE IF x = f THEN 1 ELSE 0]
<1>1. /\ Ready("compile") /\ defs # <<>> /\ Room(1) /\ defs' = ds
      /\ todo' = <<DEC(code), SET(f, 1, code), DEC(code)>> \o <<APPEND(k, f), DEC(f)>>
      /\ phase' = phase /\ frames' = frames
  BY DEF LeaveFunction, Stored, Consts, Field
<1>2. PICK ps \in Params : heap' = [heap EXCEPT ![f] = [New("function", <<NULL>>) EXCEPT !.ps = ps]]
  BY DEF LeaveFunction
<1>3. phase = "compile" /\ todo = <<>> /\ frames = <<>> /\ defs \in Seq(Ids)
  BY <1>1, Compiles DEF Ready
<1>4. Sound(heap, <<>>, Root) /\ DOMAIN heap = Ids
  BY <1>3, Idle
<1>5. f \in Ids /\ heap[f].k = "free"
  BY <1>1, FirstFresh
<1>6. n \in Nat \ {0} /\ DOMAIN defs = 1..n /\ code = defs[n] /\ n \in 1..n
  BY <1>1, <1>3 DEF Last
<1>7. DOMAIN ds = 1..n - 1 /\ \A i \in 1..n - 1 : ds[i] = defs[i] /\ i \in 1..n /\ i # n
  <2>1. /\ ds \in Seq(Ids) /\ Len(ds) = n - 1 /\ \A i \in 1..n - 1 : ds[i] = defs[i]
    BY <1>1, <1>3, FrontOf
  <2> HIDE DEF ds, n
  <2>2. DOMAIN ds = 1..n - 1
    BY <2>1
  <2>3. \A i \in 1..n - 1 : i \in 1..n /\ i # n
    BY <1>6
  <2> QED
    BY <2>1, <2>2, <2>3
<1>8. Distinct(defs) /\ Ordered(Graph(heap, <<>>)) /\ Compiling(heap, <<>>, defs)
  BY <1>3 DEF RInv, Rings
<1>9. Distinct(ds)
  <2> HIDE DEF ds, n
  <2> QED
    BY <1>6, <1>7, <1>8 DEF Distinct
<1>10. Coding(ds) \subseteq Coding(defs) /\ b \in Coding(ds) /\ code \in Coding(defs)
  <2>1. n # 1 => n - 1 \in 1..n - 1
    BY <1>6
  <2> HIDE DEF ds, code
  <2> QED
    BY <1>6, <1>7, <2>1 DEF Coding
<1>11. code \notin Coding(ds)
  <2>1. \A i \in 1..n - 1 : ds[i] # code
    BY <1>6, <1>7, <1>8 DEF Distinct
  <2>2. code # Main
    BY <1>6, <1>8 DEF Distinct
  <2> HIDE DEF ds, code
  <2> QED
    BY <1>7, <2>1, <2>2 DEF Coding
<1>12. \A l \in Coding(defs) : l \in Ids /\ heap[l].k = "block"
  BY <1>3, BlocksHeld
<1> HIDE DEF code, f, ds, n, b
<1>13. /\ k \in Ids /\ heap[k].k = "list"
       /\ \A x \in Ids : ~Points(heap, <<>>, x, b)
       /\ \A x \in Ids : k # Globals /\ Points(heap, <<>>, x, k) => x = b
  BY <1>1, <1>10, Codes
<1> HIDE DEF k
<1>14. Apart(heap, f)
  BY <1>4, <1>5, FreeApart
<1>15. \A s \in E : \/ s.op = "set" /\ s.o = f /\ s.v = code
                    \/ s.op = "append" /\ s.o = k /\ s.v = f
  BY OpFields
<1>16. Grows(heap, heap', todo', E)
  <2>1. \A j \in 1..Len(todo') : todo'[j] \in E \/ todo'[j] = DEC(code) \/ todo'[j] = DEC(f)
    <3>1. ASSUME NEW p, NEW q, NEW r, NEW s, NEW t
          PROVE  \A j \in 1..Len(<<p, q, r>> \o <<s, t>>) :
                    (<<p, q, r>> \o <<s, t>>)[j] \in {p, q, r, s, t}
      OBVIOUS
    <3> QED
      BY <1>1, <3>1
  <2>2. heap'[f].f = <<NULL>>
    BY <1>2, <1>4, <1>5 DEF New
  <2>3. \A c \in Ids : c # f => heap'[c] = heap[c]
    BY <1>2, <1>4
  <2>4. \A c \in Ids : heap[c].k = "free" => DOMAIN heap[c].f = {}
    BY <1>4 DEF Sound, FreedOnce
  <2>5. \A x \in DOMAIN heap'[f].f : heap'[f].f[x] \notin Ids
    BY <2>2, IdsFinite
  <2> HIDE DEF E
  <2> QED
    BY <1>5, <2>1, <2>3, <2>4, <2>5, PlainOps DEF Grows
<1>17. Climbs(heap, E, lv)
  <2>1. code \in Ids /\ code # b /\ code # k /\ code # f /\ f # b /\ f # k /\ b \in Ids
    BY <1>5, <1>10, <1>11, <1>12, <1>13
  <2>2. \A s \in E : lv[s.v] < lv[s.o]
    BY <1>5, <1>13, <1>15, <2>1
  <2>3. \A x, y \in Ids : x # Globals /\ y # Globals /\ Points(heap, <<>>, x, y) => lv[y] <= lv[x]
    BY <1>13, <1>14 DEF Apart
  <2> QED
    BY <2>2, <2>3 DEF Climbs
<1> HIDE DEF E, lv
<1>18. Ordered(Graph(heap', todo'))
  BY <1>8, <1>16, <1>17, GrowsOrdered
<1>19. Compiling(heap', todo', ds)
  <2>1. \A s \in E : /\ s.v \in Ids /\ s.v \notin Coding(ds) /\ heap[s.v].k # "list"
                     /\ s.op \in {"put", "set"} => s.o \notin Coding(ds)
    BY <1>5, <1>10, <1>11, <1>12, <1>15
  <2>2. \A l \in Coding(ds) : l \in Ids /\ heap[l].k = "block"
    BY <1>10, <1>12
  <2> QED
    BY <1>4, <1>8, <1>10, <1>16, <2>1, <2>2, CompilingKept
<1> QED
  BY <1>1, <1>3, <1>9, <1>18, <1>19 DEF RInv, Rings

LEMMA EnterFunctionRings == ASSUME IInv, RInv, EnterFunction PROVE RInv'
<1> DEFINE a == Fresh({})
           c == Fresh({a})
           l == Fresh({a, c})
           b == Compiled
           g == heap[b].f[2]
           E == {SET(l, 1, a), SET(l, 2, g), SET(l, 3, c)}
           lv == [x \in Ids |-> IF x = l THEN 1 ELSE 0]
<1>1. /\ Ready("compile") /\ Room(4)
      /\ heap' = [heap EXCEPT ![a] = New("map", EmptyMap), ![c] = New("list", <<>>),
                              ![l] = New("block", <<NULL, NULL, c>>)]
      /\ todo' = <<SET(l, 2, g), SET(l, 1, a), DEC(a), INC(l)>> /\ defs' = Append(defs, l)
      /\ phase' = phase /\ frames' = frames
  BY Zenon DEF EnterFunction, GlobalsOf, Field
<1>2. phase = "compile" /\ todo = <<>> /\ frames = <<>> /\ defs \in Seq(Ids)
  BY <1>1, Compiles DEF Ready
<1>3. Sound(heap, <<>>, Root) /\ DOMAIN heap = Ids
  BY <1>2, Idle
<1>4. /\ a \in Ids /\ c \in Ids /\ l \in Ids /\ a # c /\ a # l /\ c # l
      /\ heap[a].k = "free" /\ heap[c].k = "free" /\ heap[l].k = "free"
  <2>1. 4 \in Nat /\ 4 > 2
    OBVIOUS
  <2> QED
    BY <1>1, <2>1, FreshThree, ZenonT(30)
<1>5. b \in Coding(defs)
  BY <1>1, CompiledCoding
<1>6. \A x \in Coding(defs) : x \in Ids /\ heap[x].k = "block"
  BY <1>2, BlocksHeld
<1> HIDE DEF a, c, l, b
<1>7. g \in Ids /\ heap[g].k = "map"
  BY <1>3, <1>5, <1>6, BlockSlots
<1> HIDE DEF g
<1>8. Apart(heap, l) /\ Apart(heap, c)
  BY <1>3, <1>4, FreeApart
<1>9. \A s \in E : /\ s.op = "set" /\ s.o = l
                   /\ \/ s.x = 1 /\ s.v = a
                      \/ s.x = 2 /\ s.v = g
                      \/ s.x = 3 /\ s.v = c
  <2>1. ASSUME NEW s, NEW x, NEW v, s = SET(l, x, v)
        PROVE  s.op = "set" /\ s.o = l /\ s.x = x /\ s.v = v
    BY <2>1, OpFields
  <2>2. \A s \in E : s = SET(l, 1, a) \/ s = SET(l, 2, g) \/ s = SET(l, 3, c)
    OBVIOUS
  <2> HIDE DEF E
  <2> QED
    BY <2>1, <2>2
<1>10. Grows(heap, heap', todo', E)
  <2>1. \A j \in 1..Len(todo') : todo'[j] \in E \/ todo'[j] = DEC(a) \/ todo'[j] = INC(l)
    BY <1>1
  <2>2. heap'[a].f = EmptyMap /\ heap'[c].f = <<>> /\ heap'[l].f = <<NULL, NULL, c>>
    BY <1>1, <1>3, <1>4 DEF New
  <2>3. \A o \in Ids : o \notin {a, c, l} => heap'[o] = heap[o]
    BY <1>1, <1>3
  <2>4. \A o \in Ids : heap[o].k = "free" => DOMAIN heap[o].f = {}
    BY <1>3 DEF Sound, FreedOnce
  <2>5. /\ \A x \in DOMAIN heap'[a].f : heap'[a].f[x] \notin Ids
        /\ DOMAIN heap'[c].f = {}
    BY <2>2, IdsFinite DEF EmptyMap
  <2>6. \A x \in DOMAIN heap'[l].f :
            heap'[l].f[x] \in Ids => SET(l, x, heap'[l].f[x]) \in E
    BY <2>2, IdsFinite
  <2> HIDE DEF E
  <2> QED
    BY <1>4, <2>1, <2>3, <2>4, <2>5, <2>6, PlainOps DEF Grows
<1>11. Climbs(heap, E, lv)
  BY <1>4, <1>7, <1>8, <1>9 DEF Climbs, Apart
<1> HIDE DEF E, lv
<1>12. Distinct(defs) /\ Ordered(Graph(heap, <<>>)) /\ Compiling(heap, <<>>, defs)
  BY <1>2 DEF RInv, Rings
<1>13. Ordered(Graph(heap', todo'))
  BY <1>10, <1>11, <1>12, GrowsOrdered
<1>14. Compiling(heap', todo', defs)
  <2>1. \A s \in E : /\ s.v \in Ids /\ s.v \notin Coding(defs) /\ heap[s.v].k # "list"
                     /\ s.op \in {"put", "set"} => s.o \notin Coding(defs)
    BY <1>4, <1>6, <1>7, <1>9
  <2> QED
    BY <1>3, <1>6, <1>10, <1>12, <2>1, CompilingKept
<1>15. Private(heap', todo', l, 3)
  <2>1. \A s \in E : s.v # l
    BY <1>4, <1>7, <1>9
  <2>2. \A s \in E : s.v = c => s.o = l
    BY <1>9
  <2>3. \A s \in E : s.op \in {"put", "set"} /\ s.o = l /\ s.x = 3 => s.v = c
    BY <1>9
  <2> QED
    BY <1>4, <1>8, <1>10, <2>1, <2>2, <2>3, PrivateNew
<1>16. /\ DOMAIN defs' = DOMAIN defs \cup {Len(defs) + 1} /\ Len(defs) + 1 \notin DOMAIN defs
       /\ defs'[Len(defs) + 1] = l /\ \A i \in DOMAIN defs : defs'[i] = defs[i]
  BY <1>1, <1>2, <1>4
<1>17. l \notin Coding(defs)
  BY <1>4, <1>6
<1>18. Coding(defs') = Coding(defs) \cup {l}
  BY <1>16 DEF Coding
<1>19. Distinct(defs')
  BY <1>12, <1>16, <1>17 DEF Distinct, Coding
<1>20. Compiling(heap', todo', defs')
  BY <1>14, <1>15, <1>18 DEF Compiling
<1> QED
  BY <1>1, <1>2, <1>13, <1>19, <1>20 DEF RInv, Rings

-----------------------------------------------------------------------------
(* eval.                                                                     *)

\* A running block, and its locals.
LEMMA FrameLocals ==
    ASSUME IInv, RInv, todo = <<>>, NEW y \in DOMAIN frames, NEW l, l = frames[y].lb
    PROVE  /\ l \in Ids /\ heap[l].k = "block" /\ Private(heap, <<>>, l, 1)
           /\ \A x \in Ids : ~Points(heap, <<>>, x, l)
           /\ \A m \in Ids : Slot(heap, <<>>, l, 1, m) =>
                 /\ heap[m].k = "map"
                 /\ \A x \in Ids : m # Globals /\ Points(heap, <<>>, x, m) => x = l
<1>1. l \in Ids /\ heap[l].k = "block" /\ Private(heap, <<>>, l, 1)
  BY BlocksHeld DEF RInv, Rings
<1>2. Sound(heap, <<>>, Root)
  BY Idle
<1>3. \A m \in Ids : Slot(heap, <<>>, l, 1, m) => heap[m].k = "map"
  BY <1>1, <1>2, BlockSlots
<1> QED
  BY <1>1, <1>3 DEF Private, Unled, Only

LEMMA StoreNameRings == ASSUME IInv, RInv, StoreName PROVE RInv'
<1> DEFINE b == lb
           m == heap[b].f[1]
           v == FromTop(1)
           lv == [x \in Ids |-> IF x \in {m, b} THEN 1 ELSE 0]
<1>1. PICK n \in Names : Does(Stack, <<PUT(m, n, v)>>)
  BY DEF StoreName, Locals, Field
<1>2. Running /\ Len(Stack) > 0
  BY DEF StoreName
<1> DEFINE E == {PUT(m, n, v)}
<1>3. /\ todo' = <<PUT(m, n, v)>> /\ defs' = defs /\ phase' = phase /\ heap' = heap
      /\ frames' = [frames EXCEPT ![Len(frames)].stk = Stack]
  BY <1>1 DEF Does, Do
<1>4. /\ phase = "eval" /\ todo = <<>> /\ frames \in Seq(FrameType)
      /\ Len(frames) \in DOMAIN frames /\ b = frames[Len(frames)].lb
  BY <1>2, Runs
<1>5. Sound(heap, <<>>, Root)
  BY <1>4, Idle
<1>6. v \in Ids /\ heap[v].k \in Items
  BY <1>2, TopOne
<1>7. \A x \in DOMAIN frames' : x \in DOMAIN frames /\ frames'[x].lb = frames[x].lb
  <2>1. \A x \in DOMAIN frames : frames[x] \in FrameType
    BY <1>4
  <2> QED
    BY <1>3, <2>1 DEF FrameType
<1> HIDE DEF b, v
<1>8. m \in Ids /\ Slot(heap, <<>>, b, 1, m)
  <2>1. b \in Ids /\ heap[b].k = "block"
    BY <1>4, FrameLocals
  <2>2. heap[b].rc > 0
    BY <1>5, <2>1, SoundBegun DEF Begun, Sound, FreedOnce
  <2>3. IsA(heap, m, {"map"})
    BY <1>5, <2>1, <2>2, BlockFields
  <2>4. \A x \in 1..3 : Slot(heap, <<>>, b, x, heap[b].f[x])
    BY <1>5, <2>1, BlockSlots
  <2> QED
    BY <2>3, <2>4 DEF IsA
<1> HIDE DEF m
<1>9. /\ b \in Ids /\ heap[b].k = "block" /\ heap[m].k = "map"
      /\ \A x \in Ids : ~Points(heap, <<>>, x, b)
      /\ \A x \in Ids : m # Globals /\ Points(heap, <<>>, x, m) => x = b
  BY <1>4, <1>8, FrameLocals
<1>10. \A s \in E : s.o = m /\ s.v = v
  BY OpFields
<1>11. Grows(heap, heap', todo', E)
  <2>1. \A c \in Ids : heap[c].k = "free" => DOMAIN heap[c].f = {}
    BY <1>5 DEF Sound, FreedOnce
  <2> QED
    BY <1>3, <2>1 DEF Grows
<1>12. Climbs(heap, E, lv)
  <2>1. v # m /\ v # b
    BY <1>6, <1>9 DEF Items
  <2> QED
    BY <1>6, <1>8, <1>9, <1>10, <2>1 DEF Climbs
<1> HIDE DEF E, lv
<1>13. Ordered(Graph(heap', todo'))
  BY <1>4, <1>11, <1>12, GrowsOrdered DEF RInv, Rings
<1>14. ASSUME NEW y \in DOMAIN frames PROVE Private(heap', todo', frames[y].lb, 1)
  <2> DEFINE l == frames[y].lb
  <2>1. /\ l \in Ids /\ heap[l].k = "block" /\ Private(heap, <<>>, l, 1)
        /\ \A p \in Ids : Slot(heap, <<>>, l, 1, p) => heap[p].k = "map"
    BY <1>4, FrameLocals
  <2> HIDE DEF l
  <2>2. m # l /\ v # l /\ ~Slot(heap, <<>>, l, 1, v)
    BY <1>6, <1>9, <2>1 DEF Items
  <2>3. Private(heap', todo', l, 1)
    BY <1>10, <1>11, <2>1, <2>2, PrivateKept
  <2> QED
    BY <2>3 DEF l
<1>15. Distinct(defs)
  BY DEF RInv, Rings
<1> QED
  BY <1>3, <1>4, <1>7, <1>13, <1>14, <1>15 DEF RInv, Rings

\* The stores that are left to do.
Stores(T) == {T[j] : j \in {i \in 1..Len(T) : T[i].op \in Storing}}

LEMMA StoresConcat ==
    ASSUME NEW T \in Seq(Op), NEW U \in Seq(Op)
    PROVE  T \o U \in Seq(Op) /\ Stores(T \o U) \subseteq Stores(T) \cup Stores(U)
<1>1. T \o U \in Seq(Op) /\ Len(T) \in Nat /\ Len(U) \in Nat /\ Len(T \o U) = Len(T) + Len(U)
  OBVIOUS
<1>2. ASSUME NEW i \in 1..Len(T \o U)
      PROVE  \/ i \in 1..Len(T) /\ (T \o U)[i] = T[i]
             \/ i - Len(T) \in 1..Len(U) /\ (T \o U)[i] = U[i - Len(T)]
  <2>1. CASE i <= Len(T)
    BY <1>1, <2>1
  <2>2. CASE i > Len(T)
    BY <1>1, <2>2
  <2> QED
    BY <1>1, <2>1, <2>2
<1> QED
  BY <1>1, <1>2 DEF Stores

LEMMA CollectStores ==
    ASSUME NEW l \in Ids, NEW args \in Seq(Ids)
    PROVE  /\ Collect(l, args) \in Seq(Op)
           /\ \A s \in Stores(Collect(l, args)) : s.op = "prepend" /\ s.o = l
<1>1. Calls(Collect(l, args), l, NULL, NULL, {})
  BY CollectCalls
<1>2. /\ Collect(l, args) \in Seq(Op) /\ Len(Collect(l, args)) = 2 * Len(args)
      /\ \A j \in 1..2 * Len(args) :
            Collect(l, args)[j] = IF j % 2 = 1
                                  THEN PREPEND(l, args[Len(args) + 1 - (j + 1) \div 2])
                                  ELSE DEC(args[Len(args) + 1 - (j + 1) \div 2])
  BY CollectType
<1>3. ASSUME NEW j \in 1..Len(Collect(l, args))
      PROVE  Collect(l, args)[j].op \in {"prepend", "dec"}
  BY <1>2, OpFields
<1> QED
  BY <1>1, <1>2, <1>3 DEF Stores, Calls, Wanted, Storing

LEMMA BindStores ==
    ASSUME NEW m \in Ids, NEW ps \in Seq(Names), NEW args \in Seq(Ids)
    PROVE  /\ Bind(m, ps, args) \in Seq(Op)
           /\ \A s \in Stores(Bind(m, ps, args)) : s.op = "put" /\ s.o = m
<1> DEFINE B == Bind(m, ps, args)
           n == Len(ps)
           at(i) == PUT(m, ps[i], Argument(i, args))
<1>1. B = [i \in 1..n |-> at(i)]
  BY DEF Bind, Argument
<1>2. ASSUME NEW i \in 1..n PROVE at(i) \in Op
  <2>1. ps[i] \in Names
    OBVIOUS
  <2>2. Argument(i, args) \in Maybe
    BY DEF Argument, Maybe
  <2> QED
    BY <2>1, <2>2, OpTypes
<1>3. \A i \in 1..n : at(i).op = "put" /\ at(i).o = m
  BY OpFields
<1>4. n \in Nat
  OBVIOUS
<1> HIDE DEF B, at, n
<1>5. B \in Seq(Op) /\ Len(B) = n
  BY <1>1, <1>2, <1>4
<1>6. \A s \in Stores(B) : s.op = "put" /\ s.o = m
  BY <1>1, <1>3, <1>5 DEF Stores
<1> QED
  BY <1>5, <1>6 DEF B

LEMMA CallStores ==
    ASSUME NEW l, NEW m, NEW b, NEW f, NEW code, NEW g, NEW k, Callers(<<>>, l, m, b, f, code, g, k)
    PROVE  /\ CallOps(l, m, b, f, code, g, k) \in Seq(Op)
           /\ \A s \in Stores(CallOps(l, m, b, f, code, g, k)) :
                 s = SET(b, 1, m) \/ s = SET(b, 2, g) \/ s = SET(b, 3, k)
<1>0. /\ l \in Ids /\ m \in Ids /\ b \in Ids
      /\ f \in Ids /\ code \in Ids /\ g \in Ids /\ k \in Ids
  BY DEF Callers
<1> DEFINE s1 == SET(b, 1, m)
           s2 == SET(b, 2, g)
           s3 == SET(b, 3, k)
           r == READ(code)
           dm == DEC(m)
           df == DEC(f)
           dl == DEC(l)
           i == INC(b)
           d == DEC(b)
           T == <<r, s1, s2, s3, dm, df, dl, i, d>>
<1>1. s1 \in Op /\ s2 \in Op /\ s3 \in Op /\ r \in Op
      /\ dm \in Op /\ df \in Op /\ dl \in Op /\ i \in Op /\ d \in Op
  <2>1. m \in Maybe /\ g \in Maybe /\ k \in Maybe /\ f \in Maybe /\ l \in Maybe /\ b \in Maybe
    BY <1>0 DEF Maybe
  <2>2. 1 \in Names \cup (1..3) /\ 2 \in Names \cup (1..3) /\ 3 \in Names \cup (1..3)
    OBVIOUS
  <2> QED
    BY <1>0, <2>1, <2>2, OpTypes
<1>2. /\ r.op \notin Storing /\ dm.op \notin Storing /\ df.op \notin Storing
      /\ dl.op \notin Storing /\ i.op \notin Storing /\ d.op \notin Storing
  BY PlainOps
<1>3. T = CallOps(l, m, b, f, code, g, k)
  BY Zenon DEF CallOps
<1> HIDE DEF s1, s2, s3, r, dm, df, dl, i, d
<1>4. T \in Seq(Op)
  BY <1>1
<1>5. \A j \in 1..Len(T) : T[j] \in {r, s1, s2, s3, dm, df, dl, i, d}
  OBVIOUS
<1> HIDE DEF T
<1>6. \A s \in Stores(T) : s = s1 \/ s = s2 \/ s = s3
  BY <1>2, <1>5 DEF Stores
<1> QED
  BY <1>3, <1>4, <1>6 DEF s1, s2, s3

\* The function that is called, its code, and the list, map and block of the call.
Parts(f, code, l, m, b) ==
    /\ f = FromTop(1) /\ code = heap[f].f[1]
    /\ l = Fresh({}) /\ m = Fresh({l}) /\ b = Fresh({l, m})

\* What a call stores, and that the arguments are no containers.
LEMMA InvokeStores ==
    ASSUME IInv, Invoke, NEW f, NEW code, NEW l, NEW m, NEW b, Parts(f, code, l, m, b)
    PROVE  /\ f \in Ids /\ code \in Ids /\ heap[code].k = "block" /\ Points(heap, <<>>, f, code)
           /\ l \in Ids /\ m \in Ids /\ b \in Ids /\ l # m /\ l # b /\ m # b
           /\ heap[l].k = "free" /\ heap[m].k = "free" /\ heap[b].k = "free"
           /\ \A o \in Ids : o \notin {l, m, b} => heap'[o] = heap[o]
           /\ heap'[l] = New("list", <<>>) /\ heap'[m] = New("map", EmptyMap)
           /\ heap'[b] = New("block", <<NULL, NULL, NULL>>)
           /\ \A s \in Stores(todo') :
                 \/ s.op = "prepend" /\ s.o = l
                 \/ s.op = "put" /\ s.o = m
                 \/ \/ s = SET(b, 1, m)
                    \/ s = SET(b, 2, heap[code].f[2])
                    \/ s = SET(b, 3, heap[code].f[3])
           /\ \E s : frames' = [frames EXCEPT ![Len(frames)].stk = s] \o <<Frame(b)>>
<1> DEFINE ps == heap[f].ps
           g == heap[code].f[2]
           k == heap[code].f[3]
           u == New("list", <<>>)
           v == New("map", EmptyMap)
           w == New("block", <<NULL, NULL, NULL>>)
<1> USE DEF Parts
<1>1. /\ Running /\ Len(Stack) > 0 /\ Room(3) /\ heap[f].k = "function"
  BY DEF Invoke
<1>2. PICK n \in 0..Len(Stack) - 1 :
         /\ heap' = [heap EXCEPT ![l] = u, ![m] = v, ![b] = w]
         /\ todo' = Collect(l, SubSeq(Stack, Len(Stack) - n, Len(Stack) - 1)) \o <<READ(f)>>
                      \o Bind(m, ps, SubSeq(Stack, Len(Stack) - n, Len(Stack) - 1))
                      \o <<READ(code), SET(b, 1, m), SET(b, 2, g), SET(b, 3, k),
                           DEC(m), DEC(f), DEC(l), INC(b), DEC(b)>>
         /\ frames' = [frames EXCEPT ![Len(frames)].stk = Below(n + 1)] \o <<Frame(b)>>
  BY ZenonT(40) DEF Invoke, Field, GlobalsOf, Consts
<1> DEFINE args == SubSeq(Stack, Len(Stack) - n, Len(Stack) - 1)
           T1 == Collect(l, args)
           T2 == <<READ(f)>>
           T3 == Bind(m, ps, args)
           T4 == CallOps(l, m, b, f, code, g, k)
<1>3. /\ l \in Ids /\ m \in Ids /\ b \in Ids /\ l # m /\ l # b /\ m # b
      /\ heap[l].k = "free" /\ heap[m].k = "free" /\ heap[b].k = "free"
  <2>1. 3 \in Nat /\ 3 > 2
    OBVIOUS
  <2> QED
    <3>1. Room(3)
      BY <1>1
    <3>2. LET x == Fresh({})
              y == Fresh({x})
              z == Fresh({x, y})
          IN  /\ x \in Ids /\ y \in Ids /\ z \in Ids /\ x # y /\ x # z /\ y # z
              /\ heap[x].k = "free" /\ heap[y].k = "free" /\ heap[z].k = "free"
      BY <2>1, <3>1, FreshThree, ZenonT(30)
    <3> QED
      BY <3>2, Zenon
<1>4. /\ f \in Ids /\ DOMAIN heap[f].f = 1..1 /\ ps \in Seq(Names)
      /\ code \in Ids /\ heap[code].k = "block"
      /\ g \in Ids /\ k \in Ids
  BY <1>1, CalledFields
<1>5. Points(heap, <<>>, f, code)
  BY <1>4 DEF Points
<1>6. DOMAIN heap = Ids
  BY <1>1, Runs, Idle
<1>7. /\ \A o \in Ids : o \notin {l, m, b} => heap'[o] = heap[o]
      /\ heap'[l] = u /\ heap'[m] = v /\ heap'[b] = w
  <2> HIDE DEF u, v, w
  <2> QED
    BY <1>2, <1>3, <1>6
<1>8. args \in Seq(Ids)
  <2>1. Stack \in Seq(Ids) /\ Len(Stack) \in Nat
    BY <1>1, Runs
  <2> QED
    BY <2>1, ArgumentsCut
<1> HIDE DEF args, ps, g, k
<1>9. T1 \in Seq(Op) /\ \A s \in Stores(T1) : s.op = "prepend" /\ s.o = l
  BY <1>3, <1>8, CollectStores
<1>10. T2 \in Seq(Op) /\ Stores(T2) = {}
  <2>1. READ(f) \in Op /\ READ(f).op \notin Storing
    BY <1>4, OpTypes, PlainOps
  <2> QED
    BY <2>1 DEF Stores
<1>11. T3 \in Seq(Op) /\ \A s \in Stores(T3) : s.op = "put" /\ s.o = m
  <2>1. \A q \in Seq(Names) : \A as \in Seq(Ids) :
           /\ Bind(m, q, as) \in Seq(Op)
           /\ \A s \in Stores(Bind(m, q, as)) : s.op = "put" /\ s.o = m
    BY <1>3, BindStores
  <2>2. \A as \in Seq(Ids) :
           /\ Bind(m, ps, as) \in Seq(Op)
           /\ \A s \in Stores(Bind(m, ps, as)) : s.op = "put" /\ s.o = m
    BY <1>4, <2>1
  <2> QED
    BY <1>8, <2>2
<1>12. T4 \in Seq(Op) /\ \A s \in Stores(T4) : s = SET(b, 1, m) \/ s = SET(b, 2, g) \/ s = SET(b, 3, k)
  <2>1. Callers(<<>>, l, m, b, f, code, g, k)
    BY <1>3, <1>4, EmptyTodo DEF Callers
  <2> QED
    BY <2>1, CallStores
<1>13. todo' = ((T1 \o T2) \o T3) \o T4
  BY <1>2, Zenon DEF CallOps, args
<1> HIDE DEF T1, T2, T3, T4
<1>14. Stores(todo') \subseteq Stores(T1) \cup Stores(T2) \cup Stores(T3) \cup Stores(T4)
  <2>1. T1 \o T2 \in Seq(Op) /\ Stores(T1 \o T2) \subseteq Stores(T1) \cup Stores(T2)
    BY <1>9, <1>10, StoresConcat
  <2> DEFINE T5 == T1 \o T2
  <2> HIDE DEF T5
  <2>2. T5 \o T3 \in Seq(Op) /\ Stores(T5 \o T3) \subseteq Stores(T5) \cup Stores(T3)
    BY <1>11, <2>1, StoresConcat DEF T5
  <2> DEFINE T6 == T5 \o T3
  <2> HIDE DEF T6
  <2>3. Stores(T6 \o T4) \subseteq Stores(T6) \cup Stores(T4)
    BY <1>12, <2>2, StoresConcat DEF T6
  <2>4. todo' = T6 \o T4
    BY <1>13 DEF T5, T6
  <2> QED
    BY <2>1, <2>2, <2>3, <2>4 DEF T5, T6
<1>15. \A s \in Stores(todo') :
          \/ s.op = "prepend" /\ s.o = l
          \/ s.op = "put" /\ s.o = m
          \/ s = SET(b, 1, m) \/ s = SET(b, 2, g) \/ s = SET(b, 3, k)
  BY <1>9, <1>10, <1>11, <1>12, <1>14
<1>16. \E s : frames' = [frames EXCEPT ![Len(frames)].stk = s] \o <<Frame(b)>>
  BY <1>2
<1> QED
  BY <1>3, <1>4, <1>5, <1>7, <1>15, <1>16 DEF g, k

\* Arguments are no containers: what is left to do fits the new heap.
LEMMA InvokeItems ==
    ASSUME IInv, Invoke, NEW s \in Stores(todo'), s.v \in Ids, s.op \in {"put", "prepend"},
           NEW l \in Ids, NEW m \in Ids, NEW b \in Ids,
           heap[l].k = "free" /\ heap[m].k = "free" /\ heap[b].k = "free",
           \A o \in Ids : o \notin {l, m, b} => heap'[o] = heap[o],
           heap'[l].k = "list" /\ heap'[m].k = "map" /\ heap'[b].k = "block"
    PROVE  heap[s.v].k \in Items
<1>1. \A j \in 1..Len(todo') : Fits(heap', todo'[j])
  BY InvokeHolds DEF IInv, Holding, Sound, Formed
<1>2. PICK j \in 1..Len(todo') : s = todo'[j]
  BY DEF Stores
<1>3. Fits(heap', s)
  BY <1>1, <1>2
<1>4. s.v # NULL
  BY IdsFinite
<1>5. heap'[s.v].k \in Items
  BY <1>3, <1>4 DEF Fits, Accepts, IsA
<1>6. s.v \notin {l, m, b}
  BY <1>5 DEF Items
<1> QED
  BY <1>5, <1>6

LEMMA InvokeRings == ASSUME IInv, RInv, Invoke PROVE RInv'
<1> DEFINE f == FromTop(1)
           code == heap[f].f[1]
           g == heap[code].f[2]
           k == heap[code].f[3]
           l == Fresh({})
           m == Fresh({l})
           b == Fresh({l, m})
           E == Stores(todo')
           lv == [x \in Ids |-> IF x = b THEN 2 ELSE IF x \in {l, m} THEN 1 ELSE 0]
<1>1. Running /\ phase' = phase /\ defs' = defs
  BY DEF Invoke
<1>2. phase = "eval" /\ todo = <<>> /\ frames \in Seq(FrameType) /\ Len(frames) \in DOMAIN frames
  BY <1>1, Runs
<1>3. Sound(heap, <<>>, Root)
  BY <1>2, Idle
<1>4. Parts(f, code, l, m, b)
  BY DEF Parts
<1> HIDE DEF f, code, l, m, b
<1>5. /\ f \in Ids /\ code \in Ids /\ heap[code].k = "block" /\ Points(heap, <<>>, f, code)
      /\ l \in Ids /\ m \in Ids /\ b \in Ids /\ l # m /\ l # b /\ m # b
      /\ heap[l].k = "free" /\ heap[m].k = "free" /\ heap[b].k = "free"
      /\ \A o \in Ids : o \notin {l, m, b} => heap'[o] = heap[o]
      /\ heap'[l] = New("list", <<>>) /\ heap'[m] = New("map", EmptyMap)
      /\ heap'[b] = New("block", <<NULL, NULL, NULL>>)
      /\ \A s \in E :
            \/ s.op = "prepend" /\ s.o = l
            \/ s.op = "put" /\ s.o = m
            \/ \/ s = SET(b, 1, m)
               \/ s = SET(b, 2, g)
               \/ s = SET(b, 3, k)
      /\ \E s : frames' = [frames EXCEPT ![Len(frames)].stk = s] \o <<Frame(b)>>
  BY <1>4, InvokeStores DEF E, g, k
<1>6. g \in Ids /\ heap[g].k = "map" /\ k \in Ids /\ heap[k].k = "list" /\ Points(heap, <<>>, code, g)
  <2>1. \A x \in 1..3 : Slot(heap, <<>>, code, x, heap[code].f[x])
    BY <1>3, <1>5, BlockSlots
  <2>2. g \in Ids /\ heap[g].k = "map" /\ k \in Ids /\ heap[k].k = "list"
    BY <1>3, <1>5, BlockSlots
  <2>3. Slot(heap, <<>>, code, 2, g)
    BY <2>1
  <2> QED
    BY <1>3, <1>5, <2>2, <2>3, BlockSlots
<1> HIDE DEF g, k
<1>7. /\ heap'[l].k = "list" /\ heap'[m].k = "map" /\ heap'[b].k = "block"
      /\ heap'[l].f = <<>> /\ heap'[m].f = EmptyMap /\ heap'[b].f = <<NULL, NULL, NULL>>
  BY <1>5 DEF New
<1>8. Apart(heap, l) /\ Apart(heap, m) /\ Apart(heap, b)
  BY <1>3, <1>5, FreeApart
<1>9. ASSUME NEW s \in E
      PROVE  \/ /\ \/ s.o = l /\ s.op = "prepend"
                   \/ s.o = m /\ s.op = "put"
                /\ s.v \in Ids => heap[s.v].k \in Items
             \/ /\ s.o = b /\ s.op = "set"
                /\ \/ s.x = 1 /\ s.v = m
                   \/ s.x = 2 /\ s.v = g
                   \/ s.x = 3 /\ s.v = k
  <2>1. CASE s = SET(b, 1, m) \/ s = SET(b, 2, g) \/ s = SET(b, 3, k)
    BY <2>1, OpFields
  <2>2. CASE (s.o = l /\ s.op = "prepend") \/ (s.o = m /\ s.op = "put")
    <3>1. s.op \in {"put", "prepend"} /\ s \in Stores(todo')
      BY <2>2
    <3> HIDE DEF E
    <3>2. s.v \in Ids => heap[s.v].k \in Items
      BY <1>5, <1>7, <3>1, InvokeItems
    <3> QED
      BY <2>2, <3>2
  <2> HIDE DEF E
  <2>3. \/ s.o = l /\ s.op = "prepend"
        \/ s.o = m /\ s.op = "put"
        \/ s = SET(b, 1, m) \/ s = SET(b, 2, g) \/ s = SET(b, 3, k)
    BY <1>5
  <2> QED
    BY <2>1, <2>2, <2>3
<1>10. Grows(heap, heap', todo', E)
  <2>1. \A j \in 1..Len(todo') : todo'[j].op \in Storing => todo'[j] \in E
    BY DEF Stores
  <2>2. \A o \in Ids : heap[o].k = "free" => DOMAIN heap[o].f = {}
    BY <1>3 DEF Sound, FreedOnce
  <2>3. /\ \A x \in DOMAIN heap'[m].f : heap'[m].f[x] \notin Ids
        /\ \A x \in DOMAIN heap'[b].f : heap'[b].f[x] \notin Ids
        /\ DOMAIN heap'[l].f = {}
    BY <1>7, IdsFinite DEF EmptyMap
  <2> HIDE DEF E
  <2>4. ASSUME NEW o \in Ids, heap[o].k # "free" PROVE heap'[o].f = heap[o].f
    <3>1. o \notin {l, m, b}
      BY <1>5, <2>4
    <3> QED
      BY <1>5, <3>1
  <2>5. ASSUME NEW o \in Ids, heap[o].k = "free", NEW x \in DOMAIN heap'[o].f
        PROVE  heap'[o].f[x] \notin Ids
    <3>1. CASE o \in {l, m, b}
      BY <2>3, <3>1
    <3>2. CASE o \notin {l, m, b}
      BY <1>5, <2>2, <2>5, <3>2
    <3> QED
      BY <3>1, <3>2
  <2> QED
    BY <2>1, <2>4, <2>5 DEF Grows
<1> HIDE DEF E
<1>11. Climbs(heap, E, lv)
  <2>1. ASSUME NEW s \in E, s.v \in Ids PROVE lv[s.v] < lv[s.o]
    <3>1. CASE s.o = b
      <4>1. s.v \in {m, g, k} /\ s.v # b
        BY <1>5, <1>6, <1>9, <3>1
      <4> QED
        BY <1>5, <2>1, <3>1, <4>1
    <3>2. CASE s.o # b
      <4>1. (s.o = l \/ s.o = m) /\ heap[s.v].k \in Items
        BY <1>9, <2>1, <3>2
      <4>2. s.v \notin {l, m, b}
        BY <1>5, <4>1 DEF Items
      <4> QED
        BY <1>5, <2>1, <4>1, <4>2
    <3> QED
      BY <3>1, <3>2
  <2>2. ASSUME NEW x \in Ids, NEW y \in Ids, Points(heap, <<>>, x, y) PROVE lv[y] <= lv[x]
    BY <1>8, <2>2 DEF Apart
  <2>3. lv \in [Ids -> 0..2]
    OBVIOUS
  <2> HIDE DEF lv
  <2> QED
    BY <2>1, <2>2, <2>3 DEF Climbs
<1> HIDE DEF lv
<1>12. Ordered(Graph(heap', todo'))
  BY <1>2, <1>10, <1>11, GrowsOrdered DEF RInv, Rings
<1>13. ASSUME NEW y \in DOMAIN frames PROVE Private(heap', todo', frames[y].lb, 1)
  <2> DEFINE c == frames[y].lb
  <2>1. /\ c \in Ids /\ heap[c].k = "block" /\ Private(heap, <<>>, c, 1)
        /\ \A x \in Ids : ~Points(heap, <<>>, x, c)
        /\ \A p \in Ids : Slot(heap, <<>>, c, 1, p) =>
              /\ heap[p].k = "map"
              /\ \A x \in Ids : p # Globals /\ Points(heap, <<>>, x, p) => x = c
    BY <1>2, FrameLocals
  <2> HIDE DEF c
  <2>2. Slot(heap, <<>>, c, 1, g) => g = Globals
    BY <1>5, <1>6, <2>1
  <2>3. ASSUME NEW s \in E
        PROVE  /\ s.v # c /\ (s.op \in {"put", "set"} => s.o # c)
               /\ s.v \in Ids /\ Slot(heap, <<>>, c, 1, s.v) => s.v = Globals
    <3>1. s.o # c
      BY <1>5, <1>9, <2>1
    <3>2. CASE s.o = b
      BY <1>5, <1>6, <1>9, <2>1, <2>2, <3>1, <3>2
    <3>3. CASE s.o # b
      <4>1. s.v \in Ids => heap[s.v].k \in Items
        BY <1>9, <3>3
      <4> QED
        BY <2>1, <3>1, <4>1 DEF Items
    <3> QED
      BY <3>2, <3>3
  <2>4. Private(heap', todo', c, 1)
    BY <1>10, <2>1, <2>3, PrivateKept
  <2> QED
    BY <2>4 DEF c
<1>14. Private(heap', todo', b, 1)
  <2>1. ASSUME NEW s \in E PROVE s.v # b /\ (s.v = m => s.o = b)
    <3>1. CASE s.o = b
      BY <1>5, <1>6, <1>9, <3>1
    <3>2. CASE s.o # b
      <4>1. s.v \in Ids => heap[s.v].k \in Items
        BY <1>9, <3>2
      <4> QED
        BY <1>5, <4>1 DEF Items
    <3> QED
      BY <3>1, <3>2
  <2>2. \A s \in E : s.op \in {"put", "set"} /\ s.o = b /\ s.x = 1 => s.v = m
    BY <1>5, <1>9
  <2> QED
    BY <1>5, <1>8, <1>10, <2>1, <2>2, PrivateNew
<1>15. ASSUME NEW x \in DOMAIN frames' PROVE Private(heap', todo', frames'[x].lb, 1)
  <2>1. PICK s : frames' = [frames EXCEPT ![Len(frames)].stk = s] \o <<Frame(b)>>
    BY <1>5
  <2> DEFINE fs == [frames EXCEPT ![Len(frames)].stk = s]
             n == Len(frames)
             r == Frame(b)
  <2>2. n \in Nat /\ DOMAIN fs = 1..n /\ DOMAIN frames = 1..n
    BY <1>2
  <2>3. ASSUME NEW y \in 1..n PROVE fs[y].lb = frames[y].lb
    <3>1. frames[y] \in FrameType
      BY <1>2, <2>2
    <3> QED
      BY <2>2, <3>1 DEF FrameType
  <2>4. r.lb = b
    BY DEF Frame
  <2>5. frames' = fs \o <<r>> /\ Len(fs) = n
    <3>1. frames' = fs \o <<r>>
      BY <2>1, Zenon DEF fs, r
    <3> DEFINE V == {fs[i] : i \in 1..n}
    <3>2. fs = [i \in 1..n |-> fs[i]] /\ \A i \in 1..n : fs[i] \in V
      BY <2>2
    <3> HIDE DEF fs, n, V
    <3>3. fs \in Seq(V)
      BY <2>2, <3>2
    <3>4. Len(fs) = n
      BY <2>2, <3>3
    <3> QED
      BY <3>1, <3>4
  <2> HIDE DEF fs, r, n
  <2>6. (x \in 1..n /\ frames'[x] = fs[x]) \/ frames'[x] = r
    BY <1>15, <2>2, <2>5
  <2> QED
    BY <1>13, <1>14, <2>2, <2>3, <2>4, <2>6
<1>16. Distinct(defs)
  BY DEF RInv, Rings
<1> QED
  BY <1>1, <1>2, <1>12, <1>15, <1>16 DEF RInv, Rings

-----------------------------------------------------------------------------
(* The beginning, and the invariant.                                         *)

LEMMA InitRings == ASSUME Init PROVE RInv
<1>1. /\ todo = <<>> /\ defs = <<>> /\ frames = <<>> /\ IInv
  BY InitHolds DEF Init
<1>2. Sound(heap, <<>>, Root)
  BY <1>1, Idle
<1>3. heap[Main].f = <<Globals, Globals, 3>> /\ heap[Globals].f = EmptyMap /\ heap[3].f = <<>>
  <2> DEFINE g == TheGlobals
             l == New("list", <<>>)
             m == TheMain
             s == New("static", <<>>)
  <2>1. heap = [o \in Ids |-> CASE o \in {1, 5} -> s [] o = 2 -> g [] o = 3 -> l [] o = 4 -> m
                                [] OTHER -> FREE]
    BY Places4 DEF Init, TheGlobals, TheMain
  <2>2. m.f = <<Globals, Globals, 3>> /\ l.f = <<>> /\ g.f = EmptyMap
    BY GlobalsFields DEF TheMain, New
  <2> HIDE DEF g, l, m, s
  <2>3. heap[4] = m /\ heap[2] = g /\ heap[3] = l
    BY <2>1, Places4
  <2> QED
    BY <2>2, <2>3, Places4
<1>4. \A o \in Ids : o \notin {Static, Globals, 3, Main, Nil} => heap[o].k = "free"
  BY InitHeap, FirstBegun
<1>5. heap[Static].k = "static" /\ heap[Nil].k = "static"
  BY InitHeap, FirstBegun
<1>6. ASSUME NEW b \in Ids, NEW o \in Ids, Points(heap, <<>>, b, o)
      PROVE  b = Main /\ o \in {Globals, 3}
  <2>1. PICK x \in DOMAIN heap[b].f : heap[b].f[x] = o
    BY <1>6, EmptyTodo DEF Points
  <2>2. heap[b].k \notin {"free", "static"}
    BY <1>2, <1>6, PointsTyped DEF Items
  <2>3. b \in {Globals, 3, Main}
    BY <1>4, <1>5, <2>2
  <2>4. b # Globals /\ b # 3
    BY <1>3, <2>1, IdsFinite DEF EmptyMap
  <2> QED
    BY <1>3, <2>1, <2>3, <2>4
<1>7. Ordered(Graph(heap, todo))
  <2> DEFINE r == [o \in Ids |-> IF o = Main THEN 1 ELSE 0]
  <2>1. r \in [Ids -> 0..1] /\ 1 \in Nat
    OBVIOUS
  <2>2. ASSUME NEW b \in Ids, NEW o \in Ids, <<b, o>> \in Graph(heap, todo) PROVE r[o] < r[b]
    <3>1. b = Main /\ o \in {Globals, 3}
      BY <1>1, <1>6, <2>2, InGraph
    <3> QED
      BY <3>1, Places4
  <2> HIDE DEF r
  <2> QED
    BY <2>1, <2>2 DEF Ordered, Ranks
<1>8. Distinct(defs) /\ Coding(defs) = {Main} /\ DOMAIN frames = {}
  BY <1>1 DEF Distinct, Coding
<1>9. Main \in Ids /\ Main \notin {Globals, 3}
  BY Places4
<1>10. Private(heap, <<>>, Main, 3)
  BY <1>6, <1>9 DEF Private, Unled, Only
<1>11. \A m \in Ids : Slot(heap, <<>>, Main, 1, m) => m = Globals
  BY <1>3, SlotField
<1> QED
  BY <1>1, <1>7, <1>8, <1>10, <1>11 DEF RInv, Rings, Compiling

LEMMA StutterRings == ASSUME RInv, UNCHANGED vars PROVE RInv'
<1>1. heap' = heap /\ todo' = todo /\ frames' = frames /\ phase' = phase /\ defs' = defs
  BY DEF vars
<1>2. RInv' = Rings(heap', todo', phase', defs', frames')
  BY DEF RInv
<1> QED
  BY <1>1, <1>2 DEF RInv

\* In every reachable state the references that neither come from nor lead to
\* the globals go down, and nothing else refers to a running block's locals or to
\* the constants of a block under compilation: no store of eval or of the
\* compiler closes a ring but one through the globals.
THEOREM RingsInvariance == Spec => [](IInv /\ RInv)
<1>1. Init => RInv
  BY InitRings
<1>2. IInv /\ RInv /\ [Next]_vars => RInv'
  <2> SUFFICES ASSUME IInv, RInv, [Next]_vars PROVE RInv'
    OBVIOUS
  <2>1. CASE StoreNumber
    BY <2>1, StoreNumberRings
  <2>12. CASE StoreBool \/ StoreNil \/ FakeElse
    BY <2>12, StaticRings
  <2>2. CASE EnterFunction
    BY <2>2, EnterFunctionRings
  <2>3. CASE LeaveFunction
    BY <2>3, LeaveFunctionRings
  <2>4. CASE StartEval
    BY <2>4, StartEvalRings
  <2>5. CASE StoreName
    BY <2>5, StoreNameRings
  <2>6. CASE Push \/ LoadName \/ Dup \/ PopTop \/ Comparison \/ JumpOnNoBool
    BY <2>6, StackRings
  <2>7. CASE Arithmetic
    BY <2>7, ArithmeticRings
  <2>8. CASE Invoke
    BY <2>8, InvokeRings
  <2>9. CASE EndFrame \/ DestructCompiler
    BY <2>9, EndRings
  <2>10. CASE Step
    BY <2>10, StepRings
  <2>11. CASE UNCHANGED vars
    BY <2>11, StutterRings
  <2> QED
    BY <2>1, <2>2, <2>3, <2>4, <2>5, <2>6, <2>7, <2>8, <2>9, <2>10, <2>11, <2>12,
       Zenon DEF Next
<1> QED
  BY <1>1, <1>2, Invariance, PTL DEF Spec

-----------------------------------------------------------------------------
(* What can be reached, between two instructions.                            *)

Onward(T) == T \cup UNION {{heap[o].f[x] : x \in DOMAIN heap[o].f} \ {NULL} : o \in T}
Closed(C) == C \subseteq Ids /\ \A b \in C : \A o \in Ids : Points(heap, <<>>, b, o) => o \in C
Wired == \A b \in Ids : \A x \in DOMAIN heap[b].f : heap[b].f[x] \in Maybe

LEMMA IdleWired == ASSUME IInv, todo = <<>> PROVE Wired
<1>1. Sound(heap, <<>>, Root)
  BY Idle
<1>2. ASSUME NEW b \in Ids, NEW x \in DOMAIN heap[b].f PROVE heap[b].f[x] \in Maybe
  <2>1. heap[b].rc > 0
    BY <1>1, <1>2, SoundBegun DEF Sound, FreedOnce, Begun
  <2> QED
    BY <1>1, <2>1 DEF Sound, Formed, Shaped
<1> QED
  BY <1>2 DEF Wired

LEMMA OnwardFacts ==
    ASSUME Wired, NEW T, T \subseteq Ids
    PROVE  /\ T \subseteq Onward(T) /\ Onward(T) \subseteq Ids
           /\ Closed(T) <=> Onward(T) = T
           /\ \A C : Closed(C) /\ T \subseteq C => Onward(T) \subseteq C
<1>1. \A b \in Ids : \A o \in Ids :
         Points(heap, <<>>, b, o) <=> \E x \in DOMAIN heap[b].f : heap[b].f[x] = o
  BY EmptyTodo DEF Points
<1>2. \A b \in Ids : \A x \in DOMAIN heap[b].f : heap[b].f[x] # NULL => heap[b].f[x] \in Ids
  BY DEF Wired, Maybe
<1>3. \A o : o \in Onward(T) <=> o \in T \/ \E b \in T : o \in Ids /\ Points(heap, <<>>, b, o)
  <2>1. \A o : o \in Onward(T) <=>
              o \in T \/ \E b \in T : o # NULL /\ \E x \in DOMAIN heap[b].f : heap[b].f[x] = o
    BY DEF Onward
  <2>2. \A o, b : b \in T =>
           (o # NULL /\ (\E x \in DOMAIN heap[b].f : heap[b].f[x] = o)
              <=> o \in Ids /\ Points(heap, <<>>, b, o))
    <3>1. ASSUME NEW o, NEW b \in T
          PROVE  o # NULL /\ (\E x \in DOMAIN heap[b].f : heap[b].f[x] = o)
                    <=> o \in Ids /\ Points(heap, <<>>, b, o)
      BY <1>1, <1>2, IdsFinite
    <3> QED
      BY <3>1
  <2> QED
    BY <2>1, <2>2, Zenon
<1> QED
  BY <1>3 DEF Closed

LEMMA ReachChain ==
    ASSUME Wired, NEW S, S \subseteq Ids
    PROVE  \E g \in [0..MaxObjects -> SUBSET Ids] :
              /\ g[0] = S /\ g[MaxObjects] = Reach(S)
              /\ \A i \in 1..MaxObjects : g[i] = Onward(g[i - 1])
<1> DEFINE n == MaxObjects
           V == SUBSET Ids
           s == [i \in Nat |-> [T \in V |-> Onward(T)]]
           P(g) == g = [i \in 0..n |-> IF i = 0 THEN S ELSE Onward(g[i - 1])]
<1>1. n \in Nat
  BY BoundsAssumption
<1>2. S \in V /\ \A T \in V : Onward(T) \in V
  BY OnwardFacts
<1>3. s \in [Nat -> [V -> V]] /\ \A i \in Nat, T \in V : s[i][T] = Onward(T)
  BY <1>2
<1>4. Reach(S) = (CHOOSE g : P(g))[n]
  BY Zenon DEF Reach, Onward
<1> DEFINE g == CHOOSE g : P(g)
<1> HIDE DEF V, s, n
<1>5. PICK f \in [0..n -> V] : Iterates(f, S, s, n)
  BY <1>1, <1>2, <1>3, IterationExists
<1>6. \A i \in 1..n : f[i] = Onward(f[i - 1])
  <2>1. \A i \in 1..n : i - 1 \in 0..n /\ i \in Nat /\ f[i - 1] \in V
    BY <1>1, <1>5
  <2> QED
    BY <1>3, <1>5, <2>1 DEF Iterates
<1>7. P(f)
  <2>1. \A i \in 0..n : f[i] = IF i = 0 THEN S ELSE Onward(f[i - 1])
    BY <1>1, <1>5, <1>6 DEF Iterates
  <2> QED
    BY <1>5, <2>1
<1>8. P(g)
  BY <1>7
<1> HIDE DEF g
<1>9. DOMAIN g = 0..n /\ g[0] = S /\ \A i \in 1..n : g[i] = Onward(g[i - 1])
  <2>1. \A i \in 0..n : g[i] = IF i = 0 THEN S ELSE Onward(g[i - 1])
    BY <1>8
  <2> QED
    BY <1>1, <1>8, <2>1
<1>10. \A i \in 0..n : g[i] \in V
  <2> DEFINE X == {i \in 0..n : g[i] \notin V}
  <2>1. SUFFICES ASSUME X # {} PROVE FALSE
    OBVIOUS
  <2>2. X \subseteq Nat
    BY <1>1
  <2>3. PICK i \in X : \A j \in X : i <= j
    BY <2>1, <2>2, Smallest
  <2>4. i # 0 /\ i \in 1..n /\ i - 1 \in 0..n /\ ~(i <= i - 1)
    BY <1>1, <1>2, <1>9, <2>3
  <2>5. g[i - 1] \in V
    BY <2>3, <2>4
  <2> QED
    BY <1>2, <1>9, <2>3, <2>4, <2>5
<1>11. g = [i \in 0..n |-> g[i]]
  BY <1>8
<1>12. g \in [0..n -> V]
  BY <1>10, <1>11
<1> QED
  BY <1>4, <1>9, <1>12 DEF V, n, g

LEMMA ReachFacts ==
    ASSUME Wired, NEW S, S \subseteq Ids
    PROVE  /\ S \subseteq Reach(S) /\ Closed(Reach(S))
           /\ \A C : Closed(C) /\ S \subseteq C => Reach(S) \subseteq C
<1> DEFINE n == MaxObjects
<1>1. n \in Nat
  BY BoundsAssumption
<1>2. PICK g \in [0..n -> SUBSET Ids] :
         /\ g[0] = S /\ g[n] = Reach(S)
         /\ \A i \in 1..n : g[i] = Onward(g[i - 1])
  BY ReachChain
<1>3. IsFiniteSet(Ids) /\ Cardinality(Ids) = n
  BY IdsFinite, <1>1, FS_Interval DEF Ids
<1> HIDE DEF n
<1>4. ASSUME NEW i \in 0..n
      PROVE  g[i] \subseteq Ids /\ IsFiniteSet(g[i]) /\ Cardinality(g[i]) \in Nat
  BY <1>2, <1>3, FS_Subset, FS_CardinalityType
<1>5. ASSUME NEW i \in 1..n
      PROVE  /\ i - 1 \in 0..n /\ i \in 0..n /\ i \in Nat /\ ~(i <= i - 1)
             /\ g[i] = Onward(g[i - 1]) /\ g[i - 1] \subseteq Ids
  <2>1. i - 1 \in 0..n /\ i \in 0..n /\ i \in Nat /\ ~(i <= i - 1)
    BY <1>1
  <2> QED
    BY <1>2, <1>4, <2>1
<1>6. n \in 0..n /\ 0..n \subseteq Nat
  BY <1>1
<1>7. \A i \in 0..n : S \subseteq g[i]
  <2> DEFINE X == {i \in 0..n : ~(S \subseteq g[i])}
  <2>1. SUFFICES ASSUME X # {} PROVE FALSE
    OBVIOUS
  <2>2. PICK i \in X : \A j \in X : i <= j
    BY <1>6, <2>1, Smallest
  <2>3. i # 0 /\ i \in 0..n
    BY <1>2, <2>2
  <2>4. i \in 1..n
    BY <1>1, <2>3
  <2>5. S \subseteq g[i - 1]
    BY <1>5, <2>2, <2>4
  <2> QED
    BY <1>5, <2>2, <2>4, <2>5, OnwardFacts
<1>8. ASSUME NEW C, Closed(C), S \subseteq C PROVE \A i \in 0..n : g[i] \subseteq C
  <2> DEFINE X == {i \in 0..n : ~(g[i] \subseteq C)}
  <2>1. SUFFICES ASSUME X # {} PROVE FALSE
    OBVIOUS
  <2>2. PICK i \in X : \A j \in X : i <= j
    BY <1>6, <2>1, Smallest
  <2>3. i # 0 /\ i \in 0..n
    BY <1>2, <1>8, <2>2
  <2>4. i \in 1..n
    BY <1>1, <2>3
  <2>5. g[i - 1] \subseteq C
    BY <1>5, <2>2, <2>4
  <2> QED
    BY <1>5, <1>8, <2>2, <2>4, <2>5, OnwardFacts
<1>9. \A i \in 0..n : Closed(g[i]) \/ Cardinality(g[i]) >= i
  <2> DEFINE X == {i \in 0..n : ~(Closed(g[i]) \/ Cardinality(g[i]) >= i)}
  <2>1. SUFFICES ASSUME X # {} PROVE FALSE
    OBVIOUS
  <2>2. PICK i \in X : \A j \in X : i <= j
    BY <1>6, <2>1, Smallest
  <2>3. i # 0 /\ i \in 0..n /\ ~Closed(g[i]) /\ ~(Cardinality(g[i]) >= i)
    BY <1>4, <1>6, <2>2
  <2>4. i \in 1..n
    BY <1>1, <2>3
  <2> DEFINE T == g[i - 1]
             U == g[i]
             p == Cardinality(T)
             q == Cardinality(U)
  <2>5. Closed(T) \/ p >= i - 1
    BY <1>5, <2>2, <2>4
  <2>6. /\ T \subseteq Ids /\ U = Onward(T) /\ U \subseteq Ids /\ T \subseteq U
        /\ IsFiniteSet(U) /\ p \in Nat /\ q \in Nat
    BY <1>4, <1>5, <2>4, OnwardFacts
  <2>7. T # U /\ ~Closed(T)
    BY <2>3, <2>6, OnwardFacts
  <2>8. p <= q /\ p # q
    BY <2>6, <2>7, FS_Subset
  <2>9. i \in Nat /\ ~(q >= i)
    BY <2>3, <2>4, <1>6
  <2> HIDE DEF T, U, p, q
  <2> QED
    BY <2>5, <2>6, <2>7, <2>8, <2>9
<1>10. Closed(Reach(S))
  <2>1. CASE Cardinality(g[n]) >= n
    <3>1. g[n] = Ids
      BY <1>3, <1>4, <1>6, <1>1, <2>1, FS_Subset
    <3> QED
      BY <1>2, <3>1 DEF Closed
  <2> QED
    BY <1>2, <1>6, <1>9, <2>1
<1> QED
  BY <1>2, <1>6, <1>7, <1>8, <1>10

-----------------------------------------------------------------------------
(* After destruct_compiler.                                                  *)

\* Where references go down, not everything is referred to.
LEMMA Rankless ==
    ASSUME NEW H, Ordered(Graph(H, <<>>)), NEW C, C \subseteq Ids, Globals \notin C,
           \A o \in C : \E b \in C : Points(H, <<>>, b, o)
    PROVE  C = {}
<1>1. PICK n \in Nat : \E r \in [Ids -> 0..n] : Ranks(Graph(H, <<>>), r)
  BY DEF Ordered
<1>2. PICK r \in [Ids -> 0..n] : Ranks(Graph(H, <<>>), r)
  BY <1>1
<1> DEFINE X == {n - r[o] : o \in C}
<1>3. SUFFICES ASSUME C # {} PROVE FALSE
  OBVIOUS
<1>4. \A o \in C : o \in Ids /\ r[o] \in 0..n /\ n - r[o] \in Nat
  BY <1>1, <1>2
<1>5. X \subseteq Nat /\ X # {}
  BY <1>3, <1>4
<1>6. PICK i \in X : \A j \in X : i <= j
  <2> HIDE DEF X
  <2> QED
    BY <1>5, Smallest
<1>7. PICK o \in C : i = n - r[o]
  BY <1>6
<1>8. PICK b \in C : Points(H, <<>>, b, o)
  BY <1>7
<1>9. r[o] < r[b]
  BY <1>2, <1>4, <1>8, InGraph DEF Ranks
<1>10. n - r[o] <= n - r[b]
  BY <1>6, <1>7, <1>8
<1> DEFINE x == r[o]
           y == r[b]
<1>11. x \in 0..n /\ y \in 0..n /\ x < y /\ n - x <= n - y
  BY <1>4, <1>9, <1>10
<1> HIDE DEF x, y, X
<1> QED
  BY <1>1, <1>11

\* What nobody abandoned is in a field of something.
LEMMA KeptByField ==
    ASSUME IInv, phase = "done", todo = <<>>, NEW o \in Ids, Live(o), o \notin Statics, ~(lost[o] > 0)
    PROVE  \E b \in Ids : Points(heap, <<>>, b, o)
<1>1. /\ Sound(heap, <<>>, Root) /\ Phased(frames, ret, phase, defs, lost)
      /\ heap[o].rc > 0 /\ heap[o].rc \in Nat
  BY Idle, LiveCounted
<1>2. frames = <<>> /\ ret = NULL /\ defs = <<>> /\ lost[o] = 0
  BY <1>1 DEF Phased
<1>3. Root[o] = 0
  <2> DEFINE a == OnStacks(frames, o)
             b == OnChain(frames, o)
             c == One(o = ret)
             d == One(o \in Statics)
             e == One(o = Main /\ phase # "done")
             h == Occ(defs, o)
  <2>1. Root[o] = a + b + c + d + e + 2 * h + lost[o]
    BY <1>1, Rooted DEF Root
  <2>2. a = 0 /\ b = 0 /\ h = 0
    BY <1>2, NoFrames, OccShort
  <2>3. c = 0 /\ d = 0 /\ e = 0
    BY <1>2, IdsFinite DEF One
  <2> HIDE DEF a, b, c, d, e, h
  <2> QED
    BY <1>2, <2>1, <2>2, <2>3
<1>4. heap[o].rc + Occ(<<>>, INC(o)) = Held(heap, <<>>, o) + Root[o] + Occ(<<>>, DEC(o))
  BY <1>1 DEF Sound, Balanced
<1>5. Occ(<<>>, INC(o)) = 0 /\ Occ(<<>>, DEC(o)) = 0
  BY OccShort
<1>6. Held(heap, <<>>, o) \in Nat
  BY <1>1, HeldType DEF Sound, Formed, Shaped
<1>7. Held(heap, <<>>, o) > 0
  BY <1>1, <1>3, <1>4, <1>5, <1>6
<1>8. \E b \in Ids : Kept(heap, <<>>, b, o) # {}
  BY <1>1, <1>7, HeldType DEF Sound, Formed, Shaped
<1>9. PICK b \in Ids : Places(heap[b].f, o) # {}
  BY <1>8 DEF Kept
<1> QED
  BY <1>9 DEF Places, Points

\* After destruct_compiler nothing is left but what a ring through the globals
\* keeps, a function that they hold and whose code holds them in turn, and what a
\* quit abandoned: the destructors of map_object.c, list_object.c, function_object.c
\* and opcode.c free all the rest, whatever the program stored where.
THEOREM OnlyRingsSurvive == Spec => []OnlyCyclesSurvive
<1>1. ASSUME IInv, RInv, phase = "done", todo = <<>>
      PROVE  OnlyCyclesSurvive
  <2> DEFINE G == Reach({Globals})
             K == {f \in Ids : heap[f].k = "function" /\ f \in G /\ Globals \in Reach({f})}
             L == {p \in Ids : lost[p] > 0}
             A == {o \in Ids : /\ Live(o) /\ o \notin Statics
                               /\ o \notin Reach(K) /\ o \notin Reach(L)}
  <2>1. Wired /\ Sound(heap, <<>>, Root) /\ (\A z \in Statics : heap[z].k = "static") /\ Ordered(Graph(heap, <<>>))
    BY <1>1, IdleWired, Idle DEF Anchored, RInv, Rings
  <2>2. \A S \in SUBSET Ids :
           /\ S \subseteq Reach(S) /\ Closed(Reach(S))
           /\ \A C : Closed(C) /\ S \subseteq C => Reach(S) \subseteq C
    BY <2>1, ReachFacts
  <2>3. /\ K \in SUBSET Ids /\ L \in SUBSET Ids /\ {Globals} \in SUBSET Ids
        /\ \A o \in Ids : {o} \in SUBSET Ids
    BY StaticMain
  <2>4. Closed(G) /\ Globals \in G /\ Closed(Reach(K)) /\ K \subseteq Reach(K)
        /\ Closed(Reach(L)) /\ L \subseteq Reach(L)
    <3> HIDE DEF K, L
    <3> QED
      BY <2>2, <2>3
  <2> HIDE DEF G, K, L
  <2>5. ASSUME NEW o \in A PROVE \E b \in A : Points(heap, <<>>, b, o)
    <3>1. o \in Ids /\ Live(o) /\ o \notin Statics /\ o \notin Reach(K) /\ o \notin Reach(L)
      BY <2>5
    <3>2. ~(lost[o] > 0)
      BY <2>4, <3>1 DEF L
    <3>3. PICK b \in Ids : Points(heap, <<>>, b, o)
      BY <1>1, <3>1, <3>2, KeptByField
    <3>4. heap[b].k \in {"map", "list", "block", "function"}
      BY <2>1, <3>1, <3>3, PointsTyped
    <3>5. Live(b) /\ b \notin Statics
      BY <2>1, <3>4 DEF Live
    <3>6. b \notin Reach(K) /\ b \notin Reach(L)
      BY <2>4, <3>1, <3>3 DEF Closed
    <3> QED
      BY <3>3, <3>5, <3>6
  <2>6. A \subseteq Ids /\ \A o \in A : o \in Ids
    OBVIOUS
  <2>7. A \subseteq G
    <3> DEFINE C == {o \in A : o \notin G}
    <3>1. C \subseteq Ids /\ Globals \notin C
      BY <2>4
    <3>2. ASSUME NEW o \in C PROVE \E b \in C : Points(heap, <<>>, b, o)
      <4>1. PICK b \in A : Points(heap, <<>>, b, o)
        BY <2>5
      <4>2. b \notin G
        BY <2>4, <2>6, <4>1 DEF Closed
      <4> QED
        BY <4>1, <4>2
    <3> HIDE DEF C
    <3>3. C = {}
      BY <2>1, <3>1, <3>2, Rankless
    <3> QED
      BY <3>3 DEF C
  <2> DEFINE B == {o \in A : Globals \in Reach({o})}
  <2>8. ASSUME NEW o \in B, NEW b \in A, Points(heap, <<>>, b, o) PROVE b \in B
    <3>1. o \in Ids /\ b \in Ids
      OBVIOUS
    <3>2. b \in Reach({b}) /\ Closed(Reach({b}))
      BY <2>2, <2>3, <3>1
    <3>3. o \in Reach({b})
      BY <2>8, <3>1, <3>2 DEF Closed
    <3>4. Reach({o}) \subseteq Reach({b})
      BY <2>2, <2>3, <3>1, <3>2, <3>3
    <3> QED
      BY <3>4
  <2>9. ASSUME NEW o \in B PROVE heap[o].k # "function"
    <3>1. o \in A /\ o \in Ids /\ o \in G /\ Globals \in Reach({o}) /\ o \notin Reach(K)
      BY <2>7
    <3> QED
      BY <2>4, <3>1 DEF K
  <2>10. ASSUME NEW o \in B
         PROVE  \E b \in B : /\ heap[b].k \in {"map", "list"} /\ heap[o].k \in Items
                             \/ /\ heap[b].k = "block" /\ heap[o].k \in {"map", "list"}
                             \/ /\ heap[b].k = "function" /\ heap[o].k = "block"
    <3>1. PICK b \in A : Points(heap, <<>>, b, o)
      BY <2>5
    <3>2. b \in Ids /\ o \in Ids /\ b \in B
      BY <2>8, <3>1
    <3> QED
      BY <2>1, <3>1, <3>2, PointsTyped
  <2> HIDE DEF A, B
  <2>11. B = {}
    <3>1. \A o \in B : heap[o].k # "block"
      BY <2>9, <2>10 DEF Items
    <3>2. \A o \in B : heap[o].k \notin {"map", "list"}
      BY <2>10, <3>1 DEF Items
    <3>3. \A o \in B : heap[o].k \notin Items
      BY <2>10, <3>2
    <3> QED
      BY <2>10, <3>1, <3>2, <3>3
  <2>12. A = {}
    <3>1. Globals \notin A
      <4>1. Globals \in Reach({Globals})
        BY <2>4 DEF G
      <4> QED
        BY <2>11, <4>1 DEF B
    <3> QED
      BY <2>1, <2>5, <2>6, <3>1, Rankless
  <2>13. ASSUME NEW o \in Ids, Live(o)
         PROVE  o \in Statics \/ o \in Reach(K) \/ o \in Reach(L)
    BY <2>12, <2>13 DEF A
  <2> QED
    BY <2>13, Zenon DEF OnlyCyclesSurvive, K, L, G
<1>2. IInv /\ RInv => OnlyCyclesSurvive
  BY <1>1 DEF OnlyCyclesSurvive
<1> QED
  BY <1>2, RingsInvariance, PTL
=============================================================================
