-------------------------- MODULE LogicBlocksProofs --------------------------
(***************************************************************************)
(* Proofs about LogicBlocks: for every set of addresses, every bound and   *)
(* both modes, the reference counts are exact, the free list is sound and  *)
(* the chain of prev pointers is the stack of calls.                       *)
(***************************************************************************)
EXTENDS LogicBlocks, SequenceTheorems, TLAPS

-----------------------------------------------------------------------------
(* What the sequence helpers do.                                           *)

\* The elements of a sequence over S are in S.
LEMMA OccursIn == ASSUME NEW S, NEW s \in Seq(S) PROVE Occurs(s) \subseteq S
  BY DEF Occurs

\* Append adds exactly the new element, after the old ones.
LEMMA AppendFacts ==
    ASSUME NEW S, NEW s \in Seq(S), NEW e \in S
    PROVE  /\ Append(s, e) \in Seq(S)
           /\ Len(Append(s, e)) = Len(s) + 1
           /\ Top(Append(s, e)) = e
           /\ \A i \in 1..Len(s) : Append(s, e)[i] = s[i]
           /\ Occurs(Append(s, e)) = Occurs(s) \cup {e}
           /\ Injective(s) /\ e \notin Occurs(s) => Injective(Append(s, e))
<1>1. /\ Append(s, e) \in Seq(S)
      /\ Len(Append(s, e)) = Len(s) + 1
      /\ Top(Append(s, e)) = e
      /\ \A i \in 1..Len(s) : Append(s, e)[i] = s[i]
  BY DEF Top
<1>2. Occurs(Append(s, e)) = Occurs(s) \cup {e}
  <2>1. 1..Len(Append(s, e)) = 1..Len(s) \cup {Len(s) + 1}
    BY <1>1
  <2>2. Append(s, e)[Len(s) + 1] = e
    BY <1>1 DEF Top
  <2> QED
    BY <1>1, <2>1, <2>2 DEF Occurs
<1>3. Injective(s) /\ e \notin Occurs(s) => Injective(Append(s, e))
  BY <1>1 DEF Injective, Occurs, Top
<1> QED
  BY <1>1, <1>2, <1>3

\* Pop removes exactly the top of a sequence without repetitions.
LEMMA PopFacts ==
    ASSUME NEW S, NEW s \in Seq(S), Len(s) > 0, Injective(s)
    PROVE  /\ Pop(s) \in Seq(S)
           /\ Len(Pop(s)) = Len(s) - 1
           /\ \A i \in 1..Len(s) - 1 : Pop(s)[i] = s[i]
           /\ Top(s) \in Occurs(s)
           /\ Top(s) \in S
           /\ Occurs(Pop(s)) = Occurs(s) \ {Top(s)}
           /\ Injective(Pop(s))
<1>1. /\ Pop(s) \in Seq(S)
      /\ Len(Pop(s)) = Len(s) - 1
      /\ \A i \in 1..Len(s) - 1 : Pop(s)[i] = s[i]
  <2> DEFINE n == Len(s) - 1
  <2>1. n \in Nat /\ 1 \in Int /\ n \in Int
    OBVIOUS
  <2>2. \A i \in 1..n : s[i] \in S
    OBVIOUS
  <2>3. /\ SubSeq(s, 1, n) \in Seq(S)
        /\ Len(SubSeq(s, 1, n)) = IF 1 <= n THEN n - 1 + 1 ELSE 0
        /\ \A i \in 1..n - 1 + 1 : SubSeq(s, 1, n)[i] = s[1 + i - 1]
    <3> HIDE DEF n
    <3> QED
      BY <2>1, <2>2, SubSeqProperties
  <2>4. n - 1 + 1 = n /\ \A i \in 1..n : 1 + i - 1 = i
    BY <2>1
  <2> QED
    BY <2>1, <2>3, <2>4 DEF Pop
<1>2. Top(s) \in Occurs(s) /\ Top(s) \in S
  BY DEF Top, Occurs
<1>3. Occurs(Pop(s)) = Occurs(s) \ {Top(s)}
  <2>1. 1..Len(s) = 1..Len(Pop(s)) \cup {Len(s)}
    BY <1>1
  <2>2. \A i \in 1..Len(Pop(s)) : s[i] # s[Len(s)]
    BY <1>1 DEF Injective
  <2> QED
    BY <1>1, <2>1, <2>2 DEF Occurs, Top
<1>4. Injective(Pop(s))
  BY <1>1 DEF Injective
<1> QED
  BY <1>1, <1>2, <1>3, <1>4

\* Putting a block on the free list.
LEMMA ConsFacts ==
    ASSUME NEW S, NEW s \in Seq(S), NEW e \in S
    PROVE  /\ <<e>> \o s \in Seq(S)
           /\ Occurs(<<e>> \o s) = {e} \cup Occurs(s)
           /\ Injective(s) /\ e \notin Occurs(s) => Injective(<<e>> \o s)
<1>1. /\ <<e>> \o s \in Seq(S)
      /\ Len(<<e>> \o s) = Len(s) + 1
      /\ (<<e>> \o s)[1] = e
      /\ \A i \in 2..Len(s) + 1 : (<<e>> \o s)[i] = s[i - 1]
  OBVIOUS
<1>2. \A i \in 1..Len(s) : (<<e>> \o s)[i + 1] = s[i]
  BY <1>1
<1>3. Occurs(<<e>> \o s) = {e} \cup Occurs(s)
  <2>1. Occurs(<<e>> \o s) \subseteq {e} \cup Occurs(s)
    BY <1>1 DEF Occurs
  <2>2. e \in Occurs(<<e>> \o s)
    BY <1>1 DEF Occurs
  <2>3. Occurs(s) \subseteq Occurs(<<e>> \o s)
    <3>1. SUFFICES ASSUME NEW i \in 1..Len(s)
                   PROVE  s[i] \in Occurs(<<e>> \o s)
      BY DEF Occurs
    <3>2. i + 1 \in 1..Len(<<e>> \o s) /\ (<<e>> \o s)[i + 1] = s[i]
      BY <1>1, <1>2
    <3> QED
      BY <3>2 DEF Occurs
  <2> QED
    BY <2>1, <2>2, <2>3
<1>4. Injective(s) /\ e \notin Occurs(s) => Injective(<<e>> \o s)
  BY <1>1 DEF Injective, Occurs
<1> QED
  BY <1>1, <1>3, <1>4

\* Taking a block from the free list.
LEMMA TailFacts ==
    ASSUME NEW S, NEW s \in Seq(S), s # <<>>, Injective(s)
    PROVE  /\ Head(s) \in S
           /\ Head(s) \in Occurs(s)
           /\ Tail(s) \in Seq(S)
           /\ Occurs(Tail(s)) = Occurs(s) \ {Head(s)}
           /\ Injective(Tail(s))
<1>1. /\ Len(s) > 0
      /\ Head(s) = s[1]
      /\ Tail(s) \in Seq(S)
      /\ Len(Tail(s)) = Len(s) - 1
      /\ \A i \in 1..Len(s) - 1 : Tail(s)[i] = s[i + 1]
  OBVIOUS
<1>2. Head(s) \in S /\ Head(s) \in Occurs(s)
  BY <1>1 DEF Occurs
<1>3. Occurs(Tail(s)) = Occurs(s) \ {Head(s)}
  <2>1. Occurs(Tail(s)) \subseteq Occurs(s) \ {Head(s)}
    BY <1>1 DEF Occurs, Injective
  <2>2. Occurs(s) \ {Head(s)} \subseteq Occurs(Tail(s))
    <3>1. SUFFICES ASSUME NEW i \in 2..Len(s)
                   PROVE  s[i] \in Occurs(Tail(s))
      BY <1>1 DEF Occurs
    <3>2. i - 1 \in 1..Len(Tail(s)) /\ Tail(s)[i - 1] = s[i]
      BY <1>1
    <3> QED
      BY <3>2 DEF Occurs
  <2> QED
    BY <2>1, <2>2
<1>4. Injective(Tail(s))
  BY <1>1 DEF Injective
<1> QED
  BY <1>1, <1>2, <1>3, <1>4

\* Each element of s points to the one below it, the first one to bottom.
Linked(p, s, bottom) ==
    \A i \in 1..Len(s) : p[s[i]] = IF i = 1 THEN bottom ELSE s[i - 1]

\* Pushing a new block on a linked sequence, or changing a block outside it.
LEMMA LinkedPush ==
    ASSUME NEW S, NEW T, NEW p \in [S -> T], NEW s \in Seq(S), NEW bottom,
           NEW e \in S, NEW x, e \notin Occurs(s), Linked(p, s, bottom)
    PROVE  /\ Linked([p EXCEPT ![e] = x], s, bottom)
           /\ x = (IF s = <<>> THEN bottom ELSE Top(s)) =>
                Linked([p EXCEPT ![e] = x], Append(s, e), bottom)
<1> DEFINE q == [p EXCEPT ![e] = x]
<1>1. \A i \in 1..Len(s) : s[i] # e /\ s[i] \in S
  BY DEF Occurs
<1>2. q[e] = x /\ \A i \in 1..Len(s) : q[s[i]] = p[s[i]]
  BY <1>1
<1>3. Linked(q, s, bottom)
  BY <1>2 DEF Linked
<1>4. ASSUME x = IF s = <<>> THEN bottom ELSE Top(s)
      PROVE  Linked(q, Append(s, e), bottom)
  <2> DEFINE a == Append(s, e)
  <2>1. Len(a) = Len(s) + 1 /\ a[Len(a)] = e /\ Len(s) \in Nat
    BY AppendFacts DEF Top
  <2>2. \A i \in 1..Len(s) : a[i] = s[i]
    BY AppendFacts
  <2>3. s = <<>> <=> Len(s) = 0
    OBVIOUS
  <2> HIDE DEF a, q
  <2> SUFFICES ASSUME NEW i \in 1..Len(a)
               PROVE  q[a[i]] = IF i = 1 THEN bottom ELSE a[i - 1]
    BY DEF Linked, a, q
  <2>4. CASE i = Len(a)
    <3>1. q[a[i]] = x
      BY <1>2, <2>1, <2>4 DEF q
    <3>2. CASE Len(s) = 0
      BY <1>4, <2>1, <2>3, <2>4, <3>1, <3>2
    <3>3. CASE Len(s) # 0
      <4>1. a[i - 1] = s[Len(s)] /\ i # 1
        BY <2>1, <2>2, <2>4, <3>3
      <4> QED
        BY <1>4, <2>3, <3>1, <3>3, <4>1 DEF Top
    <3> QED
      BY <3>2, <3>3
  <2>5. CASE i # Len(a)
    <3>1. i \in 1..Len(s) /\ a[i] = s[i] /\ (i # 1 => a[i - 1] = s[i - 1])
      BY <2>1, <2>2, <2>5
    <3> QED
      BY <1>3, <3>1 DEF Linked, q
  <2> QED
    BY <2>4, <2>5
<1> QED
  BY <1>3, <1>4

\* Popping the top of a linked sequence, and what the top points to.
LEMMA LinkedPop ==
    ASSUME NEW S, NEW T, NEW p \in [S -> T], NEW s \in Seq(S), NEW bottom,
           NEW x, Len(s) > 0, Injective(s), Linked(p, s, bottom)
    PROVE  /\ Linked([p EXCEPT ![Top(s)] = x], Pop(s), bottom)
           /\ p[Top(s)] = IF Len(s) = 1 THEN bottom ELSE Top(Pop(s))
<1> DEFINE t == Pop(s)
<1>1. Len(t) = Len(s) - 1 /\ \A i \in 1..Len(s) - 1 : t[i] = s[i]
  BY PopFacts
<1>2. \A i \in 1..Len(s) - 1 : s[i] # Top(s) /\ s[i] \in S
  BY DEF Injective, Top
<1>3. Len(s) \in 1..Len(s) /\ Len(s) \in Nat
  OBVIOUS
<1> HIDE DEF t
<1>4. p[Top(s)] = IF Len(s) = 1 THEN bottom ELSE Top(t)
  <2>1. p[Top(s)] = IF Len(s) = 1 THEN bottom ELSE s[Len(s) - 1]
    BY <1>3 DEF Linked, Top
  <2>2. Len(s) # 1 => Top(t) = s[Len(s) - 1]
    BY <1>1, <1>3 DEF Top
  <2> QED
    BY <2>1, <2>2
<1>5. Linked([p EXCEPT ![Top(s)] = x], t, bottom)
  <2> SUFFICES ASSUME NEW i \in 1..Len(t)
               PROVE  [p EXCEPT ![Top(s)] = x][t[i]] =
                        IF i = 1 THEN bottom ELSE t[i - 1]
    BY DEF Linked
  <2>1. i \in 1..Len(s) - 1 /\ i \in 1..Len(s) /\ t[i] = s[i]
    BY <1>1, <1>3
  <2>2. i # 1 => t[i - 1] = s[i - 1]
    BY <1>1, <1>3, <2>1
  <2>3. [p EXCEPT ![Top(s)] = x][s[i]] = p[s[i]]
    BY <1>2, <2>1
  <2>4. p[s[i]] = IF i = 1 THEN bottom ELSE s[i - 1]
    BY <2>1 DEF Linked
  <2> QED
    BY <2>1, <2>2, <2>3, <2>4
<1> QED
  BY <1>4, <1>5 DEF t

\* A sequence is empty exactly when its length is 0.
LEMMA EmptyFacts ==
    ASSUME NEW S, NEW s \in Seq(S)
    PROVE  /\ s = <<>> <=> Len(s) = 0
           /\ Len(s) \in Nat
<1>1. s = <<>> => Len(s) = 0
  OBVIOUS
<1>2. Len(s) = 0 => s = <<>>
  OBVIOUS
<1>3. Len(s) \in Nat
  OBVIOUS
<1> QED
  BY <1>1, <1>2, <1>3

\* Short sequences.
LEMMA ShortFacts ==
    /\ Occurs(<<>>) = {} /\ Injective(<<>>)
    /\ \A e : /\ Occurs(<<e>>) = {e} /\ Injective(<<e>>)
             /\ Top(<<e>>) = e /\ Len(<<e>>) = 1
<1>1. Len(<<>>) = 0 /\ 1..0 = {}
  OBVIOUS
<1>2. Occurs(<<>>) = {} /\ Injective(<<>>)
  BY <1>1 DEF Occurs, Injective
<1>3. ASSUME NEW e
      PROVE  /\ Occurs(<<e>>) = {e} /\ Injective(<<e>>)
             /\ Top(<<e>>) = e /\ Len(<<e>>) = 1
  <2>1. Len(<<e>>) = 1 /\ <<e>>[1] = e /\ 1..1 = {1}
    OBVIOUS
  <2> QED
    BY <2>1 DEF Occurs, Injective, Top
<1> QED
  BY <1>2, <1>3

-----------------------------------------------------------------------------
(***************************************************************************)
(* The inductive invariant.  RefcntExact and CacheSound are not inductive: *)
(* that a borrowed block is needed by nobody follows from its count being  *)
(* 0 only if the holders are told apart (Shape), and which block a pop     *)
(* reaches depends on the prev pointers (Links).                           *)
(***************************************************************************)
Shape ==
    /\ Len(frames) > 0
    /\ Injective(frames) /\ Injective(defs)
    /\ Occurs(frames) \cap Occurs(defs) = {}
    /\ code \cap Occurs(frames) = {} /\ code \cap Occurs(defs) = {}
    /\ head \notin code /\ head \notin Occurs(defs)
    /\ head \in Occurs(frames) => frames[1] = head
    /\ defs # <<>> => phase = "compile"
    /\ phase = "eval" => lb_save \in LB \ code
    /\ phase = "closing" => ~interactive

Links ==
    /\ lb = IF defs = <<>> THEN Top(frames) ELSE Top(defs)
    /\ Linked(prev, frames, NULL)
    /\ Linked(prev, defs, Top(frames))
    /\ phase = "eval" /\ lb_save \notin Occurs(frames) => prev[lb_save] = NULL

FreeList ==
    /\ CacheSound
    /\ NothingLost
    /\ head \in used
    /\ \A l \in LB \ used : rc[l] = 0
    /\ phase = "closing" => rc[head] = 0 /\ head \notin Occurs(cache)

IInv == TypeOK /\ RefcntExact /\ Shape /\ Links /\ FreeList

\* What is known of a block whose count is 0 while the program runs.
LEMMA ZeroIsFree ==
    ASSUME IInv, NEW l \in LB, rc[l] = 0, phase \in {"compile", "eval"}
    PROVE  /\ Need(l) = 0 /\ leak[l] = 0
           /\ l # head /\ l \notin code /\ l \notin Occurs(defs)
           /\ l \notin Occurs(frames)
           /\ phase = "eval" => l # lb_save
<1>1. rc[l] = Need(l) + leak[l] /\ leak[l] \in Nat
  BY DEF IInv, RefcntExact, TypeOK
<1>2. Need(l) \in Nat
  BY DEF Need, B
<1>3. Need(l) = 0 /\ leak[l] = 0
  BY <1>1, <1>2
<1>4. /\ ~HeadRef(l) /\ l \notin code /\ l \notin Occurs(defs)
      /\ ~ChainRef(l) /\ ~SaveRef(l)
  BY <1>3 DEF Need, B
<1>5. l # head
  BY <1>4 DEF HeadRef
<1> QED
  BY <1>3, <1>4, <1>5 DEF ChainRef, SaveRef

\* borrow_lb_from_cache returns a block nobody holds and takes it off the list.
LEMMA BorrowFacts ==
    ASSUME IInv, NEW l \in LB, Borrow(l)
    PROVE  /\ rc[l] = 0
           /\ cache' \in Seq(LB)
           /\ Injective(cache')
           /\ Occurs(cache') = Occurs(cache) \ {l}
           /\ used' = used \cup {l}
<1>1. /\ cache \in Seq(LB) /\ Injective(cache)
      /\ \A x \in Occurs(cache) : x \in used /\ rc[x] = 0
      /\ \A x \in LB \ used : rc[x] = 0
  BY DEF IInv, TypeOK, FreeList, CacheSound
<1>2. CASE cache = <<>>
  <2>1. l \in LB \ used /\ used' = used \cup {l} /\ cache' = cache
    BY <1>2 DEF Borrow
  <2>2. l \notin Occurs(cache)
    BY <1>1, <2>1
  <2> QED
    BY <1>1, <2>1, <2>2
<1>3. CASE cache # <<>>
  <2>1. l = Head(cache) /\ used' = used /\ cache' = Tail(cache)
    BY <1>3 DEF Borrow
  <2>2. /\ Head(cache) \in Occurs(cache)
        /\ Tail(cache) \in Seq(LB)
        /\ Occurs(Tail(cache)) = Occurs(cache) \ {Head(cache)}
        /\ Injective(Tail(cache))
    BY <1>1, <1>3, TailFacts
  <2> QED
    BY <1>1, <2>1, <2>2
<1> QED
  BY <1>2, <1>3

\* DEC_REF and the destructor it may run.
LEMMA FreedFacts ==
    ASSUME NEW c \in Seq(LB), NEW r \in [LB -> Nat], NEW l \in LB
    PROVE  /\ Freed(r, l, c) \in Seq(LB)
           /\ Occurs(Freed(r, l, c)) =
                Occurs(c) \cup (IF r[l] = 0 THEN {l} ELSE {})
           /\ Injective(c) /\ l \notin Occurs(c) => Injective(Freed(r, l, c))
<1>1. CASE r[l] = 0
  BY <1>1, ConsFacts DEF Freed
<1>2. CASE r[l] # 0
  BY <1>2 DEF Freed
<1> QED
  BY <1>1, <1>2

\* The state new_compiler leaves satisfies the invariant.
LEMMA InitIInv == Init => IInv
<1> SUFFICES ASSUME NEW h \in LB,
        /\ head = h /\ lb = h /\ used = {h} /\ interactive \in BOOLEAN
        /\ rc = [l \in LB |-> IF l = h THEN 1 ELSE 0]
        /\ prev = [l \in LB |-> NULL]
        /\ cache = <<>> /\ code = {} /\ defs = <<>>
        /\ lb_save = NULL /\ phase = "idle"
        /\ frames = <<h>> /\ leak = [l \in LB |-> 0]
    PROVE IInv
  BY DEF Init
<1>1. TypeOK
  BY DEF TypeOK, Phases
<1>2. Occurs(frames) = {h} /\ Occurs(defs) = {} /\ Occurs(cache) = {}
  BY ShortFacts
<1>3. RefcntExact
  <2> SUFFICES ASSUME NEW l \in LB
               PROVE  rc[l] = Need(l) + leak[l]
    BY DEF RefcntExact
  <2>1. HeadRef(l) <=> l = h
    BY DEF HeadRef
  <2>2. ~ChainRef(l) /\ ~SaveRef(l)
    BY <1>2 DEF ChainRef, AtRest, SaveRef
  <2>3. l \notin code /\ l \notin Occurs(defs)
    BY <1>2
  <2>4. Need(l) = IF l = h THEN 1 ELSE 0
    BY <2>1, <2>2, <2>3 DEF Need, B
  <2> QED
    BY <2>4
<1>4. Shape
  BY <1>2 DEF Shape, Injective
<1>5. Links
  <2>1. Linked(prev, frames, NULL) /\ Linked(prev, defs, Top(frames))
    BY ShortFacts DEF Linked
  <2> QED
    BY <2>1, ShortFacts DEF Links
<1>6. FreeList
  <2>1. CacheSound
    BY <1>2, ShortFacts DEF CacheSound
  <2>2. NothingLost
    BY <1>2 DEF NothingLost
  <2> QED
    BY <2>1, <2>2 DEF FreeList
<1> QED
  BY <1>1, <1>3, <1>4, <1>5, <1>6 DEF IInv

-----------------------------------------------------------------------------
(* One lemma per action: it preserves the invariant.                        *)

\* Holders are counted, so there are never fewer than none.
LEMMA NeedNat == \A x : Need(x) \in Nat /\ Need(x)' \in Nat
  BY DEF Need, B

\* No count reaches or leaves 0 and nothing is borrowed or returned.
LEMMA FreeListKept ==
    ASSUME IInv, UNCHANGED <<cache, used, head, interactive>>,
           \A x \in LB : rc'[x] = 0 <=> rc[x] = 0,
           phase \notin {"closing", "done"}, phase' \notin {"closing", "done"}
    PROVE  FreeList'
<1>1. TypeOK /\ FreeList
  BY DEF IInv
<1>2. Occurs(cache) \subseteq LB
  BY <1>1, SMTT(30) DEF TypeOK, Occurs
<1>3. CacheSound'
  BY <1>1, <1>2 DEF FreeList, CacheSound
<1>4. NothingLost'
  BY <1>1 DEF FreeList, NothingLost, TypeOK
<1> QED
  BY <1>1, <1>3, <1>4 DEF FreeList

\* DEC_REF of a block that has references, with the destructor it may run.
LEMMA DropFacts ==
    ASSUME IInv, NEW l \in LB, rc[l] # 0, rc' = Dec(rc, l),
           cache' = Freed(rc', l, cache), UNCHANGED <<head, interactive, used>>,
           phase = "closing" <=> phase' = "closing"
    PROVE  /\ rc' = [rc EXCEPT ![l] = rc[l] - 1] /\ rc' \in [LB -> Nat]
           /\ cache' \in Seq(LB) /\ CacheSound' /\ NothingLost'
           /\ Occurs(cache') \subseteq Occurs(cache) \cup {l}
           /\ \A x \in LB \ used' : rc'[x] = 0
<1>1. TypeOK /\ FreeList /\ CacheSound /\ NothingLost
  BY DEF IInv, FreeList
<1>2. rc[l] \in Nat /\ rc[l] - 1 \in Nat
  BY <1>1 DEF TypeOK
<1>3. rc' = [rc EXCEPT ![l] = rc[l] - 1] /\ rc' \in [LB -> Nat]
  BY <1>1, <1>2 DEF Dec, TypeOK
<1>4. l \in used /\ l \notin Occurs(cache)
  BY <1>1 DEF FreeList, CacheSound
<1>5. cache \in Seq(LB) /\ Injective(cache) /\ Occurs(cache) \subseteq LB
  BY <1>1 DEF TypeOK, CacheSound, Occurs
<1>6. /\ cache' \in Seq(LB) /\ Injective(cache')
      /\ Occurs(cache') = Occurs(cache) \cup (IF rc'[l] = 0 THEN {l} ELSE {})
  BY <1>3, <1>4, <1>5, FreedFacts
<1>7. \A x \in LB : x # l => rc'[x] = rc[x]
  BY <1>1, <1>3 DEF TypeOK
<1>8. CacheSound'
  BY <1>1, <1>4, <1>5, <1>6, <1>7 DEF CacheSound
<1>9. NothingLost'
  BY <1>1, <1>6, <1>7 DEF NothingLost, TypeOK
<1>10. \A x \in LB \ used' : rc'[x] = 0
  BY <1>1, <1>4, <1>7 DEF FreeList
<1> QED
  BY <1>3, <1>6, <1>8, <1>9, <1>10

\* A stuttering step keeps the invariant.
LEMMA StutterIInv == IInv /\ UNCHANGED vars => IInv'
<1> SUFFICES ASSUME IInv, UNCHANGED vars PROVE IInv'
  OBVIOUS
<1> USE DEF vars
<1>1. TypeOK'
  BY DEF IInv, TypeOK
<1>2. RefcntExact'
  BY DEF IInv, RefcntExact, Need, B, HeadRef, ChainRef, AtRest, SaveRef
<1>3. Shape'
  BY DEF IInv, Shape
<1>4. Links'
  BY DEF IInv, Links
<1>5. FreeList'
  BY DEF IInv, FreeList, CacheSound, NothingLost
<1> QED
  BY <1>1, <1>2, <1>3, <1>4, <1>5 DEF IInv

\* continue_compiler keeps the invariant: it touches no logic block but its code.
LEMMA StartCompileIInv == IInv /\ StartCompile => IInv'
<1> SUFFICES ASSUME IInv, StartCompile PROVE IInv'
  OBVIOUS
<1> USE DEF StartCompile
<1>1. TypeOK'
  BY DEF IInv, TypeOK, Phases
<1>2. RefcntExact'
  BY DEF IInv, RefcntExact, Need, B, HeadRef, ChainRef, AtRest, SaveRef
<1>3. Shape'
  BY DEF IInv, Shape
<1>4. Links'
  BY DEF IInv, Links
<1>5. FreeList'
  BY DEF IInv, FreeList, CacheSound, NothingLost
<1> QED
  BY <1>1, <1>2, <1>3, <1>4, <1>5 DEF IInv

\* visit_function_def up to its body keeps the invariant: the block it borrows
\* is referred to by nothing else.
LEMMA EnterFunctionIInv ==
    ASSUME IInv, NEW l \in LB, EnterFunction(l)
    PROVE  IInv'
<1>1. /\ phase = "compile" /\ phase' = "compile"
      /\ lb' = l /\ prev' = [prev EXCEPT ![l] = lb]
      /\ rc' = [rc EXCEPT ![l] = 2]
      /\ defs' = Append(defs, l)
      /\ UNCHANGED <<head, interactive, code, lb_save, frames, leak>>
      /\ Borrow(l)
  BY DEF EnterFunction, Push
<1>2. /\ rc[l] = 0 /\ cache' \in Seq(LB) /\ Injective(cache')
      /\ Occurs(cache') = Occurs(cache) \ {l}
      /\ used' = used \cup {l}
  BY <1>1, BorrowFacts
<1>3. /\ Need(l) = 0 /\ leak[l] = 0
      /\ l # head /\ l \notin code /\ l \notin Occurs(defs)
      /\ l \notin Occurs(frames)
  BY <1>1, <1>2, ZeroIsFree
<1>4. TypeOK /\ RefcntExact /\ Shape /\ Links /\ FreeList
  BY DEF IInv
<1>5. /\ defs' \in Seq(LB) /\ Len(defs') = Len(defs) + 1
      /\ Top(defs') = l
      /\ \A i \in 1..Len(defs) : defs'[i] = defs[i]
      /\ Occurs(defs') = Occurs(defs) \cup {l}
      /\ Injective(defs')
  BY <1>1, <1>3, <1>4, AppendFacts, SMTT(30) DEF TypeOK, Shape
<1>6. TypeOK'
  BY <1>1, <1>2, <1>4, <1>5 DEF TypeOK
<1>7. RefcntExact'
  <2> SUFFICES ASSUME NEW x \in LB PROVE rc'[x] = Need(x)' + leak'[x]
    BY DEF RefcntExact
  <2>1. /\ HeadRef(x)' <=> HeadRef(x)
        /\ ChainRef(x)' <=> ChainRef(x)
        /\ SaveRef(x)' <=> SaveRef(x)
    BY <1>1 DEF HeadRef, ChainRef, AtRest, SaveRef
  <2>2. Need(x)' = Need(x) + (IF x = l THEN 2 ELSE 0)
    BY <1>1, <1>3, <1>5, <2>1 DEF Need, B
  <2>3. rc[x] = Need(x) + leak[x]
    BY <1>4 DEF RefcntExact
  <2> QED
    BY <1>1, <1>2, <1>3, <1>4, <2>2, <2>3, NeedNat, SMTT(30) DEF TypeOK
<1>8. Shape'
  BY <1>1, <1>3, <1>4, <1>5 DEF Shape
<1>9. Links'
  <2>1. lb = IF defs = <<>> THEN Top(frames) ELSE Top(defs)
    BY <1>4 DEF Links
  <2>2. Linked(prev', frames, NULL)
    BY <1>1, <1>3, <1>4, LinkedPush DEF TypeOK, Links
  <2>3. Linked(prev', defs', Top(frames))
    BY <1>1, <1>3, <1>4, <2>1, LinkedPush DEF TypeOK, Links
  <2>4. defs' # <<>>
    BY <1>4, <1>5 DEF TypeOK
  <2> QED
    BY <1>1, <1>5, <2>2, <2>3, <2>4 DEF Links
<1>10. FreeList'
  BY <1>1, <1>2, <1>3, <1>4
     DEF FreeList, CacheSound, NothingLost, TypeOK
<1> QED
  BY <1>6, <1>7, <1>8, <1>9, <1>10 DEF IInv

\* visit_function_def after its body keeps the invariant: the block it pops is
\* its own and stays alive for the function object.
LEMMA LeaveFunctionIInv == IInv /\ LeaveFunction => IInv'
<1> SUFFICES ASSUME IInv, LeaveFunction PROVE IInv'
  OBVIOUS
<1>1. TypeOK /\ RefcntExact /\ Shape /\ Links /\ FreeList
  BY DEF IInv
<1>2. defs # <<>> /\ defs \in Seq(LB) /\ Len(defs) > 0 /\ Injective(defs)
  BY <1>1 DEF LeaveFunction, TypeOK, Shape
<1>3. lb = Top(defs)
  BY <1>1, <1>2 DEF Links
<1>4. /\ phase = "compile" /\ phase' = "compile"
      /\ lb' = prev[lb]
      /\ prev' = [prev EXCEPT ![lb] = NULL]
      /\ rc' = Dec(Inc(Dec(rc, lb), lb), lb)
      /\ cache' = Freed(rc', lb, cache)
      /\ code' = code \cup {lb}
      /\ defs' = Pop(defs)
      /\ UNCHANGED <<head, interactive, used, lb_save, frames, leak>>
  BY <1>3 DEF LeaveFunction
<1>5. /\ Pop(defs) \in Seq(LB) /\ Len(Pop(defs)) = Len(defs) - 1
      /\ lb \in Occurs(defs) /\ lb \in LB
      /\ Occurs(Pop(defs)) = Occurs(defs) \ {lb} /\ Injective(Pop(defs))
  BY <1>2, <1>3, PopFacts
<1>6. /\ lb # head /\ lb \notin code /\ lb \notin Occurs(frames)
  BY <1>1, <1>5 DEF Shape
<1>7. rc[lb] = Need(lb) + leak[lb] /\ Need(lb) >= 2 /\ leak[lb] \in Nat
  <2>1. Need(lb) >= 2
    BY <1>5 DEF Need, B
  <2> QED
    BY <1>1, <1>5, <2>1 DEF RefcntExact, TypeOK
<1>8. rc' = [rc EXCEPT ![lb] = rc[lb] - 1] /\ rc[lb] \in Nat /\ rc[lb] >= 2
  <2>1. rc[lb] \in Nat /\ rc[lb] >= 2
    BY <1>1, <1>7, NeedNat DEF TypeOK
  <2>2. rc' = [rc EXCEPT ![lb] = rc[lb] - 1 + 1 - 1]
    BY <1>1, <1>4, <1>5 DEF Inc, Dec, TypeOK
  <2>3. rc[lb] - 1 + 1 - 1 = rc[lb] - 1
    BY <2>1
  <2> QED
    BY <2>1, <2>2, <2>3
<1>9. rc' \in [LB -> Nat] /\ rc'[lb] # 0 /\ \A x \in LB \ {lb} : rc'[x] = rc[x]
  BY <1>1, <1>5, <1>8, SMTT(30) DEF TypeOK
<1>10. cache' = cache
  BY <1>4, <1>9 DEF Freed
<1>11. /\ prev[lb] = IF defs' = <<>> THEN Top(frames) ELSE Top(defs')
       /\ Linked(prev', defs', Top(frames))
  <2>1. /\ Linked([prev EXCEPT ![Top(defs)] = NULL], Pop(defs), Top(frames))
        /\ prev[Top(defs)] =
             IF Len(defs) = 1 THEN Top(frames) ELSE Top(Pop(defs))
    <3>1. prev \in [LB -> LB \cup {NULL}] /\ Linked(prev, defs, Top(frames))
      BY <1>1 DEF Links, TypeOK
    <3> QED
      BY <1>2, <3>1, LinkedPop
  <2>2. Len(defs) = 1 <=> defs' = <<>>
    <3>1. defs' \in Seq(LB) /\ Len(defs') = Len(defs) - 1
      BY <1>4, <1>5
    <3>2. Len(defs) \in Nat /\ (defs' = <<>> <=> Len(defs') = 0)
      BY <1>2, <3>1, EmptyFacts
    <3> QED
      BY <3>1, <3>2
  <2> QED
    BY <1>3, <1>4, <2>1, <2>2
<1>12. TypeOK'
  <2>1. Top(frames) \in LB
    BY <1>1 DEF TypeOK, Shape, Top
  <2>2. lb' \in LB
    <3>1. CASE defs' = <<>>
      BY <1>4, <1>11, <2>1, <3>1
    <3>2. CASE defs' # <<>>
      BY <1>4, <1>5, <1>11, <3>2 DEF Top
    <3> QED
      BY <3>1, <3>2
  <2> QED
    BY <1>1, <1>4, <1>5, <1>9, <1>10, <2>2 DEF TypeOK
<1>13. RefcntExact'
  <2> SUFFICES ASSUME NEW x \in LB PROVE rc'[x] = Need(x)' + leak'[x]
    BY DEF RefcntExact
  <2>1. /\ HeadRef(x)' <=> HeadRef(x)
        /\ ChainRef(x)' <=> ChainRef(x)
        /\ SaveRef(x)' <=> SaveRef(x)
    BY <1>4 DEF HeadRef, ChainRef, AtRest, SaveRef
  <2>2. Need(x) = Need(x)' + (IF x = lb THEN 1 ELSE 0)
    BY <1>4, <1>5, <1>6, <2>1 DEF Need, B
  <2>3. rc[x] = Need(x) + leak[x]
    BY <1>1 DEF RefcntExact
  <2>4. Need(x)' \in Nat
    BY NeedNat
  <2> QED
    BY <1>1, <1>4, <1>8, <1>9, <2>2, <2>3, <2>4, NeedNat, SMTT(30) DEF TypeOK
<1>14. Shape'
  BY <1>1, <1>4, <1>5, <1>6 DEF Shape
<1>15. Links'
  <2>1. Linked(prev', frames, NULL)
    BY <1>1, <1>4, <1>5, <1>6, LinkedPush DEF TypeOK, Links
  <2> QED
    BY <1>4, <1>11, <2>1 DEF Links
<1>16. FreeList'
  BY <1>4, <1>8, <1>9, <1>10, FreeListKept
<1> QED
  BY <1>12, <1>13, <1>14, <1>15, <1>16 DEF IInv

\* The prologue of eval keeps the invariant.
LEMMA StartEvalIInv == IInv /\ StartEval => IInv'
<1> SUFFICES ASSUME IInv, StartEval PROVE IInv'
  OBVIOUS
<1>1. TypeOK /\ RefcntExact /\ Shape /\ Links /\ FreeList
  BY DEF IInv
<1>2. /\ phase = "compile" /\ phase' = "eval" /\ defs = <<>>
      /\ rc' = Inc(rc, lb) /\ lb_save' = lb
      /\ UNCHANGED <<prev, lb, head, interactive, cache, used, code, defs, frames, leak>>
  BY DEF StartEval
<1>3. lb = Top(frames) /\ lb \in Occurs(frames) /\ lb \in LB
  <2>1. lb = Top(frames)
    BY <1>1, <1>2 DEF Links
  <2> QED
    BY <1>1, <2>1, PopFacts DEF TypeOK, Shape
<1>4. lb \notin code
  BY <1>1, <1>3 DEF Shape
<1>5. lb = head => frames = <<head>>
  <2> SUFFICES ASSUME lb = head PROVE frames = <<head>>
    OBVIOUS
  <2>1. frames[1] = head /\ frames[Len(frames)] = head /\ Len(frames) > 0
    BY <1>1, <1>3 DEF Shape, Top
  <2>2. Len(frames) = 1
    <3>1. 1 \in 1..Len(frames) /\ Len(frames) \in 1..Len(frames)
      BY <1>1, <2>1 DEF TypeOK
    <3>2. \A i, j \in 1..Len(frames) : frames[i] = frames[j] => i = j
      BY <1>1 DEF Shape, Injective
    <3> QED
      BY <2>1, <3>1, <3>2
  <2> QED
    BY <1>1, <2>1, <2>2, SeqEqual, ShortFacts DEF TypeOK
<1>6. rc[lb] \in Nat /\ rc' = [rc EXCEPT ![lb] = rc[lb] + 1]
  BY <1>1, <1>2, <1>3 DEF Inc, TypeOK
<1>7. TypeOK'
  <2>1. rc' \in [LB -> Nat]
    BY <1>1, <1>3, <1>6 DEF TypeOK
  <2> QED
    BY <1>1, <1>2, <1>3, <2>1 DEF TypeOK, Phases
<1>8. RefcntExact'
  <2> SUFFICES ASSUME NEW x \in LB PROVE rc'[x] = Need(x)' + leak'[x]
    BY DEF RefcntExact
  <2>1. HeadRef(x)' <=> HeadRef(x)
    BY <1>2 DEF HeadRef
  <2>2. ~SaveRef(x) /\ (SaveRef(x)' <=> x = lb /\ x # head)
    BY <1>2 DEF SaveRef
  <2>3. /\ ChainRef(x)' <=> x \in Occurs(frames)
        /\ ChainRef(x) <=> x \in Occurs(frames) /\ ~(x = head /\ frames = <<head>>)
    BY <1>2 DEF ChainRef, AtRest
  <2>4. frames = <<head>> => lb = head
    BY <1>3, ShortFacts
  <2>5. Need(x)' = Need(x) + (IF x = lb THEN 1 ELSE 0)
    BY <1>2, <1>3, <1>5, <2>1, <2>2, <2>3, <2>4 DEF Need, B
  <2>6. rc[x] = Need(x) + leak[x]
    BY <1>1 DEF RefcntExact
  <2> QED
    BY <1>1, <1>2, <1>6, <2>5, <2>6, NeedNat DEF TypeOK
<1>9. Shape'
  BY <1>1, <1>2, <1>3, <1>4 DEF Shape
<1>10. Links'
  BY <1>1, <1>2, <1>3 DEF Links
<1>11. FreeList'
  <2>1. lb \in used /\ rc[lb] # 0
    <3>1. phase = "compile" /\ lb \in Occurs(frames)
      BY <1>2, <1>3
    <3>2. rc[lb] # 0
      BY <1>3, <3>1, ZeroIsFree
    <3> QED
      BY <1>1, <1>3, <3>2 DEF FreeList
  <2>2. \A x \in LB : rc'[x] = 0 <=> rc[x] = 0
    BY <1>1, <1>3, <1>6, <2>1 DEF TypeOK
  <2> QED
    BY <1>2, <2>2, FreeListKept
<1> QED
  BY <1>7, <1>8, <1>9, <1>10, <1>11 DEF IInv

\* INVOKE keeps the invariant: the frame it borrows is referred to by nothing else.
LEMMA InvokeIInv ==
    ASSUME IInv, NEW l \in LB, Invoke(l)
    PROVE  IInv'
<1>1. /\ phase = "eval" /\ phase' = "eval"
      /\ lb' = l /\ prev' = [prev EXCEPT ![l] = lb]
      /\ rc' = [rc EXCEPT ![l] = 1]
      /\ frames' = Append(frames, l)
      /\ UNCHANGED <<head, interactive, code, defs, lb_save, leak>>
      /\ Borrow(l)
  BY DEF Invoke, Push
<1>2. /\ rc[l] = 0 /\ cache' \in Seq(LB) /\ Injective(cache')
      /\ Occurs(cache') = Occurs(cache) \ {l}
      /\ used' = used \cup {l}
  BY <1>1, BorrowFacts
<1>3. /\ Need(l) = 0 /\ leak[l] = 0
      /\ l # head /\ l \notin code /\ l \notin Occurs(defs)
      /\ l \notin Occurs(frames) /\ l # lb_save
  BY <1>1, <1>2, ZeroIsFree
<1>4. TypeOK /\ RefcntExact /\ Shape /\ Links /\ FreeList
  BY DEF IInv
<1>5. /\ frames' \in Seq(LB) /\ Len(frames') = Len(frames) + 1
      /\ Top(frames') = l
      /\ \A i \in 1..Len(frames) : frames'[i] = frames[i]
      /\ Occurs(frames') = Occurs(frames) \cup {l}
      /\ Injective(frames')
  <2>1. frames \in Seq(LB) /\ Injective(frames)
    BY <1>4 DEF TypeOK, Shape
  <2> QED
    BY <1>1, <1>3, <2>1, AppendFacts
<1>6. defs = <<>> /\ lb = Top(frames) /\ frames # <<>>
  BY <1>1, <1>4 DEF Shape, Links
<1>7. TypeOK'
  BY <1>1, <1>2, <1>4, <1>5 DEF TypeOK
<1>8. RefcntExact'
  <2> SUFFICES ASSUME NEW x \in LB PROVE rc'[x] = Need(x)' + leak'[x]
    BY DEF RefcntExact
  <2>1. /\ HeadRef(x)' <=> HeadRef(x)
        /\ SaveRef(x)' <=> SaveRef(x)
        /\ ChainRef(x) <=> x \in Occurs(frames)
        /\ ChainRef(x)' <=> x \in Occurs(frames) \cup {l}
    BY <1>1, <1>5 DEF HeadRef, ChainRef, AtRest, SaveRef
  <2>2. Need(x)' = Need(x) + (IF x = l THEN 1 ELSE 0)
    BY <1>1, <1>3, <2>1 DEF Need, B
  <2>3. rc[x] = Need(x) + leak[x]
    BY <1>4 DEF RefcntExact
  <2> QED
    BY <1>1, <1>2, <1>3, <1>4, <2>2, <2>3, NeedNat, SMTT(30) DEF TypeOK
<1>9. Shape'
  <2>1. Len(frames) >= 1 /\ frames'[1] = frames[1]
    <3>1. Len(frames) > 0 /\ Len(frames) \in Nat
      BY <1>4 DEF Shape, TypeOK
    <3>2. 1 \in 1..Len(frames)
      BY <3>1
    <3> QED
      BY <1>5, <3>1, <3>2
  <2> QED
    BY <1>1, <1>3, <1>4, <1>5, <2>1 DEF Shape
<1>10. Links'
  <2>1. Linked(prev', frames', NULL)
    BY <1>1, <1>3, <1>4, <1>6, LinkedPush DEF TypeOK, Links
  <2>2. Linked(prev', defs', Top(frames'))
    BY <1>1, <1>6, ShortFacts DEF Linked
  <2>3. lb_save' \notin Occurs(frames') => prev'[lb_save'] = NULL
    BY <1>1, <1>3, <1>4, <1>5 DEF Links, TypeOK, Shape
  <2> QED
    BY <1>1, <1>5, <1>6, <2>1, <2>2, <2>3 DEF Links
<1>11. FreeList'
  BY <1>1, <1>2, <1>3, <1>4
     DEF FreeList, CacheSound, NothingLost, TypeOK
<1> QED
  BY <1>7, <1>8, <1>9, <1>10, <1>11 DEF IInv

\* The end of a block keeps the invariant, whether a caller is left to resume or not.
LEMMA EndFrameIInv == IInv /\ EndFrame => IInv'
<1> SUFFICES ASSUME IInv, EndFrame PROVE IInv'
  OBVIOUS
<1> DEFINE last == prev[lb] = NULL
<1>1. TypeOK /\ RefcntExact /\ Shape /\ Links /\ FreeList
  BY DEF IInv
<1>2. /\ phase = "eval"
      /\ lb' = IF last THEN lb_save ELSE prev[lb]
      /\ prev' = [prev EXCEPT ![lb] = NULL]
      /\ rc' = Dec(rc, lb) /\ cache' = Freed(rc', lb, cache)
      /\ phase' = IF last THEN (IF interactive THEN "idle" ELSE "evaled")
                  ELSE "eval"
      /\ frames' = IF last THEN <<lb_save>> ELSE Pop(frames)
      /\ UNCHANGED <<head, interactive, used, code, defs, lb_save, leak>>
  BY DEF EndFrame
<1>3. /\ defs = <<>> /\ lb = Top(frames) /\ Occurs(defs) = {}
      /\ frames \in Seq(LB) /\ Len(frames) > 0 /\ Injective(frames)
      /\ lb_save \in LB \ code
  BY <1>1, <1>2, ShortFacts DEF Shape, Links, TypeOK
<1>4. /\ Pop(frames) \in Seq(LB) /\ Len(Pop(frames)) = Len(frames) - 1
      /\ \A i \in 1..Len(frames) - 1 : Pop(frames)[i] = frames[i]
      /\ lb \in Occurs(frames) /\ lb \in LB
      /\ Occurs(Pop(frames)) = Occurs(frames) \ {lb}
      /\ Injective(Pop(frames))
  BY <1>3, PopFacts
<1>5. /\ Linked(prev', Pop(frames), NULL)
      /\ prev[lb] = IF Len(frames) = 1 THEN NULL ELSE Top(Pop(frames))
  <2>1. prev \in [LB -> LB \cup {NULL}] /\ Linked(prev, frames, NULL)
    BY <1>1 DEF Links, TypeOK
  <2> QED
    BY <1>2, <1>3, <2>1, LinkedPop
<1>6. last <=> Len(frames) = 1
  <2>1. Len(frames) # 1 => Top(Pop(frames)) \in LB
    BY <1>3, <1>4 DEF Top
  <2> QED
    BY <1>5, <2>1, NullAssumption
<1>7. rc[lb] # 0
  BY <1>2, <1>4, ZeroIsFree
<1>8. phase # "closing" /\ phase' \notin {"closing", "done"}
  BY <1>2
<1>9. /\ rc' = [rc EXCEPT ![lb] = rc[lb] - 1] /\ rc' \in [LB -> Nat]
      /\ cache' \in Seq(LB) /\ CacheSound' /\ NothingLost'
      /\ \A x \in LB \ used' : rc'[x] = 0
  BY <1>2, <1>4, <1>7, <1>8, DropFacts
<1>10. FreeList'
  BY <1>1, <1>2, <1>8, <1>9 DEF FreeList
<1>11. \A x \in LB : /\ HeadRef(x)' <=> HeadRef(x)
                     /\ ChainRef(x) <=> x \in Occurs(frames)
  BY <1>2, <1>8 DEF HeadRef, ChainRef, AtRest
<1>12. prev' \in [LB -> LB \cup {NULL}] /\ prev'[lb] = NULL
       /\ \A x \in LB : x # lb => prev'[x] = prev[x]
  BY <1>1, <1>2, <1>4 DEF TypeOK
<1>13. ASSUME \A x \in LB : Need(x) = Need(x)' + (IF x = lb THEN 1 ELSE 0)
       PROVE  RefcntExact'
  <2> SUFFICES ASSUME NEW x \in LB PROVE rc'[x] = Need(x)' + leak'[x]
    BY DEF RefcntExact
  <2>1. rc[x] = Need(x) + leak[x] /\ leak[x] \in Nat
    BY <1>1 DEF RefcntExact, TypeOK
  <2>2. Need(x)' \in Nat
    BY NeedNat
  <2>3. rc'[x] = IF x = lb THEN rc[lb] - 1 ELSE rc[x]
    BY <1>1, <1>4, <1>9 DEF TypeOK
  <2> QED
    BY <1>2, <1>13, <2>1, <2>2, <2>3
<1> HIDE DEF last
<1>14. CASE last
  <2>1. frames' = <<lb_save>> /\ lb' = lb_save /\ phase' \in {"idle", "evaled"}
    BY <1>2, <1>14
  <2>2. /\ Occurs(frames') = {lb_save} /\ Injective(frames')
        /\ Top(frames') = lb_save /\ Len(frames') = 1 /\ frames'[1] = lb_save
    BY <2>1, ShortFacts
  <2>3. Occurs(frames) = {lb}
    <3>1. Len(frames) = 1 /\ Occurs(Pop(frames)) = {}
      BY <1>3, <1>4, <1>6, <1>14 DEF Occurs
    <3> QED
      BY <1>4, <3>1
  <2>4. TypeOK'
    <3>1. frames' \in Seq(LB) /\ phase' \in Phases
      BY <1>3, <2>1 DEF Phases
    <3> QED
      BY <1>1, <1>2, <1>3, <1>9, <1>12, <2>1, <3>1 DEF TypeOK
  <2>5. \A x \in LB : Need(x) = Need(x)' + (IF x = lb THEN 1 ELSE 0)
    <3> SUFFICES ASSUME NEW x \in LB
                 PROVE  Need(x) = Need(x)' + (IF x = lb THEN 1 ELSE 0)
      OBVIOUS
    <3>1. ~SaveRef(x)' /\ (SaveRef(x) <=> x = lb_save /\ x # head)
      BY <1>2, <2>1 DEF SaveRef
    <3>2. ChainRef(x)' <=> x = lb_save /\ x # head
      <4>1. AtRest' <=> lb_save = head
        BY <1>2, <2>1, <2>2 DEF AtRest
      <4> QED
        BY <1>2, <2>2, <4>1 DEF ChainRef
    <3> QED
      BY <1>2, <1>3, <1>11, <2>3, <3>1, <3>2 DEF Need, B
  <2>6. RefcntExact'
    BY <1>13, <2>5
  <2>7. Shape'
    BY <1>1, <1>2, <1>3, <2>1, <2>2 DEF Shape
  <2>8. Links'
    <3>1. prev'[lb_save] = NULL
      BY <1>1, <1>2, <1>3, <1>12, <2>3 DEF Links
    <3>2. Linked(prev', frames', NULL)
      BY <2>1, <2>2, <3>1 DEF Linked
    <3>3. Linked(prev', defs', Top(frames'))
      BY <1>2, <1>3, ShortFacts DEF Linked
    <3> QED
      BY <1>2, <1>3, <2>1, <2>2, <3>2, <3>3 DEF Links
  <2> QED
    BY <1>10, <2>4, <2>6, <2>7, <2>8 DEF IInv
<1>15. CASE ~last
  <2>1. /\ frames' = Pop(frames) /\ lb' = Top(frames') /\ phase' = "eval"
        /\ Len(frames) > 1
    <3>1. Len(frames) # 1 /\ Len(frames) \in Nat /\ Len(frames) > 0
      BY <1>3, <1>6, <1>15
    <3>2. lb' = prev[lb] /\ frames' = Pop(frames) /\ phase' = "eval"
      BY <1>2, <1>15
    <3>3. \A n \in Nat : n > 0 /\ n # 1 => n > 1
      OBVIOUS
    <3> QED
      BY <1>5, <3>1, <3>2, <3>3
  <2>2. TypeOK'
    <3>1. lb' \in LB
      BY <1>4, <2>1 DEF Top
    <3> QED
      BY <1>1, <1>2, <1>4, <1>9, <1>12, <2>1, <3>1 DEF TypeOK, Phases
  <2>3. \A x \in LB : Need(x) = Need(x)' + (IF x = lb THEN 1 ELSE 0)
    <3> SUFFICES ASSUME NEW x \in LB
                 PROVE  Need(x) = Need(x)' + (IF x = lb THEN 1 ELSE 0)
      OBVIOUS
    <3>1. SaveRef(x)' <=> SaveRef(x)
      BY <1>2, <2>1 DEF SaveRef
    <3>2. ChainRef(x)' <=> x \in Occurs(frames) \ {lb}
      BY <1>4, <2>1 DEF ChainRef, AtRest
    <3> QED
      BY <1>2, <1>4, <1>11, <3>1, <3>2 DEF Need, B
  <2>4. RefcntExact'
    BY <1>13, <2>3
  <2>5. Shape'
    <3>1. Len(frames') > 0 /\ frames'[1] = frames[1]
      BY <1>4, <2>1
    <3> QED
      BY <1>1, <1>2, <1>3, <1>4, <2>1, <3>1 DEF Shape
  <2>6. Links'
    <3>1. Linked(prev', defs', Top(frames'))
      BY <1>2, <1>3, ShortFacts DEF Linked
    <3>2. lb_save' \notin Occurs(frames') => prev'[lb_save'] = NULL
      BY <1>1, <1>2, <1>3, <1>4, <1>12, <2>1 DEF Links
    <3> QED
      BY <1>2, <1>3, <1>5, <2>1, <3>1, <3>2 DEF Links
  <2> QED
    BY <1>10, <2>2, <2>4, <2>5, <2>6 DEF IInv
<1> QED
  BY <1>14, <1>15

\* QUIT_VM keeps the invariant, at the price of the references in leak.
LEMMA QuitIInv == IInv /\ Quit => IInv'
<1> SUFFICES ASSUME IInv, Quit PROVE IInv'
  OBVIOUS
<1>1. TypeOK /\ RefcntExact /\ Shape /\ Links /\ FreeList
  BY DEF IInv
<1>2. /\ phase = "eval" /\ phase' \in {"idle", "evaled"}
      /\ leak' = [l \in LB |-> leak[l]
                    + (IF l = lb_save /\ l # head THEN 1 ELSE 0)
                    + (IF l = head /\ frames = <<head>> THEN 1 ELSE 0)]
      /\ UNCHANGED <<rc, prev, lb, head, interactive, cache, used, code, defs, lb_save,
                     frames>>
  BY DEF Quit
<1>3. TypeOK'
  <2>1. leak' \in [LB -> Nat]
    BY <1>1, <1>2 DEF TypeOK
  <2> QED
    BY <1>1, <1>2, <2>1 DEF TypeOK, Phases
<1>4. RefcntExact'
  <2> SUFFICES ASSUME NEW x \in LB PROVE rc'[x] = Need(x)' + leak'[x]
    BY DEF RefcntExact
  <2>1. /\ HeadRef(x)' <=> HeadRef(x)
        /\ ~SaveRef(x)' /\ (SaveRef(x) <=> x = lb_save /\ x # head)
        /\ ChainRef(x) <=> x \in Occurs(frames)
        /\ ChainRef(x)' <=>
             x \in Occurs(frames) /\ ~(x = head /\ frames = <<head>>)
    BY <1>2 DEF HeadRef, SaveRef, ChainRef, AtRest
  <2>2. frames = <<head>> => head \in Occurs(frames)
    BY ShortFacts
  <2>3. Need(x) = Need(x)' + (IF x = lb_save /\ x # head THEN 1 ELSE 0)
                    + (IF x = head /\ frames = <<head>> THEN 1 ELSE 0)
    BY <1>2, <2>1, <2>2 DEF Need, B
  <2>4. rc[x] = Need(x) + leak[x] /\ leak[x] \in Nat
    BY <1>1 DEF RefcntExact, TypeOK
  <2>5. Need(x)' \in Nat
    BY NeedNat
  <2> QED
    BY <1>2, <2>3, <2>4, <2>5
<1>5. Shape'
  BY <1>1, <1>2 DEF Shape
<1>6. Links'
  BY <1>1, <1>2 DEF Links
<1>7. FreeList'
  BY <1>2, FreeListKept
<1> QED
  BY <1>3, <1>4, <1>5, <1>6, <1>7 DEF IInv

\* destruct_compiler keeps the invariant.
LEMMA DestructCompilerIInv == IInv /\ DestructCompiler => IInv'
<1> SUFFICES ASSUME IInv, DestructCompiler PROVE IInv'
  OBVIOUS
<1>1. TypeOK /\ RefcntExact /\ Shape /\ Links /\ FreeList
  BY DEF IInv
<1>2. /\ ~interactive /\ phase \in {"idle", "evaled"}
      /\ rc' = Dec(rc, head)
      /\ phase' = IF rc'[head] = 0 THEN "closing" ELSE "done"
      /\ UNCHANGED <<prev, lb, head, interactive, cache, used, code, defs, lb_save, frames,
                     leak>>
  BY DEF DestructCompiler
<1>3. head \in LB /\ rc[head] = Need(head) + leak[head] /\ leak[head] \in Nat
  BY <1>1 DEF TypeOK, RefcntExact
<1>4. HeadRef(head) /\ \A x \in LB : HeadRef(x) <=> x = head
  BY <1>2 DEF HeadRef
<1>5. Need(head) >= 1
  BY <1>4 DEF Need, B
<1>6. rc[head] \in Nat /\ rc[head] >= 1
  BY <1>3, <1>5, NeedNat
<1>7. /\ rc' = [rc EXCEPT ![head] = rc[head] - 1] /\ rc' \in [LB -> Nat]
      /\ \A x \in LB : x # head => rc'[x] = rc[x]
  BY <1>1, <1>2, <1>3, <1>6 DEF Dec, TypeOK
<1>8. phase' \in {"closing", "done"}
  BY <1>2
<1>9. TypeOK'
  BY <1>1, <1>2, <1>7, <1>8 DEF TypeOK, Phases
<1>10. RefcntExact'
  <2> SUFFICES ASSUME NEW x \in LB PROVE rc'[x] = Need(x)' + leak'[x]
    BY DEF RefcntExact
  <2>1. /\ ~HeadRef(x)' /\ (HeadRef(x) <=> x = head)
        /\ ChainRef(x)' <=> ChainRef(x)
        /\ SaveRef(x)' <=> SaveRef(x)
    BY <1>2, <1>8 DEF HeadRef, ChainRef, AtRest, SaveRef
  <2>2. Need(x) = Need(x)' + (IF x = head THEN 1 ELSE 0)
    BY <1>2, <2>1 DEF Need, B
  <2>3. rc[x] = Need(x) + leak[x] /\ leak[x] \in Nat
    BY <1>1 DEF RefcntExact, TypeOK
  <2>4. Need(x)' \in Nat
    BY NeedNat
  <2> QED
    BY <1>1, <1>2, <1>7, <2>2, <2>3, <2>4 DEF TypeOK
<1>11. Shape'
  BY <1>1, <1>2, <1>8 DEF Shape
<1>12. Links'
  BY <1>1, <1>2, <1>8 DEF Links
<1>13. FreeList'
  <2>1. head \notin Occurs(cache) /\ Occurs(cache) \subseteq LB
    BY <1>1, <1>6, SMTT(30) DEF FreeList, CacheSound, TypeOK, Occurs
  <2>2. CacheSound'
    BY <1>1, <1>2, <1>7, <2>1 DEF FreeList, CacheSound
  <2>3. NothingLost'
    <3> SUFFICES ASSUME NEW x \in used, rc'[x] = 0
                 PROVE  x \in Occurs(cache) \/ (x = head /\ phase' = "closing")
      BY <1>2 DEF NothingLost
    <3>1. CASE x = head
      BY <1>2, <3>1
    <3>2. CASE x # head
      BY <1>1, <1>7, <3>2 DEF FreeList, NothingLost, TypeOK
    <3> QED
      BY <3>1, <3>2
  <2>4. \A x \in LB \ used' : rc'[x] = 0
    BY <1>1, <1>2, <1>7 DEF FreeList
  <2>5. phase' = "closing" => rc'[head'] = 0 /\ head' \notin Occurs(cache')
    BY <1>2, <2>1
  <2>6. phase' = "done" => rc'[head'] # 0
    BY <1>2
  <2> QED
    BY <1>1, <1>2, <2>2, <2>3, <2>4, <2>5, <2>6 DEF FreeList
<1> QED
  BY <1>9, <1>10, <1>11, <1>12, <1>13 DEF IInv

\* The destructor of a function object keeps the invariant.
LEMMA ReleaseFunctionIInv ==
    ASSUME IInv, NEW l \in LB, ReleaseFunction(l)
    PROVE  IInv'
<1>1. TypeOK /\ RefcntExact /\ Shape /\ Links /\ FreeList
  BY DEF IInv
<1>2. /\ phase = "closing" /\ phase' = "closing" /\ l \in code
      /\ code' = code \ {l} /\ rc' = Dec(rc, l)
      /\ cache' = Freed(rc', l, cache)
      /\ UNCHANGED <<prev, lb, head, interactive, used, defs, lb_save, frames, leak>>
  BY DEF ReleaseFunction
<1>3. l # head
  BY <1>1, <1>2 DEF Shape
<1>4. rc[l] # 0
  <2>1. Need(l) >= 1
    BY <1>2 DEF Need, B
  <2>2. rc[l] = Need(l) + leak[l] /\ leak[l] \in Nat
    BY <1>1 DEF RefcntExact, TypeOK
  <2> QED
    BY <2>1, <2>2, NeedNat
<1>5. /\ rc' = [rc EXCEPT ![l] = rc[l] - 1] /\ rc' \in [LB -> Nat]
      /\ cache' \in Seq(LB) /\ CacheSound' /\ NothingLost'
      /\ Occurs(cache') \subseteq Occurs(cache) \cup {l}
      /\ \A x \in LB \ used' : rc'[x] = 0
  BY <1>2, <1>4, DropFacts
<1>6. TypeOK'
  BY <1>1, <1>2, <1>5 DEF TypeOK
<1>7. RefcntExact'
  <2> SUFFICES ASSUME NEW x \in LB PROVE rc'[x] = Need(x)' + leak'[x]
    BY DEF RefcntExact
  <2>1. /\ HeadRef(x)' <=> HeadRef(x)
        /\ ChainRef(x)' <=> ChainRef(x)
        /\ SaveRef(x)' <=> SaveRef(x)
    BY <1>2 DEF HeadRef, ChainRef, AtRest, SaveRef
  <2>2. Need(x) = Need(x)' + (IF x = l THEN 1 ELSE 0)
    BY <1>2, <2>1 DEF Need, B
  <2>3. rc[x] = Need(x) + leak[x] /\ leak[x] \in Nat
    BY <1>1 DEF RefcntExact, TypeOK
  <2>4. Need(x)' \in Nat
    BY NeedNat
  <2>5. rc'[x] = (IF x = l THEN rc[x] - 1 ELSE rc[x]) /\ leak' = leak
    BY <1>1, <1>2, <1>5 DEF TypeOK
  <2> QED
    BY <2>2, <2>3, <2>4, <2>5
<1>8. Shape'
  BY <1>1, <1>2 DEF Shape
<1>9. Links'
  BY <1>1, <1>2 DEF Links
<1>10. FreeList'
  BY <1>1, <1>2, <1>3, <1>5 DEF FreeList, TypeOK
<1> QED
  BY <1>6, <1>7, <1>8, <1>9, <1>10 DEF IInv

\* The end of the head block's destructor keeps the invariant.
LEMMA ReturnHeadIInv == IInv /\ ReturnHead => IInv'
<1> SUFFICES ASSUME IInv, ReturnHead PROVE IInv'
  OBVIOUS
<1>1. TypeOK /\ RefcntExact /\ Shape /\ Links /\ FreeList
  BY DEF IInv
<1>2. /\ phase = "closing" /\ phase' = "done"
      /\ cache' = <<head>> \o cache
      /\ UNCHANGED <<rc, prev, lb, head, interactive, used, code, defs, lb_save, frames,
                     leak>>
  BY DEF ReturnHead
<1>3. ~interactive
  BY <1>1, <1>2 DEF Shape
<1>4. /\ rc[head] = 0 /\ head \notin Occurs(cache) /\ head \in used
      /\ head \in LB /\ cache \in Seq(LB) /\ Injective(cache)
  BY <1>1, <1>2 DEF FreeList, CacheSound, TypeOK
<1>5. /\ cache' \in Seq(LB) /\ Occurs(cache') = {head} \cup Occurs(cache)
      /\ Injective(cache')
  BY <1>2, <1>4, ConsFacts
<1>6. TypeOK'
  BY <1>1, <1>2, <1>5 DEF TypeOK, Phases
<1>7. RefcntExact'
  <2> SUFFICES ASSUME NEW x \in LB PROVE rc'[x] = Need(x)' + leak'[x]
    BY DEF RefcntExact
  <2>1. /\ HeadRef(x)' <=> HeadRef(x)
        /\ ChainRef(x)' <=> ChainRef(x)
        /\ SaveRef(x)' <=> SaveRef(x)
    BY <1>2, <1>3 DEF HeadRef, ChainRef, AtRest, SaveRef
  <2>2. Need(x) = Need(x)'
    BY <1>2, <2>1 DEF Need, B
  <2> QED
    BY <1>1, <1>2, <2>2 DEF RefcntExact
<1>8. Shape'
  BY <1>1, <1>2 DEF Shape
<1>9. Links'
  BY <1>1, <1>2 DEF Links
<1>10. FreeList'
  <2>1. CacheSound'
    BY <1>1, <1>2, <1>4, <1>5 DEF FreeList, CacheSound
  <2>2. NothingLost'
    BY <1>1, <1>2, <1>5 DEF FreeList, NothingLost
  <2> QED
    BY <1>1, <1>2, <2>1, <2>2 DEF FreeList
<1> QED
  BY <1>6, <1>7, <1>8, <1>9, <1>10 DEF IInv

\* The end of the process keeps the invariant.
LEMMA ExitIInv == IInv /\ Exit => IInv'
<1> SUFFICES ASSUME IInv, interactive, phase = "idle", phase' = "done",
                    UNCHANGED <<rc, prev, lb, head, interactive, cache, used, code, defs,
                                lb_save, frames, leak>>
             PROVE  IInv'
  BY StutterIInv DEF Exit
<1>1. TypeOK /\ RefcntExact /\ Shape /\ Links /\ FreeList
  BY DEF IInv
<1>2. TypeOK'
  BY <1>1 DEF TypeOK, Phases
<1>3. RefcntExact'
  BY <1>1 DEF RefcntExact, Need, B, HeadRef, ChainRef, AtRest, SaveRef
<1>4. Shape'
  BY <1>1 DEF Shape
<1>5. Links'
  BY <1>1 DEF Links
<1>6. FreeList'
  BY <1>1 DEF FreeList, CacheSound, NothingLost
<1> QED
  BY <1>2, <1>3, <1>4, <1>5, <1>6 DEF IInv

-----------------------------------------------------------------------------
(* The theorems.                                                           *)

\* Every step keeps the invariant.
LEMMA NextIInv == IInv /\ [Next]_vars => IInv'
<1> SUFFICES ASSUME IInv, [Next]_vars PROVE IInv'
  OBVIOUS
<1>1. CASE StartCompile
  BY <1>1, StartCompileIInv
<1>2. CASE \E l \in LB : EnterFunction(l)
  BY <1>2, EnterFunctionIInv
<1>3. CASE \E l \in LB : Invoke(l)
  BY <1>3, InvokeIInv
<1>4. CASE \E l \in LB : ReleaseFunction(l)
  BY <1>4, ReleaseFunctionIInv
<1>5. CASE LeaveFunction
  BY <1>5, LeaveFunctionIInv
<1>6. CASE StartEval
  BY <1>6, StartEvalIInv
<1>7. CASE EndFrame
  BY <1>7, EndFrameIInv
<1>8. CASE Quit
  BY <1>8, QuitIInv
<1>9. CASE DestructCompiler
  BY <1>9, DestructCompilerIInv
<1>10. CASE ReturnHead
  BY <1>10, ReturnHeadIInv
<1>11. CASE Exit
  BY <1>11, ExitIInv
<1>12. CASE UNCHANGED vars
  BY <1>12, StutterIInv
<1> QED
  BY <1>1, <1>2, <1>3, <1>4, <1>5, <1>6, <1>7, <1>8, <1>9, <1>10, <1>11,
     <1>12 DEF Next

\* The inductive invariant holds in every reachable state.
THEOREM Invariance == Spec => []IInv
  BY InitIInv, NextIInv, PTL DEF Spec

\* Every variable stays in its domain, for every set of addresses.
THEOREM TypeCorrect == Spec => []TypeOK
<1>1. IInv => TypeOK
  BY DEF IInv
<1> QED
  BY Invariance, <1>1, PTL

\* Every count is the number of references there are, plus what quits leaked:
\* the INC_REF and DEC_REF of compiler and VM balance on every path.
THEOREM CountsAreExact == Spec => []RefcntExact
<1>1. IInv => RefcntExact
  BY DEF IInv
<1> QED
  BY Invariance, <1>1, PTL

\* The free list has no block twice and no block that has references, and
\* every block without references is on it.
THEOREM FreeListCorrect == Spec => [](CacheSound /\ NothingLost)
<1>1. IInv => CacheSound /\ NothingLost
  BY DEF IInv, FreeList
<1> QED
  BY Invariance, <1>1, PTL

\* Every block that was ever allocated and has no references is on the free
\* list: none leaks, however the functions, calls and quits of a program nest.
THEOREM NoBlockLost == Spec => []NothingLost
<1>1. IInv => NothingLost
  BY DEF IInv, FreeList
<1> QED
  BY Invariance, <1>1, PTL

\* No block the program can still reach is on the free list.
THEOREM NothingDangles == Spec => []NoDangling
<1>1. IInv => NoDangling
  <2> SUFFICES ASSUME IInv, phase \notin {"closing", "done"},
                      NEW l \in Reachable
               PROVE  l \notin Occurs(cache)
    BY DEF NoDangling
  <2>1. TypeOK /\ RefcntExact /\ Shape /\ Links /\ CacheSound
    BY DEF IInv, FreeList
  <2>2. lb \in Occurs(frames) \cup Occurs(defs)
    <3>1. CASE defs = <<>>
      <4>1. lb = Top(frames)
        BY <2>1, <3>1 DEF Links
      <4> QED
        BY <2>1, <4>1, PopFacts DEF TypeOK, Shape
    <3>2. CASE defs # <<>>
      <4>1. lb = Top(defs) /\ Len(defs) > 0
        BY <2>1, <3>2 DEF Links, TypeOK
      <4> QED
        BY <2>1, <4>1, PopFacts DEF TypeOK, Shape
    <3> QED
      BY <3>1, <3>2
  <2>3. l \in code \/ l \in Occurs(defs) \/ l \in Occurs(frames)
          \/ (phase = "eval" /\ l = lb_save)
    BY <2>2 DEF Reachable
  <2>4. l \in LB
    <3>1. /\ code \subseteq LB
          /\ Occurs(defs) \subseteq LB /\ Occurs(frames) \subseteq LB
          /\ phase = "eval" => lb_save \in LB
      BY <2>1, OccursIn DEF TypeOK, Shape
    <3> QED
      BY <2>3, <3>1
  <2>5. HeadRef(l) \/ l \in code \/ l \in Occurs(defs) \/ ChainRef(l)
          \/ SaveRef(l)
    BY <2>3 DEF HeadRef, ChainRef, SaveRef
  <2>6. Need(l) >= 1
    BY <2>5 DEF Need, B
  <2>7. rc[l] # 0
    BY <2>1, <2>4, <2>6, NeedNat, SMTT(30) DEF RefcntExact, TypeOK
  <2> QED
    BY <2>1, <2>7 DEF CacheSound
<1> QED
  BY Invariance, <1>1, PTL

\* The prev pointers from c->lb down are the stack of calls and definitions.
THEOREM PrevIsTheCallStack == Spec => []ChainIsStack
<1>1. IInv => ChainIsStack
  <2> SUFFICES ASSUME IInv PROVE ChainIsStack
    OBVIOUS
  <2>1. /\ frames \in Seq(LB) /\ defs \in Seq(LB)
        /\ Len(frames) \in Nat /\ Len(defs) \in Nat /\ Len(frames) > 0
        /\ Injective(frames) /\ Injective(defs)
        /\ Occurs(frames) \cap Occurs(defs) = {}
        /\ lb = IF defs = <<>> THEN Top(frames) ELSE Top(defs)
        /\ Linked(prev, frames, NULL) /\ Linked(prev, defs, Top(frames))
    <3>1. TypeOK /\ Shape /\ Links
      BY DEF IInv
    <3>2. frames \in Seq(LB) /\ defs \in Seq(LB)
      BY <3>1 DEF TypeOK
    <3>3. Len(frames) \in Nat /\ Len(defs) \in Nat
      BY <3>2
    <3> QED
      BY <3>1, <3>2, <3>3 DEF Shape, Links
  <2>2. /\ Len(Chain) = Len(frames) + Len(defs)
        /\ \A i \in 1..Len(frames) + Len(defs) :
             Chain[i] = IF i <= Len(frames) THEN frames[i]
                        ELSE defs[i - Len(frames)]
    BY <2>1, ConcatProperties DEF Chain
  <2>3. lb = Top(Chain)
    <3>1. CASE defs = <<>>
      BY <2>1, <2>2, <3>1 DEF Top
    <3>2. CASE defs # <<>>
      <4>1. Len(defs) > 0
        BY <2>1, <3>2
      <4> QED
        BY <2>1, <2>2, <3>2, <4>1 DEF Top
    <3> QED
      BY <3>1, <3>2
  <2>4. prev[Chain[1]] = NULL
    BY <2>1, <2>2 DEF Linked
  <2>5. ASSUME NEW i \in 2..Len(Chain)
        PROVE  prev[Chain[i]] = Chain[i - 1]
    <3> DEFINE m == Len(frames)
               n == Len(defs)
    <3>1. m \in Nat /\ n \in Nat /\ m > 0 /\ i \in 2..m + n
      BY <2>1, <2>2
    <3>2. /\ \A k \in 1..m : Chain[k] = frames[k]
          /\ \A k \in m + 1..m + n : Chain[k] = defs[k - m]
      BY <2>1, <2>2
    <3>3. /\ \A k \in 2..m : prev[frames[k]] = frames[k - 1]
          /\ \A k \in 2..n : prev[defs[k]] = defs[k - 1]
          /\ n > 0 => prev[defs[1]] = frames[m]
      BY <2>1 DEF Linked, Top
    <3> HIDE DEF m, n
    <3>4. CASE i \in 2..m
      <4>1. i \in 1..m /\ i - 1 \in 1..m
        BY <3>1, <3>4
      <4> QED
        BY <3>2, <3>3, <3>4, <4>1
    <3>5. CASE i = m + 1
      <4>1. i \in m + 1..m + n /\ i - m = 1 /\ i - 1 = m /\ m \in 1..m /\ n > 0
        BY <3>1, <3>5
      <4> QED
        BY <3>2, <3>3, <4>1
    <3>6. CASE i \in m + 2..m + n
      <4>1. /\ i \in m + 1..m + n /\ i - 1 \in m + 1..m + n
            /\ i - m \in 2..n /\ (i - 1) - m = (i - m) - 1
        BY <3>1, <3>6
      <4> QED
        BY <3>2, <3>3, <4>1
    <3>7. i \in 2..m \/ i = m + 1 \/ i \in m + 2..m + n
      BY <3>1
    <3> QED
      BY <3>4, <3>5, <3>6, <3>7
  <2>6. Injective(Chain)
    <3> SUFFICES ASSUME NEW i \in 1..Len(Chain), NEW j \in 1..Len(Chain),
                        Chain[i] = Chain[j]
                 PROVE  i = j
      BY DEF Injective
    <3>1. ASSUME NEW k \in 1..Len(Chain)
          PROVE  /\ k <= Len(frames) => Chain[k] \in Occurs(frames)
                 /\ k > Len(frames) => Chain[k] \in Occurs(defs)
      BY <2>1, <2>2 DEF Occurs
    <3>2. CASE i <= Len(frames) /\ j <= Len(frames)
      BY <2>1, <2>2, <3>2 DEF Injective
    <3>3. CASE i > Len(frames) /\ j > Len(frames)
      <4>1. /\ i - Len(frames) \in 1..Len(defs)
            /\ j - Len(frames) \in 1..Len(defs)
            /\ defs[i - Len(frames)] = defs[j - Len(frames)]
        BY <2>1, <2>2, <3>3
      <4>2. i - Len(frames) = j - Len(frames)
        BY <2>1, <4>1 DEF Injective
      <4> QED
        BY <2>1, <2>2, <4>2
    <3>4. CASE i <= Len(frames) /\ j > Len(frames)
      BY <2>1, <3>1, <3>4
    <3>5. CASE i > Len(frames) /\ j <= Len(frames)
      BY <2>1, <3>1, <3>5
    <3> QED
      BY <2>1, <2>2, <3>2, <3>3, <3>4, <3>5
  <2> QED
    BY <2>1, <2>3, <2>4, <2>5, <2>6 DEF ChainIsStack
<1> QED
  BY Invariance, <1>1, PTL

\* A run to the end of the file returns every block to the free list, those of
\* the functions that outlive it excepted.
THEOREM EverythingReturned == Spec => []AllReturned
<1>1. IInv => AllReturned
  <2> SUFFICES ASSUME IInv, phase = "done", ~interactive, frames = <<head>>,
                      \A l \in LB : leak[l] = 0
               PROVE  Occurs(cache) = used \ code
    BY DEF AllReturned
  <2>1. TypeOK /\ RefcntExact /\ Shape /\ FreeList
    BY DEF IInv
  <2>2. Occurs(frames) = {head} /\ Occurs(defs) = {}
    BY <2>1, ShortFacts DEF Shape
  <2>3. \A l \in LB : ~HeadRef(l) /\ ~ChainRef(l) /\ ~SaveRef(l)
    BY <2>2 DEF HeadRef, ChainRef, AtRest, SaveRef
  <2>4. ASSUME NEW l \in LB
        PROVE  rc[l] = 0 <=> l \notin code
    <3>1. ~HeadRef(l) /\ ~ChainRef(l) /\ ~SaveRef(l) /\ l \notin Occurs(defs)
      BY <2>2, <2>3
    <3>2. Need(l) = IF l \in code THEN 1 ELSE 0
      BY <3>1 DEF Need, B
    <3>3. rc[l] = Need(l) + leak[l] /\ leak[l] = 0
      BY <2>1 DEF RefcntExact
    <3>4. CASE l \in code
      BY <3>2, <3>3, <3>4
    <3>5. CASE l \notin code
      BY <3>2, <3>3, <3>5
    <3> QED
      BY <3>4, <3>5
  <2>5. \A l \in LB : rc[l] = 0 <=> l \notin code
    BY <2>4
  <2>6. used \subseteq LB /\ cache \in Seq(LB) /\ Occurs(cache) \subseteq LB
    BY <2>1, OccursIn DEF TypeOK
  <2>7. used \ code \subseteq Occurs(cache)
    BY <2>1, <2>5, <2>6 DEF FreeList, NothingLost
  <2>8. Occurs(cache) \subseteq used \ code
    BY <2>1, <2>5, <2>6 DEF FreeList, CacheSound
  <2> QED
    BY <2>7, <2>8
<1> QED
  BY Invariance, <1>1, PTL

\* INVOKE never gets a block that something still needs.
THEOREM FramesAreFresh == Spec => FreshFrame
<1> DEFINE Fresh == Len(frames') > Len(frames) =>
                      Need(Top(frames')) = 0 /\ rc[Top(frames')] = 0
<1>1. IInv /\ [Next]_vars => [Fresh]_vars
  <2> SUFFICES ASSUME IInv, Next, Len(frames') > Len(frames)
               PROVE  Need(Top(frames')) = 0 /\ rc[Top(frames')] = 0
    OBVIOUS
  <2>1. /\ frames \in Seq(LB) /\ Len(frames) \in Nat /\ Len(frames) > 0
        /\ Injective(frames)
    BY DEF IInv, TypeOK, Shape
  <2>2. ASSUME NEW l \in LB, Invoke(l)
        PROVE  Need(Top(frames')) = 0 /\ rc[Top(frames')] = 0
    <3>1. frames' = Append(frames, l) /\ phase = "eval" /\ Borrow(l)
      BY <2>2 DEF Invoke
    <3>2. Top(frames') = l
      BY <2>1, <3>1, AppendFacts
    <3> QED
      BY <3>1, <3>2, BorrowFacts, ZeroIsFree
  <2>3. ~EndFrame
    <3>1. ASSUME EndFrame PROVE FALSE
      <4>1. frames' = <<lb_save>> \/ frames' = Pop(frames)
        BY <3>1 DEF EndFrame
      <4>2. Len(frames') = 1 \/ Len(frames') = Len(frames) - 1
        BY <2>1, <4>1, PopFacts, ShortFacts
      <4>3. \A n \in Nat : n > 0 => ~(1 > n) /\ ~(n - 1 > n)
        OBVIOUS
      <4> QED
        BY <2>1, <4>2, <4>3
    <3> QED
      BY <3>1
  <2>4. frames' # frames
    BY <2>1
  <2> QED
    BY <2>2, <2>3, <2>4
       DEF Next, StartCompile, EnterFunction, ReleaseFunction, LeaveFunction,
           StartEval, Quit, DestructCompiler, ReturnHead, Exit, vars
<1> QED
  BY Invariance, <1>1, PTL DEF Spec, FreshFrame
=============================================================================
