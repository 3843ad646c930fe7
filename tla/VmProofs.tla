------------------------------- MODULE VmProofs -------------------------------
(***************************************************************************)
(* Proofs about CodeGen and Vm.                                            *)
(*                                                                         *)
(* The visitors keep what is left of them in todo, so that no induction on *)
(* trees is needed: an invariant says of each item in todo in which state  *)
(* it will find the compiler and in which it will leave it.                *)
(***************************************************************************)
EXTENDS VmFlow, SharedLemmas, TLAPS

-----------------------------------------------------------------------------
(* Sequences of anything: values are not of one set. *)

IsSeq(s) == s \in Seq({s[x] : x \in DOMAIN s})

LEMMA SeqIs ==
    ASSUME NEW S, NEW s \in Seq(S)
    PROVE  IsSeq(s) /\ Len(s) \in Nat /\ DOMAIN s = 1..Len(s)
           /\ \A i \in 1..Len(s) : s[i] \in S
<1>1. Len(s) \in Nat /\ DOMAIN s = 1..Len(s)
  BY LenProperties
<1>2. s \in [1..Len(s) -> {s[x] : x \in DOMAIN s}]
  BY <1>1, LenProperties
<1>3. s \in Seq({s[x] : x \in DOMAIN s})
  BY <1>1, <1>2, SeqDef
<1> QED
  BY <1>1, <1>3, ElementOfSeq DEF IsSeq

LEMMA IsSeqFacts ==
    ASSUME NEW s, IsSeq(s)
    PROVE  Len(s) \in Nat /\ DOMAIN s = 1..Len(s)
<1> QED
  BY SeqIs DEF IsSeq

LEMMA IsSeqIn ==
    ASSUME NEW s, IsSeq(s), NEW S, \A i \in 1..Len(s) : s[i] \in S
    PROVE  s \in Seq(S)
<1>1. Len(s) \in Nat /\ s \in [1..Len(s) -> {s[x] : x \in DOMAIN s}]
  BY LenProperties DEF IsSeq
<1>2. s \in [1..Len(s) -> S]
  BY <1>1
<1> QED
  BY <1>1, <1>2, SeqDef

LEMMA ConcatIs ==
    ASSUME NEW s, IsSeq(s), NEW t, IsSeq(t)
    PROVE  /\ IsSeq(s \o t) /\ Len(s \o t) = Len(s) + Len(t)
           /\ \A i \in 1..Len(s) : (s \o t)[i] = s[i]
           /\ \A i \in 1..Len(t) : (s \o t)[Len(s) + i] = t[i]
<1> DEFINE S == {s[x] : x \in DOMAIN s} \cup {t[x] : x \in DOMAIN t}
<1>1. s \in Seq(S) /\ t \in Seq(S)
  BY SeqMonotonic DEF IsSeq
<1> HIDE DEF S
<1>2. Len(s) \in Nat /\ Len(t) \in Nat
  BY IsSeqFacts
<1>3. /\ s \o t \in Seq(S) /\ Len(s \o t) = Len(s) + Len(t)
      /\ \A i \in 1..Len(s) + Len(t) : (s \o t)[i] = IF i <= Len(s) THEN s[i] ELSE t[i - Len(s)]
  BY <1>1, ConcatProperties
<1>4. IsSeq(s \o t)
  BY <1>3, SeqIs, Zenon
<1> QED
  BY <1>2, <1>3, <1>4

LEMMA OneIs ==
    ASSUME NEW v
    PROVE  IsSeq(<<v>>) /\ Len(<<v>>) = 1 /\ <<v>>[1] = v
<1>1. <<v>> \in Seq({v})
  OBVIOUS
<1> QED
  BY <1>1, SeqIs

LEMMA AppendIs ==
    ASSUME NEW s, IsSeq(s), NEW v
    PROVE  /\ IsSeq(Append(s, v)) /\ Len(Append(s, v)) = Len(s) + 1
           /\ \A i \in 1..Len(s) : Append(s, v)[i] = s[i]
           /\ Append(s, v)[Len(s) + 1] = v
<1> DEFINE S == {s[x] : x \in DOMAIN s} \cup {v}
<1>1. s \in Seq(S) /\ v \in S
  BY SeqMonotonic DEF IsSeq
<1> HIDE DEF S
<1>2. /\ Append(s, v) \in Seq(S) /\ Len(Append(s, v)) = Len(s) + 1
      /\ \A i \in 1..Len(s) : Append(s, v)[i] = s[i]
      /\ Append(s, v)[Len(s) + 1] = v
  BY <1>1, AppendProperties
<1>3. IsSeq(Append(s, v))
  BY <1>2, SeqIs, Zenon
<1> QED
  BY <1>2, <1>3

LEMMA SubSeqIs ==
    ASSUME NEW s, IsSeq(s), NEW m \in Nat \ {0}, NEW n \in 0..Len(s), m <= n + 1
    PROVE  /\ IsSeq(SubSeq(s, m, n)) /\ Len(SubSeq(s, m, n)) = n + 1 - m
           /\ \A i \in 1..n + 1 - m : SubSeq(s, m, n)[i] = s[m + i - 1]
<1> DEFINE S == {s[x] : x \in DOMAIN s}
<1>1. Len(s) \in Nat /\ DOMAIN s = 1..Len(s)
  BY IsSeqFacts
<1>2. \A i \in m..n : s[i] \in S
  BY <1>1
<1> HIDE DEF S
<1>3. m \in Int /\ n \in Int
  BY <1>1
<1>4. /\ SubSeq(s, m, n) \in Seq(S)
      /\ Len(SubSeq(s, m, n)) = IF m <= n THEN n - m + 1 ELSE 0
      /\ \A i \in 1..n - m + 1 : SubSeq(s, m, n)[i] = s[m + i - 1]
  BY <1>2, <1>3, SubSeqProperties
<1>5. IsSeq(SubSeq(s, m, n))
  BY <1>4, SeqIs, Zenon
<1> QED
  BY <1>1, <1>3, <1>4, <1>5

LEMMA ExceptIs ==
    ASSUME NEW s, IsSeq(s), NEW x \in 1..Len(s), NEW v
    PROVE  /\ IsSeq([s EXCEPT ![x] = v]) /\ Len([s EXCEPT ![x] = v]) = Len(s)
           /\ \A i \in 1..Len(s) : [s EXCEPT ![x] = v][i] = IF i = x THEN v ELSE s[i]
<1> DEFINE S == {s[i] : i \in DOMAIN s} \cup {v}
<1>1. s \in Seq(S) /\ v \in S
  BY SeqMonotonic DEF IsSeq
<1> HIDE DEF S
<1>2. /\ [s EXCEPT ![x] = v] \in Seq(S) /\ Len([s EXCEPT ![x] = v]) = Len(s)
      /\ \A i \in 1..Len(s) : [s EXCEPT ![x] = v][i] = IF i = x THEN v ELSE s[i]
  BY <1>1, ExceptSeq
<1>3. IsSeq([s EXCEPT ![x] = v])
  BY <1>2, SeqIs, Zenon
<1> QED
  BY <1>2, <1>3

LEMMA TailIs ==
    ASSUME NEW s, IsSeq(s), s # <<>>
    PROVE  /\ IsSeq(Tail(s)) /\ Len(Tail(s)) = Len(s) - 1 /\ Len(s) >= 1 /\ Head(s) = s[1]
           /\ \A i \in 1..Len(s) - 1 : Tail(s)[i] = s[i + 1]
<1> DEFINE S == {s[x] : x \in DOMAIN s}
<1>1. s \in Seq(S)
  BY DEF IsSeq
<1> HIDE DEF S
<1>2. Tail(s) \in Seq(S) /\ Len(Tail(s)) = Len(s) - 1 /\ \A i \in 1..Len(Tail(s)) : Tail(s)[i] = s[i + 1]
  BY <1>1, HeadTailProperties
<1>3. Len(s) \in Nat \ {0} /\ Head(s) = s[1]
  BY <1>1, EmptySeq
<1>4. IsSeq(Tail(s))
  BY <1>2, SeqIs, Zenon
<1> QED
  BY <1>2, <1>3, <1>4

\* An instruction is put in front of others one by one.
LEMMA EmptyIs == IsSeq(<<>>) /\ Len(<<>>) = 0
<1>1. <<>> \in Seq({})
  OBVIOUS
<1> QED
  BY <1>1, SeqIs

LEMMA ConcatEmpty ==
    ASSUME NEW t, IsSeq(t)
    PROVE  <<>> \o t = t /\ t \o <<>> = t
<1> QED
  BY ConcatEmptySeq DEF IsSeq

LEMMA ConcatAll ==
    ASSUME NEW s, IsSeq(s), NEW t, IsSeq(t), NEW u, IsSeq(u)
    PROVE  (s \o t) \o u = s \o (t \o u)
<1> DEFINE S == {s[x] : x \in DOMAIN s} \cup {t[x] : x \in DOMAIN t} \cup {u[x] : x \in DOMAIN u}
<1>1. s \in Seq(S) /\ t \in Seq(S) /\ u \in Seq(S)
  BY SeqMonotonic DEF IsSeq
<1> HIDE DEF S
<1> QED
  BY <1>1, ConcatAssociative

-----------------------------------------------------------------------------
(* Values and code. *)

\* A function value is one of the n function objects.
Val(v, n) == v.t = "fn" => v.v \in 1..n
Vals(s, n) == IsSeq(s) /\ \A i \in 1..Len(s) : Val(s[i], n)
ValMap(map, n) == \A x \in DOMAIN map : Val(map[x], n)

OnConst == {"PUSH", "LOAD_NAME", "STORE_NAME"}
Jumping == {"JUMP", "JUMP_TRUE", "JUMP_FALSE"}
Binary == {"ADD", "SUB", "MUL", "DIV", "EQ", "NE", "LT", "GT", "LE", "GE"}
Plain == Binary \cup {"DUP", "POP", "PRINT"}
Instruction ==
    [op : Plain] \cup [op : OnConst \cup {"INVOKE"}, arg : Nat] \cup [op : Jumping, to : Nat]
CodeBlock == [code : Seq(Instruction), next : Nat]

(***************************************************************************)
(* What instructions and items refer to, E: the constant list of each code *)
(* block (own), the length of each constant list (size), the number of     *)
(* function objects (n).  All of it only grows.                            *)
(***************************************************************************)
Tables == UNION {[1..m -> Nat] : m \in Nat}
Env == [own : Tables, size : Tables, n : Nat]

Grows(E, F) ==
    /\ DOMAIN E.own \subseteq DOMAIN F.own /\ \A b \in DOMAIN E.own : F.own[b] = E.own[b]
    /\ DOMAIN E.size \subseteq DOMAIN F.size /\ \A c \in DOMAIN E.size : F.size[c] >= E.size[c]
    /\ F.n >= E.n

LEMMA EnvType ==
    ASSUME NEW E \in Env
    PROVE  /\ E.n \in Nat
           /\ \A c \in DOMAIN E.size : c \in Nat /\ E.size[c] \in Nat
           /\ \A b \in DOMAIN E.own : b \in Nat \ {0} /\ E.own[b] \in Nat
<1>1. PICK m \in Nat : E.own \in [1..m -> Nat]
  BY DEF Env, Tables
<1>2. PICK j \in Nat : E.size \in [1..j -> Nat]
  BY DEF Env, Tables
<1> QED
  BY <1>1, <1>2 DEF Env

LEMMA GrowsTwice ==
    ASSUME NEW E \in Env, NEW F \in Env, NEW G \in Env, Grows(E, F), Grows(F, G)
    PROVE  Grows(E, G)
<1>1. /\ DOMAIN E.own \subseteq DOMAIN G.own /\ \A b \in DOMAIN E.own : G.own[b] = E.own[b]
  BY DEF Grows
<1>2. DOMAIN E.size \subseteq DOMAIN G.size
  BY DEF Grows
<1>3. ASSUME NEW c \in DOMAIN E.size PROVE G.size[c] >= E.size[c]
  <2>1. c \in DOMAIN F.size /\ F.size[c] >= E.size[c] /\ G.size[c] >= F.size[c]
    BY DEF Grows
  <2>2. E.size[c] \in Nat /\ F.size[c] \in Nat /\ G.size[c] \in Nat
    BY <1>2, <2>1, EnvType
  <2> QED
    BY <2>1, <2>2
<1>4. G.n >= E.n
  BY EnvType DEF Grows
<1> QED
  BY <1>1, <1>2, <1>3, <1>4 DEF Grows

\* An instruction of a block whose constants are the list c.
Fitting(ins, c, E) ==
    /\ ins \in Instruction
    /\ ins.op \in OnConst => ins.arg \in 1..E.size[c]
    /\ ins.op \in Jumping => ins.to \in DOMAIN E.own /\ E.own[ins.to] = c

ExpKinds == {"lit", "id", "op", "fn", "call"}
StmKinds == {"exp", "print", "block", "assign", "inc", "dec", "if", "for"}
Kinds == ExpKinds \cup StmKinds \cup {"emit", "const", "store", "next", "list", "leave", "to", "do"}

\* The item x finds c for c->lb->consts and leaves e.
FitItem(x, c, e, E) ==
    /\ x.k \in Kinds /\ c \in DOMAIN E.size
    /\ x.k \in ExpKinds => x \in Exps
    /\ x.k \in StmKinds => x \in Stms
    /\ x.k = "list" => x.body \in Seq(Stms)
    /\ x.k = "emit" => Fitting(x.ins, c, E)
    /\ x.k = "const" => x.op \in {"PUSH", "LOAD_NAME"} /\ Val(x.v, E.n)
    /\ x.k = "store" => Val(x.v, E.n)
    /\ x.k = "next" => x.b \in DOMAIN E.own /\ E.own[x.b] = c
    /\ x.k \in {"to", "do"} => x.for \in Stms /\ x.for.k = "for"
    /\ x.k = "do" => x.to_block \in DOMAIN E.own /\ E.own[x.to_block] = c
    /\ x.k = "leave" => /\ x.cb \in DOMAIN E.own /\ E.own[x.cb] = x.cs /\ x.cs \in DOMAIN E.size
                        /\ x.f.blk \in DOMAIN E.own /\ E.own[x.f.blk] = x.f.cs
                        /\ x.f.cs \in DOMAIN E.size /\ x.f.ps \in Seq(STRING)
    /\ e = IF x.k = "leave" THEN x.cs ELSE c

\* The items t, one after the other, begin with the list c.
Fit(t, c, E) ==
    /\ IsSeq(t) /\ c \in DOMAIN E.size
    /\ \E cl \in [1..Len(t) + 1 -> Nat] :
           cl[1] = c /\ \A j \in 1..Len(t) : FitItem(t[j], cl[j], cl[j + 1], E)

LEMMA FitEmpty ==
    ASSUME NEW E \in Env, NEW c \in DOMAIN E.size
    PROVE  Fit(<<>>, c, E)
<1>1. c \in Nat
  BY EnvType
<1> DEFINE cl == [j \in 1..1 |-> c]
<1>2. cl \in [1..0 + 1 -> Nat] /\ cl[1] = c /\ \A j \in 1..0 : FitItem(<<>>[j], cl[j], cl[j + 1], E)
  BY <1>1
<1> HIDE DEF cl
<1>3. cl \in [1..Len(<<>>) + 1 -> Nat] /\ \A j \in 1..Len(<<>>) : FitItem(<<>>[j], cl[j], cl[j + 1], E)
  BY <1>2, EmptyIs
<1> QED
  BY <1>2, <1>3, EmptyIs DEF Fit

LEMMA FitCons ==
    ASSUME NEW E \in Env, NEW x, NEW t, NEW c, NEW e, FitItem(x, c, e, E), Fit(t, e, E)
    PROVE  Fit(<<x>> \o t, c, E)
<1>1. PICK cl \in [1..Len(t) + 1 -> Nat] :
          cl[1] = e /\ \A j \in 1..Len(t) : FitItem(t[j], cl[j], cl[j + 1], E)
  BY DEF Fit
<1>2. /\ IsSeq(<<x>> \o t) /\ Len(<<x>> \o t) = 1 + Len(t) /\ (<<x>> \o t)[1] = x
      /\ \A i \in 1..Len(t) : (<<x>> \o t)[1 + i] = t[i]
  BY OneIs, ConcatIs DEF Fit
<1>3. Len(t) \in Nat /\ c \in Nat /\ c \in DOMAIN E.size
  BY IsSeqFacts, EnvType DEF Fit, FitItem
<1> DEFINE u == <<x>> \o t
           m == Len(t)
           dl == [j \in 1..m + 2 |-> IF j = 1 THEN c ELSE cl[j - 1]]
<1>4. dl \in [1..m + 2 -> Nat] /\ dl[1] = c /\ dl[2] = e
  BY <1>1, <1>3
<1>5. ASSUME NEW j \in 1..m + 1 PROVE FitItem(u[j], dl[j], dl[j + 1], E)
  <2>1. CASE j = 1
    BY <1>2, <1>4, <2>1
  <2>2. CASE j # 1
    <3>1. j - 1 \in 1..m /\ j = 1 + (j - 1)
      BY <1>3, <2>2
    <3>2. u[j] = t[j - 1] /\ dl[j] = cl[j - 1] /\ dl[j + 1] = cl[j]
      BY <1>2, <1>3, <2>2, <3>1
    <3> QED
      BY <1>1, <3>1, <3>2
  <2> QED
    BY <2>1, <2>2
<1>6. Len(u) = m + 1 /\ Len(u) + 1 = m + 2 /\ IsSeq(u)
  BY <1>2, <1>3
<1> HIDE DEF u, m, dl
<1>7. dl \in [1..Len(u) + 1 -> Nat] /\ \A j \in 1..Len(u) : FitItem(u[j], dl[j], dl[j + 1], E)
  BY <1>4, <1>5, <1>6
<1>8. Fit(u, c, E)
  BY <1>3, <1>4, <1>6, <1>7 DEF Fit
<1> QED
  BY <1>8 DEF u

LEMMA FitHead ==
    ASSUME NEW E \in Env, NEW t, NEW c, Fit(t, c, E), t # <<>>
    PROVE  \E e : FitItem(Head(t), c, e, E) /\ Fit(Tail(t), e, E)
<1>1. PICK cl \in [1..Len(t) + 1 -> Nat] :
          cl[1] = c /\ \A j \in 1..Len(t) : FitItem(t[j], cl[j], cl[j + 1], E)
  BY DEF Fit
<1>2. /\ IsSeq(Tail(t)) /\ Len(Tail(t)) = Len(t) - 1 /\ Len(t) >= 1 /\ Head(t) = t[1]
      /\ \A i \in 1..Len(t) - 1 : Tail(t)[i] = t[i + 1]
  BY TailIs DEF Fit
<1>3. Len(t) \in Nat
  BY IsSeqFacts DEF Fit
<1> DEFINE u == Tail(t)
           m == Len(t)
           dl == [j \in 1..m |-> cl[j + 1]]
<1>4. FitItem(Head(t), c, cl[2], E)
  BY <1>1, <1>2, <1>3
<1>5. dl \in [1..m -> Nat] /\ dl[1] = cl[2]
  BY <1>1, <1>2, <1>3
<1>6. ASSUME NEW j \in 1..m - 1 PROVE FitItem(u[j], dl[j], dl[j + 1], E)
  <2>1. j + 1 \in 1..m /\ j \in 1..m
    BY <1>3
  <2>2. u[j] = t[j + 1] /\ dl[j] = cl[j + 1] /\ dl[j + 1] = cl[(j + 1) + 1]
    BY <1>2, <2>1
  <2> QED
    BY <1>1, <2>1, <2>2
<1>7. Len(u) = m - 1 /\ Len(u) + 1 = m /\ IsSeq(u)
  BY <1>2, <1>3
<1> HIDE DEF u, m, dl
<1>8. dl \in [1..Len(u) + 1 -> Nat] /\ \A j \in 1..Len(u) : FitItem(u[j], dl[j], dl[j + 1], E)
  BY <1>5, <1>6, <1>7
<1>9. cl[2] \in DOMAIN E.size
  BY <1>4 DEF FitItem
<1>10. Fit(u, cl[2], E)
  BY <1>5, <1>7, <1>8, <1>9 DEF Fit
<1> QED
  BY <1>4, <1>10 DEF u

LEMMA FittingGrows ==
    ASSUME NEW E \in Env, NEW F \in Env, Grows(E, F), NEW c \in DOMAIN E.size, NEW ins, Fitting(ins, c, E)
    PROVE  Fitting(ins, c, F)
<1>1. E.size[c] \in Nat /\ F.size[c] \in Nat /\ F.size[c] >= E.size[c]
  BY EnvType DEF Grows
<1>2. ins.op \in OnConst => ins.arg \in 1..F.size[c]
  <2>1. 1..E.size[c] \subseteq 1..F.size[c]
    BY <1>1
  <2> QED
    BY <2>1 DEF Fitting
<1>3. ins.op \in Jumping => ins.to \in DOMAIN F.own /\ F.own[ins.to] = c
  BY DEF Fitting, Grows
<1> QED
  BY <1>2, <1>3 DEF Fitting

LEMMA ValGrows ==
    ASSUME NEW m \in Nat, NEW n \in Nat, n >= m, NEW v, Val(v, m)
    PROVE  Val(v, n)
<1>1. 1..m \subseteq 1..n
  OBVIOUS
<1> QED
  BY <1>1 DEF Val

LEMMA FitItemGrows ==
    ASSUME NEW E \in Env, NEW F \in Env, Grows(E, F), NEW x, NEW c, NEW e, FitItem(x, c, e, E)
    PROVE  FitItem(x, c, e, F)
<1>1. c \in DOMAIN E.size /\ c \in DOMAIN F.size
  BY DEF FitItem, Grows
<1>2. x.k = "emit" => Fitting(x.ins, c, F)
  BY <1>1, FittingGrows DEF FitItem
<1>3. x.k \in {"const", "store"} => Val(x.v, F.n)
  <2>1. E.n \in Nat /\ F.n \in Nat /\ F.n >= E.n
    BY EnvType DEF Grows
  <2>2. x.k \in {"const", "store"} => Val(x.v, E.n)
    BY DEF FitItem
  <2> QED
    BY <2>1, <2>2, ValGrows
<1>4. /\ x.k = "next" => x.b \in DOMAIN F.own /\ F.own[x.b] = c
      /\ x.k = "do" => x.to_block \in DOMAIN F.own /\ F.own[x.to_block] = c
  BY DEF FitItem, Grows
<1>5. x.k = "leave" => /\ x.cb \in DOMAIN F.own /\ F.own[x.cb] = x.cs /\ x.cs \in DOMAIN F.size
                       /\ x.f.blk \in DOMAIN F.own /\ F.own[x.f.blk] = x.f.cs
                       /\ x.f.cs \in DOMAIN F.size /\ x.f.ps \in Seq(STRING)
  BY DEF FitItem, Grows
<1> QED
  BY <1>1, <1>2, <1>3, <1>4, <1>5 DEF FitItem

LEMMA FitGrows ==
    ASSUME NEW E \in Env, NEW F \in Env, Grows(E, F), NEW t, NEW c, Fit(t, c, E)
    PROVE  Fit(t, c, F)
<1>1. PICK cl \in [1..Len(t) + 1 -> Nat] :
          cl[1] = c /\ \A j \in 1..Len(t) : FitItem(t[j], cl[j], cl[j + 1], E)
  BY DEF Fit
<1>2. ASSUME NEW j \in 1..Len(t) PROVE FitItem(t[j], cl[j], cl[j + 1], F)
  BY <1>1, FitItemGrows
<1>3. c \in DOMAIN F.size
  BY DEF Fit, Grows
<1> QED
  BY <1>1, <1>2, <1>3 DEF Fit

\* Items of one kind of state: each finds and leaves the list c.
LEMMA FitAll ==
    ASSUME NEW E \in Env, NEW c, NEW s, IsSeq(s), NEW t, Fit(t, c, E),
           \A i \in 1..Len(s) : FitItem(s[i], c, c, E)
    PROVE  Fit(s \o t, c, E)
<1>1. PICK cl \in [1..Len(t) + 1 -> Nat] :
          cl[1] = c /\ \A j \in 1..Len(t) : FitItem(t[j], cl[j], cl[j + 1], E)
  BY DEF Fit
<1>2. /\ IsSeq(s \o t) /\ Len(s \o t) = Len(s) + Len(t)
      /\ \A i \in 1..Len(s) : (s \o t)[i] = s[i]
      /\ \A i \in 1..Len(t) : (s \o t)[Len(s) + i] = t[i]
  BY ConcatIs DEF Fit
<1>3. Len(s) \in Nat /\ Len(t) \in Nat /\ c \in Nat
  BY IsSeqFacts, EnvType DEF Fit
<1> DEFINE u == s \o t
           m == Len(s)
           n == Len(t)
           dl == [j \in 1..m + n + 1 |-> IF j <= m THEN c ELSE cl[j - m]]
<1>4. dl \in [1..m + n + 1 -> Nat] /\ dl[1] = c
  BY <1>1, <1>3
<1>5. ASSUME NEW j \in 1..m + n PROVE FitItem(u[j], dl[j], dl[j + 1], E)
  <2>1. CASE j <= m
    <3>1. u[j] = s[j] /\ j \in 1..m
      BY <1>2, <1>3, <2>1
    <3>2. dl[j] = c
      BY <1>3, <2>1
    <3>3. dl[j + 1] = c
      BY <1>1, <1>3, <2>1
    <3> QED
      BY <3>1, <3>2, <3>3
  <2>2. CASE ~(j <= m)
    <3>1. j - m \in 1..n /\ j = m + (j - m)
      BY <1>3, <2>2
    <3>2. u[j] = t[j - m]
      BY <1>2, <3>1
    <3>3. dl[j] = cl[j - m] /\ dl[j + 1] = cl[(j - m) + 1]
      BY <1>3, <2>2
    <3> QED
      BY <1>1, <3>1, <3>2, <3>3
  <2> QED
    BY <1>3, <2>1, <2>2
<1>6. Len(u) = m + n /\ Len(u) + 1 = m + n + 1 /\ IsSeq(u)
  BY <1>2, <1>3
<1> HIDE DEF u, m, n, dl
<1>7. dl \in [1..Len(u) + 1 -> Nat] /\ \A j \in 1..Len(u) : FitItem(u[j], dl[j], dl[j + 1], E)
  BY <1>4, <1>5, <1>6
<1>8. Fit(u, c, E)
  BY <1>4, <1>6, <1>7 DEF Fit
<1> QED
  BY <1>8 DEF u

\* Tuples of items.
LEMMA Tuple2 ==
    ASSUME NEW a, NEW b
    PROVE  IsSeq(<<a, b>>) /\ Len(<<a, b>>) = 2
<1>1. <<a, b>> \in Seq({a, b})
  OBVIOUS
<1> QED
  BY <1>1, SeqIs

LEMMA Tuple3 ==
    ASSUME NEW a, NEW b, NEW c
    PROVE  IsSeq(<<a, b, c>>) /\ Len(<<a, b, c>>) = 3
<1>1. <<a, b, c>> \in Seq({a, b, c})
  OBVIOUS
<1> QED
  BY <1>1, SeqIs

LEMMA Tuple4 ==
    ASSUME NEW a, NEW b, NEW c, NEW d
    PROVE  IsSeq(<<a, b, c, d>>) /\ Len(<<a, b, c, d>>) = 4
<1>1. <<a, b, c, d>> \in Seq({a, b, c, d})
  OBVIOUS
<1> QED
  BY <1>1, SeqIs

LEMMA Tuple5 ==
    ASSUME NEW a, NEW b, NEW c, NEW d, NEW e
    PROVE  IsSeq(<<a, b, c, d, e>>) /\ Len(<<a, b, c, d, e>>) = 5
<1>1. <<a, b, c, d, e>> \in Seq({a, b, c, d, e})
  OBVIOUS
<1> QED
  BY <1>1, SeqIs

LEMMA Tuple6 ==
    ASSUME NEW a, NEW b, NEW c, NEW d, NEW e, NEW f
    PROVE  IsSeq(<<a, b, c, d, e, f>>) /\ Len(<<a, b, c, d, e, f>>) = 6
<1>1. <<a, b, c, d, e, f>> \in Seq({a, b, c, d, e, f})
  OBVIOUS
<1> QED
  BY <1>1, SeqIs

LEMMA Tuple7 ==
    ASSUME NEW a, NEW b, NEW c, NEW d, NEW e, NEW f, NEW g
    PROVE  IsSeq(<<a, b, c, d, e, f, g>>) /\ Len(<<a, b, c, d, e, f, g>>) = 7
<1>1. <<a, b, c, d, e, f, g>> \in Seq({a, b, c, d, e, f, g})
  OBVIOUS
<1> QED
  BY <1>1, SeqIs

LEMMA Tuple8 ==
    ASSUME NEW a, NEW b, NEW c, NEW d, NEW e, NEW f, NEW g, NEW h
    PROVE  IsSeq(<<a, b, c, d, e, f, g, h>>) /\ Len(<<a, b, c, d, e, f, g, h>>) = 8
<1>1. <<a, b, c, d, e, f, g, h>> \in Seq({a, b, c, d, e, f, g, h})
  OBVIOUS
<1> QED
  BY <1>1, SeqIs

-----------------------------------------------------------------------------
(* The compiler. *)

Sizes(ls) == [c \in 1..Len(ls) |-> Len(ls[c])]

BlockFits(b, c, E) ==
    /\ \A i \in 1..Len(b.code) : Fitting(b.code[i], c, E)
    /\ b.next # NoBlock => b.next \in DOMAIN E.own /\ E.own[b.next] = c

BlocksFit(B, E) ==
    /\ B \in Seq(CodeBlock) /\ DOMAIN E.own = 1..Len(B)
    /\ \A b \in 1..Len(B) : E.own[b] \in DOMAIN E.size /\ BlockFits(B[b], E.own[b], E)

ListsFit(ls, n) == IsSeq(ls) /\ \A c \in 1..Len(ls) : Vals(ls[c], n)

FnFits(f, E) ==
    /\ f.blk \in DOMAIN E.own /\ E.own[f.blk] = f.cs /\ f.cs \in DOMAIN E.size
    /\ f.ps \in Seq(STRING)

FnsFit(fs, E) == IsSeq(fs) /\ \A f \in 1..Len(fs) : FnFits(fs[f], E)

Made(E, B, ls, fs) ==
    /\ E \in Env /\ E.size = Sizes(ls) /\ E.n = Len(fs)
    /\ BlocksFit(B, E) /\ ListsFit(ls, Len(fs)) /\ FnsFit(fs, E)

\* E is what the compiler has made, and what is left to do fits it.
Compiled(E) ==
    /\ Made(E, blks, lists, fns)
    /\ cs \in DOMAIN E.size
    /\ todo # <<>> => cb \in DOMAIN E.own /\ E.own[cb] = cs
    /\ Fit(todo, cs, E)

LEMMA SizesType ==
    ASSUME NEW ls, NEW n, ListsFit(ls, n)
    PROVE  /\ Len(ls) \in Nat /\ Sizes(ls) \in [1..Len(ls) -> Nat]
           /\ DOMAIN Sizes(ls) = 1..Len(ls) /\ \A c \in 1..Len(ls) : Sizes(ls)[c] = Len(ls[c])
<1>1. Len(ls) \in Nat /\ \A c \in 1..Len(ls) : Len(ls[c]) \in Nat
  BY IsSeqFacts DEF ListsFit, Vals
<1> QED
  BY <1>1 DEF Sizes

LEMMA BlockFitsGrows ==
    ASSUME NEW E \in Env, NEW F \in Env, Grows(E, F), NEW c \in DOMAIN E.size, NEW b, BlockFits(b, c, E)
    PROVE  BlockFits(b, c, F)
<1>1. ASSUME NEW i \in 1..Len(b.code) PROVE Fitting(b.code[i], c, F)
  BY FittingGrows DEF BlockFits
<1>2. b.next # NoBlock => b.next \in DOMAIN F.own /\ F.own[b.next] = c
  BY DEF BlockFits, Grows
<1> QED
  BY <1>1, <1>2 DEF BlockFits

\* The same blocks.
LEMMA BlocksFitGrows ==
    ASSUME NEW E \in Env, NEW F \in Env, Grows(E, F), DOMAIN F.own = DOMAIN E.own, NEW B, BlocksFit(B, E)
    PROVE  BlocksFit(B, F)
<1>1. ASSUME NEW b \in 1..Len(B) PROVE F.own[b] \in DOMAIN F.size /\ BlockFits(B[b], F.own[b], F)
  <2>1. E.own[b] \in DOMAIN E.size /\ BlockFits(B[b], E.own[b], E) /\ b \in DOMAIN E.own
    BY DEF BlocksFit
  <2>2. F.own[b] = E.own[b] /\ E.own[b] \in DOMAIN F.size
    BY <2>1 DEF Grows
  <2>3. BlockFits(B[b], E.own[b], F)
    BY <2>1, BlockFitsGrows
  <2> QED
    BY <2>2, <2>3
<1> QED
  BY <1>1 DEF BlocksFit

\* A new block, whose constants are the list c.
LEMMA BlocksFitMore ==
    ASSUME NEW E \in Env, NEW F \in Env, Grows(E, F), NEW B, BlocksFit(B, E),
           DOMAIN F.own = 1..Len(B) + 1, F.own[Len(B) + 1] \in DOMAIN F.size
    PROVE  BlocksFit(Append(B, EmptyBlock), F)
<1> DEFINE C == Append(B, EmptyBlock)
<1>1. EmptyBlock \in CodeBlock /\ EmptyBlock.code = <<>> /\ EmptyBlock.next = NoBlock /\ Len(<<>>) = 0
  BY DEF EmptyBlock, CodeBlock, NoBlock
<1> HIDE DEF EmptyBlock
<1>2. B \in Seq(CodeBlock) /\ Len(B) \in Nat
  BY LenProperties DEF BlocksFit
<1>3. /\ C \in Seq(CodeBlock) /\ Len(C) = Len(B) + 1
      /\ \A i \in 1..Len(B) : C[i] = B[i]
      /\ C[Len(B) + 1] = EmptyBlock
  BY <1>1, <1>2, AppendProperties
<1> HIDE DEF C
<1>4. ASSUME NEW b \in 1..Len(C) PROVE F.own[b] \in DOMAIN F.size /\ BlockFits(C[b], F.own[b], F)
  <2>1. CASE b \in 1..Len(B)
    <3>1. E.own[b] \in DOMAIN E.size /\ BlockFits(B[b], E.own[b], E) /\ b \in DOMAIN E.own
      BY <2>1 DEF BlocksFit
    <3>2. F.own[b] = E.own[b] /\ E.own[b] \in DOMAIN F.size
      BY <3>1 DEF Grows
    <3>3. BlockFits(B[b], E.own[b], F)
      BY <3>1, BlockFitsGrows
    <3> QED
      BY <1>3, <2>1, <3>2, <3>3
  <2>2. CASE b = Len(B) + 1
    <3>1. BlockFits(EmptyBlock, F.own[b], F)
      BY <1>1 DEF BlockFits
    <3> QED
      BY <1>3, <2>2, <3>1
  <2> QED
    BY <1>2, <1>3, <2>1, <2>2
<1> QED
  BY <1>3, <1>4 DEF BlocksFit, C

\* An instruction in a block, or the next of a block.
LEMMA BlocksFitChange ==
    ASSUME NEW E \in Env, NEW B, BlocksFit(B, E), NEW b \in 1..Len(B),
           NEW c \in CodeBlock, BlockFits(c, E.own[b], E)
    PROVE  BlocksFit([B EXCEPT ![b] = c], E)
<1>1. B \in Seq(CodeBlock)
  BY DEF BlocksFit
<1>2. /\ [B EXCEPT ![b] = c] \in Seq(CodeBlock) /\ Len([B EXCEPT ![b] = c]) = Len(B)
      /\ \A j \in 1..Len(B) : [B EXCEPT ![b] = c][j] = IF j = b THEN c ELSE B[j]
  BY <1>1, ExceptSeq
<1> QED
  BY <1>2 DEF BlocksFit

LEMMA FnsFitGrows ==
    ASSUME NEW E \in Env, NEW F \in Env, Grows(E, F), NEW fs, FnsFit(fs, E)
    PROVE  FnsFit(fs, F)
<1>1. ASSUME NEW f \in 1..Len(fs) PROVE FnFits(fs[f], F)
  <2>1. FnFits(fs[f], E)
    BY DEF FnsFit
  <2> QED
    BY <2>1 DEF FnFits, Grows
<1> QED
  BY <1>1 DEF FnsFit

LEMMA MakeBlock ==
    ASSUME NEW E, NEW B, NEW ls, NEW fs, Made(E, B, ls, fs), NEW c \in DOMAIN E.size
    PROVE  \E F : /\ Made(F, Append(B, EmptyBlock), ls, fs) /\ Grows(E, F)
                  /\ DOMAIN F.size = DOMAIN E.size
                  /\ Len(Append(B, EmptyBlock)) = Len(B) + 1
                  /\ Len(B) + 1 \in DOMAIN F.own /\ F.own[Len(B) + 1] = c
<1> DEFINE m == Len(B)
           own == [b \in 1..m + 1 |-> IF b = m + 1 THEN c ELSE E.own[b]]
           F == [own |-> own, size |-> E.size, n |-> E.n]
<1>1. E \in Env /\ DOMAIN E.own = 1..m /\ m \in Nat /\ c \in Nat
  BY EnvType, LenProperties DEF Made, BlocksFit
<1>2. \A b \in 1..m : E.own[b] \in Nat
  BY <1>1, EnvType
<1>3. own \in [1..m + 1 -> Nat] /\ own[m + 1] = c /\ \A b \in 1..m : own[b] = E.own[b]
  BY <1>1, <1>2
<1> HIDE DEF own
<1>4. F \in Env
  <2>1. own \in Tables
    BY <1>1, <1>3 DEF Tables
  <2> QED
    BY <1>1, <2>1 DEF Env
<1>5. F.own = own /\ F.size = E.size /\ F.n = E.n /\ DOMAIN own = 1..m + 1
  BY <1>3
<1> HIDE DEF F
<1>6. Grows(E, F)
  <2>1. E.n \in Nat /\ \A d \in DOMAIN E.size : E.size[d] \in Nat
    BY <1>1, EnvType
  <2>2. 1..m \subseteq 1..m + 1
    BY <1>1
  <2> QED
    BY <1>1, <1>3, <1>5, <2>1, <2>2 DEF Grows
<1>7. BlocksFit(Append(B, EmptyBlock), F)
  <2>1. F.own[m + 1] \in DOMAIN F.size
    BY <1>3, <1>5
  <2> QED
    BY <1>1, <1>4, <1>5, <1>6, <2>1, BlocksFitMore DEF Made
<1>8. FnsFit(fs, F)
  BY <1>1, <1>4, <1>6, FnsFitGrows DEF Made
<1>9. Made(F, Append(B, EmptyBlock), ls, fs)
  BY <1>4, <1>5, <1>7, <1>8 DEF Made
<1>10. Len(Append(B, EmptyBlock)) = Len(B) + 1
  BY AppendProperties, EmptyIs DEF Made, BlocksFit, EmptyBlock, CodeBlock, NoBlock
<1>11. m + 1 \in DOMAIN F.own /\ F.own[m + 1] = c
  BY <1>1, <1>3, <1>5
<1> QED
  BY <1>5, <1>6, <1>9, <1>10, <1>11

\* Each list as long or longer.
LEMMA MakeLists ==
    ASSUME NEW E, NEW B, NEW ls, NEW fs, Made(E, B, ls, fs), NEW ms, ListsFit(ms, Len(fs)),
           Len(ms) >= Len(ls), \A c \in 1..Len(ls) : Len(ms[c]) >= Len(ls[c])
    PROVE  \E F : /\ Made(F, B, ms, fs) /\ Grows(E, F)
                  /\ F.own = E.own
<1> DEFINE F == [own |-> E.own, size |-> Sizes(ms), n |-> E.n]
<1>1. /\ Len(ls) \in Nat /\ DOMAIN Sizes(ls) = 1..Len(ls) /\ \A c \in 1..Len(ls) : Sizes(ls)[c] = Len(ls[c])
  BY SizesType DEF Made
<1>2. /\ Len(ms) \in Nat /\ Sizes(ms) \in [1..Len(ms) -> Nat] /\ DOMAIN Sizes(ms) = 1..Len(ms)
      /\ \A c \in 1..Len(ms) : Sizes(ms)[c] = Len(ms[c])
  BY SizesType
<1>3. F.own = E.own /\ F.size = Sizes(ms) /\ F.n = E.n
  OBVIOUS
<1>4. F \in Env
  <2>1. Sizes(ms) \in Tables
    BY <1>2 DEF Tables
  <2> QED
    BY <2>1 DEF Made, Env
<1> HIDE DEF F
<1>5. E \in Env /\ E.n \in Nat /\ E.size = Sizes(ls)
  BY EnvType DEF Made
<1>6. Grows(E, F)
  <2>1. 1..Len(ls) \subseteq 1..Len(ms)
    BY <1>1, <1>2
  <2>2. \A c \in DOMAIN E.size : F.size[c] >= E.size[c]
    BY <1>1, <1>2, <1>3, <1>5, <2>1
  <2> QED
    BY <1>1, <1>2, <1>3, <1>5, <2>1, <2>2 DEF Grows
<1>7. BlocksFit(B, F)
  BY <1>3, <1>4, <1>5, <1>6, BlocksFitGrows DEF Made
<1>8. FnsFit(fs, F)
  BY <1>4, <1>5, <1>6, FnsFitGrows DEF Made
<1> QED
  BY <1>3, <1>4, <1>6, <1>7, <1>8 DEF Made

LEMMA MakeFn ==
    ASSUME NEW E, NEW B, NEW ls, NEW fs, Made(E, B, ls, fs), NEW f, FnFits(f, E)
    PROVE  \E F : /\ Made(F, B, ls, Append(fs, f)) /\ Grows(E, F)
                  /\ F.own = E.own /\ F.size = E.size /\ F.n = E.n + 1
<1> DEFINE F == [own |-> E.own, size |-> E.size, n |-> E.n + 1]
           gs == Append(fs, f)
<1>1. E \in Env /\ E.n \in Nat /\ E.n = Len(fs) /\ IsSeq(fs)
  BY EnvType DEF Made, FnsFit
<1>2. F.own = E.own /\ F.size = E.size /\ F.n = E.n + 1
  OBVIOUS
<1>3. F \in Env
  BY <1>1 DEF Env
<1> HIDE DEF F
<1>4. Grows(E, F)
  BY <1>1, <1>2, EnvType DEF Grows
<1>5. /\ IsSeq(gs) /\ Len(gs) = Len(fs) + 1 /\ gs[Len(fs) + 1] = f
      /\ \A i \in 1..Len(fs) : gs[i] = fs[i]
  BY <1>1, AppendIs
<1> HIDE DEF gs
<1>6. BlocksFit(B, F)
  BY <1>1, <1>2, <1>3, <1>4, BlocksFitGrows DEF Made
<1>7. ListsFit(ls, Len(gs))
  <2>1. ASSUME NEW c \in 1..Len(ls), NEW i \in 1..Len(ls[c]) PROVE Val(ls[c][i], Len(gs))
    <3>1. Val(ls[c][i], Len(fs))
      BY DEF Made, ListsFit, Vals
    <3> QED
      BY <1>1, <1>5, <3>1, ValGrows
  <2> QED
    BY <2>1 DEF Made, ListsFit, Vals
<1>8. FnsFit(gs, F)
  <2>1. FnsFit(fs, F) /\ FnFits(f, F)
    BY <1>1, <1>3, <1>4, FnsFitGrows DEF Made, FnFits, Grows
  <2> QED
    BY <1>1, <1>5, <2>1 DEF FnsFit
<1>9. Made(F, B, ls, gs)
  BY <1>1, <1>2, <1>3, <1>5, <1>6, <1>7, <1>8 DEF Made
<1> QED
  BY <1>2, <1>4, <1>9 DEF gs

\* store_obj: the constant is in the list.
LEMMA MakeConst ==
    ASSUME NEW E, Made(E, blks, lists, fns), cs \in DOMAIN E.size, NEW obj, Val(obj, Len(fns))
    PROVE  \E F : /\ Made(F, blks, Stored(obj), fns) /\ Grows(E, F)
                  /\ F.own = E.own /\ IndexOf(obj) \in 1..F.size[cs]
<1> DEFINE ms == Stored(obj)
           l == lists[cs]
<1>1. /\ Len(lists) \in Nat /\ DOMAIN Sizes(lists) = 1..Len(lists) /\ cs \in 1..Len(lists)
      /\ IsSeq(lists)
  BY SizesType DEF Made, ListsFit
<1>2. IsSeq(l) /\ Len(l) \in Nat /\ \A i \in 1..Len(l) : Val(l[i], Len(fns))
  BY <1>1, IsSeqFacts DEF Made, ListsFit, Vals
<1>3. CASE Found(obj) = {}
  <2>1. ms = [lists EXCEPT ![cs] = Append(l, obj)] /\ IndexOf(obj) = Len(l) + 1
    BY <1>3 DEF Stored, IndexOf, Consts
  <2>2. /\ IsSeq(Append(l, obj)) /\ Len(Append(l, obj)) = Len(l) + 1
        /\ \A i \in 1..Len(l) : Append(l, obj)[i] = l[i]
        /\ Append(l, obj)[Len(l) + 1] = obj
    BY <1>2, AppendIs
  <2> DEFINE a == Append(l, obj)
  <2> HIDE DEF ms, l, a
  <2>3. /\ IsSeq(ms) /\ Len(ms) = Len(lists)
        /\ \A i \in 1..Len(lists) : ms[i] = IF i = cs THEN a ELSE lists[i]
    <3>1. ms = [lists EXCEPT ![cs] = a]
      BY <2>1 DEF a
    <3>2. cs \in 1..Len(lists) /\ IsSeq(lists)
      BY <1>1
    <3>3. /\ IsSeq([lists EXCEPT ![cs] = a]) /\ Len([lists EXCEPT ![cs] = a]) = Len(lists)
          /\ \A i \in 1..Len(lists) : [lists EXCEPT ![cs] = a][i] = IF i = cs THEN a ELSE lists[i]
      BY <3>2, ExceptIs
    <3> QED
      BY <3>1, <3>3
  <2>4. Vals(a, Len(fns))
    BY <1>2, <2>2 DEF Vals, a
  <2>5. ListsFit(ms, Len(fns))
    BY <2>3, <2>4 DEF ListsFit, Made
  <2>6. \A c \in 1..Len(lists) : Len(lists[c]) \in Nat
    BY IsSeqFacts DEF Made, ListsFit, Vals
  <2>7. Len(ms) >= Len(lists) /\ \A c \in 1..Len(lists) : Len(ms[c]) >= Len(lists[c])
    <3>1. Len(a) >= Len(l)
      BY <1>2, <2>2 DEF a
    <3>2. Len(ms[cs]) >= Len(lists[cs])
      BY <1>1, <2>3, <3>1 DEF l
    <3>3. \A c \in 1..Len(lists) : c # cs => Len(ms[c]) >= Len(lists[c])
      BY <2>3, <2>6
    <3> QED
      BY <1>1, <2>3, <3>2, <3>3
  <2>8. PICK F : Made(F, blks, ms, fns) /\ Grows(E, F) /\ F.own = E.own
    BY <2>5, <2>7, MakeLists
  <2>9. F.size[cs] = Len(ms[cs])
    BY <1>1, <2>3, <2>5, <2>8, SizesType DEF Made
  <2>10. IndexOf(obj) \in 1..F.size[cs]
    BY <1>1, <1>2, <2>1, <2>2, <2>3, <2>9 DEF a
  <2> QED
    BY <2>8, <2>10 DEF ms
<1>4. CASE Found(obj) # {}
  <2>1. ms = lists /\ Found(obj) \subseteq 1..Len(l) /\ Found(obj) \subseteq Nat
    BY <1>2, <1>4 DEF Stored, Found, Consts
  <2>2. PICK x \in Found(obj) : \A y \in Found(obj) : x <= y
    BY <1>4, <2>1, Smallest
  <2>3. IndexOf(obj) \in Found(obj)
    BY <1>4, <2>2 DEF IndexOf
  <2>4. E.size[cs] = Len(l)
    BY <1>1, SizesType DEF Made
  <2>5. Grows(E, E)
    BY EnvType DEF Grows, Made
  <2> QED
    BY <2>1, <2>3, <2>4, <2>5
<1> QED
  BY <1>3, <1>4

-----------------------------------------------------------------------------
(* The items that the visitors leave. *)

LEMMA GrowsSelf == ASSUME NEW E \in Env PROVE Grows(E, E)
  BY EnvType DEF Grows

LEMMA ExpKind == ASSUME NEW x \in Exps PROVE Expression(x) /\ x.k \in ExpKinds
  BY GrammarAssumption DEF Expression, ExpKinds

LEMMA StmKind == ASSUME NEW x \in Stms PROVE Statement(x) /\ x.k \in StmKinds
  BY GrammarAssumption DEF Statement, StmKinds

LEMMA FitExp ==
    ASSUME NEW E \in Env, NEW c \in DOMAIN E.size, NEW x \in Exps
    PROVE  FitItem(x, c, c, E)
<1>1. x.k \in ExpKinds
  BY ExpKind
<1> QED
  BY <1>1 DEF FitItem, Kinds, ExpKinds, StmKinds

LEMMA FitStm ==
    ASSUME NEW E \in Env, NEW c \in DOMAIN E.size, NEW x \in Stms
    PROVE  FitItem(x, c, c, E)
<1>1. x.k \in StmKinds
  BY StmKind
<1> QED
  BY <1>1 DEF FitItem, Kinds, ExpKinds, StmKinds

LEMMA FitList ==
    ASSUME NEW E \in Env, NEW c \in DOMAIN E.size, NEW body \in Seq(Stms)
    PROVE  FitItem(LIST(body), c, c, E)
  BY DEF LIST, FitItem, Kinds, ExpKinds, StmKinds

LEMMA FitEmit ==
    ASSUME NEW E \in Env, NEW c \in DOMAIN E.size, NEW op \in Plain
    PROVE  FitItem(EMIT(op), c, c, E)
<1>1. Fitting([op |-> op], c, E)
  BY DEF Fitting, Instruction, Plain, Binary, OnConst, Jumping
<1> QED
  BY <1>1 DEF EMIT, FitItem, Kinds, ExpKinds, StmKinds

LEMMA FitArg ==
    ASSUME NEW E \in Env, NEW c \in DOMAIN E.size, NEW op \in OnConst, NEW arg \in 1..E.size[c]
    PROVE  FitItem(EMIT_ARG(op, arg), c, c, E)
<1>1. Fitting([op |-> op, arg |-> arg], c, E)
  BY EnvType DEF Fitting, Instruction, OnConst, Jumping
<1> QED
  BY <1>1 DEF EMIT_ARG, FitItem, Kinds, ExpKinds, StmKinds

LEMMA FitInvoke ==
    ASSUME NEW E \in Env, NEW c \in DOMAIN E.size, NEW n \in Nat
    PROVE  FitItem(EMIT_ARG("INVOKE", n), c, c, E)
<1>1. Fitting([op |-> "INVOKE", arg |-> n], c, E)
  BY DEF Fitting, Instruction, OnConst, Jumping
<1> QED
  BY <1>1 DEF EMIT_ARG, FitItem, Kinds, ExpKinds, StmKinds

LEMMA FitJump ==
    ASSUME NEW E \in Env, NEW c \in DOMAIN E.size, NEW op \in Jumping, NEW b \in DOMAIN E.own, E.own[b] = c
    PROVE  FitItem(EMIT_JMP(op, b), c, c, E)
<1>1. Fitting([op |-> op, to |-> b], c, E)
  BY EnvType DEF Fitting, Instruction, OnConst, Jumping
<1> QED
  BY <1>1 DEF EMIT_JMP, FitItem, Kinds, ExpKinds, StmKinds

LEMMA FitConst ==
    ASSUME NEW E \in Env, NEW c \in DOMAIN E.size, NEW op \in {"PUSH", "LOAD_NAME"}, NEW v, Val(v, E.n)
    PROVE  FitItem(EMIT_CONST(op, v), c, c, E)
  BY DEF EMIT_CONST, FitItem, Kinds, ExpKinds, StmKinds

LEMMA FitStore ==
    ASSUME NEW E \in Env, NEW c \in DOMAIN E.size, NEW n
    PROVE  FitItem(STORE(n), c, c, E)
  BY DEF STORE, STR, Val, FitItem, Kinds, ExpKinds, StmKinds

LEMMA FitNext ==
    ASSUME NEW E \in Env, NEW c \in DOMAIN E.size, NEW b \in DOMAIN E.own, E.own[b] = c
    PROVE  FitItem(NEXT_BLOCK(b), c, c, E)
  BY DEF NEXT_BLOCK, FitItem, Kinds, ExpKinds, StmKinds

-----------------------------------------------------------------------------
(* One step of code_gen. *)

\* What the visitor at work finds.
LEMMA HeadFits ==
    ASSUME NEW E, Compiled(E), todo # <<>>
    PROVE  /\ E \in Env /\ cs \in DOMAIN E.size /\ cb \in DOMAIN E.own /\ E.own[cb] = cs
           /\ \E e : FitItem(Node, cs, e, E) /\ Fit(Tail(todo), e, E)
<1>1. E \in Env /\ Fit(todo, cs, E)
  BY DEF Compiled, Made
<1> QED
  BY <1>1, FitHead DEF Compiled, Node

\* It puts items in front of the others.
LEMMA StillCompiled ==
    ASSUME NEW E, Compiled(E), todo # <<>>, Node.k # "leave",
           NEW F, Made(F, blks, lists, fns)', Grows(E, F), cb' = cb, cs' = cs,
           NEW items, IsSeq(items), \A i \in 1..Len(items) : FitItem(items[i], cs, cs, F),
           Then(items)
    PROVE  Compiled(F)' /\ Grows(E, F)
<1>1. PICK e : FitItem(Node, cs, e, E) /\ Fit(Tail(todo), e, E)
  BY HeadFits
<1>2. e = cs /\ E \in Env /\ F \in Env
  BY <1>1 DEF FitItem, Compiled, Made
<1>3. Fit(Tail(todo), cs, F)
  BY <1>1, <1>2, FitGrows
<1>4. Fit(items \o Tail(todo), cs, F)
  BY <1>2, <1>3, FitAll
<1>5. cs \in DOMAIN F.size /\ cb \in DOMAIN F.own /\ F.own[cb] = cs
  BY HeadFits DEF Grows
<1> QED
  BY <1>4, <1>5 DEF Compiled, Then

\* It appends an instruction.
LEMMA MakeIns ==
    ASSUME NEW E, NEW ls, NEW fs, Made(E, blks, ls, fs), cb \in DOMAIN E.own, NEW ins, Fitting(ins, E.own[cb], E)
    PROVE  Made(E, Append1(ins), ls, fs)
<1> DEFINE b == blks[cb]
           c == [b EXCEPT !.code = Append(@, ins)]
<1>1. /\ blks \in Seq(CodeBlock) /\ cb \in 1..Len(blks) /\ BlockFits(b, E.own[cb], E)
      /\ BlocksFit(blks, E) /\ E \in Env
  BY DEF Made, BlocksFit
<1>2. b \in CodeBlock
  BY <1>1, ElementOfSeq
<1>3. ins \in Instruction /\ b.code \in Seq(Instruction)
  BY <1>2 DEF Fitting, CodeBlock
<1>4. /\ Append(b.code, ins) \in Seq(Instruction) /\ Len(Append(b.code, ins)) = Len(b.code) + 1
      /\ \A i \in 1..Len(b.code) : Append(b.code, ins)[i] = b.code[i]
      /\ Append(b.code, ins)[Len(b.code) + 1] = ins
      /\ Len(b.code) \in Nat
  BY <1>3, AppendProperties, LenProperties
<1>5. c \in CodeBlock /\ c.code = Append(b.code, ins) /\ c.next = b.next
  BY <1>2, <1>4 DEF CodeBlock
<1>6. Append1(ins) = [blks EXCEPT ![cb] = c]
  BY DEF Append1
<1> HIDE DEF b, c
<1>7. BlockFits(c, E.own[cb], E)
  BY <1>1, <1>4, <1>5 DEF BlockFits
<1>8. BlocksFit([blks EXCEPT ![cb] = c], E)
  BY <1>1, <1>5, <1>7, BlocksFitChange
<1> QED
  BY <1>6, <1>8 DEF Made

LEMMA AddOpCompiled ==
    ASSUME NEW E, Compiled(E), AddOp
    PROVE  \E F : Compiled(F)' /\ Grows(E, F)
<1>1. todo # <<>> /\ Node.k = "emit"
  BY DEF AddOp, At, Node
<1>2. Fitting(Node.ins, cs, E) /\ E \in Env /\ cb \in DOMAIN E.own /\ E.own[cb] = cs
  BY <1>1, HeadFits DEF FitItem
<1>3. Made(E, blks, lists, fns)'
  BY <1>2, MakeIns DEF AddOp, Compiled
<1> QED
  BY <1>1, <1>2, <1>3, StillCompiled, GrowsSelf, EmptyIs DEF AddOp

LEMMA AddOpOnConstCompiled ==
    ASSUME NEW E, Compiled(E), AddOpOnConst
    PROVE  \E F : Compiled(F)' /\ Grows(E, F)
<1>1. todo # <<>> /\ Node.k = "const"
  BY DEF AddOpOnConst, At, Node
<1>2. Node.op \in {"PUSH", "LOAD_NAME"} /\ Val(Node.v, E.n) /\ E.n = Len(fns)
  BY <1>1, HeadFits DEF FitItem, Compiled, Made
<1>3. E \in Env /\ cs \in DOMAIN E.size /\ cb \in DOMAIN E.own /\ E.own[cb] = cs
  BY <1>1, HeadFits
<1>4. PICK F : /\ Made(F, blks, Stored(Node.v), fns) /\ Grows(E, F)
               /\ F.own = E.own /\ IndexOf(Node.v) \in 1..F.size[cs]
  BY <1>2, <1>3, MakeConst DEF Compiled
<1> DEFINE ins == [op |-> Node.op, arg |-> IndexOf(Node.v)]
<1>5. Fitting(ins, cs, F)
  <2>1. F \in Env /\ cs \in DOMAIN F.size
    BY <1>3, <1>4 DEF Made, Grows
  <2>2. IndexOf(Node.v) \in Nat
    BY <1>4, <2>1, EnvType
  <2> QED
    BY <1>2, <1>4, <2>2 DEF Fitting, Instruction, OnConst, Jumping
<1> HIDE DEF ins
<1>6. Made(F, Append1(ins), Stored(Node.v), fns)
  BY <1>3, <1>4, <1>5, MakeIns
<1>7. Made(F, blks, lists, fns)'
  BY <1>6 DEF AddOpOnConst, ins
<1> QED
  BY <1>1, <1>4, <1>7, StillCompiled, EmptyIs DEF AddOpOnConst

LEMMA StoreObjCompiled ==
    ASSUME NEW E, Compiled(E), StoreObj
    PROVE  \E F : Compiled(F)' /\ Grows(E, F)
<1>1. todo # <<>> /\ Node.k = "store"
  BY DEF StoreObj, At, Node
<1>2. Val(Node.v, E.n) /\ E.n = Len(fns)
  BY <1>1, HeadFits DEF FitItem, Compiled, Made
<1>3. PICK F : Made(F, blks, Stored(Node.v), fns) /\ Grows(E, F)
  BY <1>1, <1>2, HeadFits, MakeConst DEF Compiled
<1>4. Made(F, blks, lists, fns)'
  BY <1>3 DEF StoreObj
<1> QED
  BY <1>1, <1>3, <1>4, StillCompiled, EmptyIs DEF StoreObj

LEMMA UseNextCompiled ==
    ASSUME NEW E, Compiled(E), UseNext
    PROVE  \E F : Compiled(F)' /\ Grows(E, F)
<1>1. todo # <<>> /\ Node.k = "next"
  BY DEF UseNext, At, Node
<1>2. PICK e : FitItem(Node, cs, e, E) /\ Fit(Tail(todo), e, E)
  BY <1>1, HeadFits
<1>3. e = cs /\ Node.b \in DOMAIN E.own /\ E.own[Node.b] = cs
  BY <1>1, <1>2 DEF FitItem
<1>4. E \in Env /\ cs \in DOMAIN E.size /\ cb \in DOMAIN E.own /\ E.own[cb] = cs
  BY <1>1, HeadFits
<1>5. BlocksFit(blks, E) /\ blks \in Seq(CodeBlock) /\ cb \in 1..Len(blks) /\ Node.b \in 1..Len(blks)
  BY <1>3, <1>4 DEF Compiled, Made, BlocksFit
<1> DEFINE c == [blks[cb] EXCEPT !.next = Node.b]
           B == [blks EXCEPT ![cb] = c]
           d == [B[Node.b] EXCEPT !.next = NoBlock]
<1>6. blks[cb] \in CodeBlock /\ BlockFits(blks[cb], cs, E)
  BY <1>4, <1>5, ElementOfSeq DEF BlocksFit
<1>7. Node.b \in Nat
  BY <1>3, <1>4, EnvType
<1>8. c \in CodeBlock /\ c.code = blks[cb].code /\ c.next = Node.b
  BY <1>6, <1>7 DEF CodeBlock
<1> HIDE DEF c
<1>9. BlockFits(c, cs, E)
  BY <1>3, <1>6, <1>8 DEF BlockFits
<1>10. BlocksFit(B, E)
  BY <1>4, <1>5, <1>8, <1>9, BlocksFitChange
<1>11. B \in Seq(CodeBlock) /\ Len(B) = Len(blks)
  BY <1>5, <1>8, ExceptSeq
<1> HIDE DEF B
<1>12. B[Node.b] \in CodeBlock /\ BlockFits(B[Node.b], cs, E)
  BY <1>3, <1>5, <1>10, <1>11, ElementOfSeq DEF BlocksFit
<1>13. d \in CodeBlock /\ d.code = B[Node.b].code /\ d.next = NoBlock
  BY <1>12 DEF CodeBlock, NoBlock
<1> HIDE DEF d
<1>14. BlockFits(d, cs, E)
  BY <1>12, <1>13 DEF BlockFits
<1>15. BlocksFit([B EXCEPT ![Node.b] = d], E)
  BY <1>3, <1>4, <1>5, <1>10, <1>11, <1>13, <1>14, BlocksFitChange
<1>16. blks' = [B EXCEPT ![Node.b] = d]
  BY DEF UseNext, B, c, d
<1>17. Made(E, blks, lists, fns)'
  BY <1>15, <1>16 DEF UseNext, Compiled, Made
<1>18. todo' = Tail(todo)
  <2>1. IsSeq(Tail(todo))
    BY <1>2 DEF Fit
  <2> QED
    BY <2>1, ConcatEmpty DEF UseNext, Then
<1>19. Compiled(E)'
  BY <1>2, <1>3, <1>4, <1>17, <1>18 DEF UseNext, Compiled
<1> QED
  BY <1>4, <1>19, GrowsSelf

\* A visitor that does nothing but calls.
LEMMA OnlyCompiled ==
    ASSUME NEW E, Compiled(E), todo # <<>>, Node.k # "leave",
           NEW items, IsSeq(items), \A i \in 1..Len(items) : FitItem(items[i], cs, cs, E),
           Only(items)
    PROVE  \E F : Compiled(F)' /\ Grows(E, F)
<1>1. Made(E, blks, lists, fns)' /\ Grows(E, E)
  BY GrowsSelf DEF Only, Compiled, Made
<1> QED
  BY <1>1, StillCompiled DEF Only

LEMMA VisitLiteralCompiled ==
    ASSUME NEW E, Compiled(E), VisitLiteral
    PROVE  \E F : Compiled(F)' /\ Grows(E, F)
<1>1. todo # <<>> /\ Node.k = "lit"
  BY DEF VisitLiteral, At, Node
<1>2. Node \in Exps
  BY <1>1, HeadFits DEF FitItem, ExpKinds
<1>3. Val(Node.v, Len(fns))
  BY <1>1, <1>2, ExpKind DEF Expression, Literal, BOOL, NIL, Val
<1>4. E \in Env /\ cs \in DOMAIN E.size /\ cb \in DOMAIN E.own /\ E.own[cb] = cs
  BY <1>1, HeadFits
<1>5. PICK F : /\ Made(F, blks, Stored(Node.v), fns) /\ Grows(E, F)
               /\ F.own = E.own /\ IndexOf(Node.v) \in 1..F.size[cs]
  BY <1>3, <1>4, MakeConst DEF Compiled
<1> DEFINE ins == [op |-> "PUSH", arg |-> IndexOf(Node.v)]
<1>6. Fitting(ins, cs, F)
  <2>1. F \in Env /\ cs \in DOMAIN F.size
    BY <1>4, <1>5 DEF Made, Grows
  <2>2. IndexOf(Node.v) \in Nat
    BY <1>5, <2>1, EnvType
  <2> QED
    BY <1>5, <2>2 DEF Fitting, Instruction, OnConst, Jumping
<1> HIDE DEF ins
<1>7. Made(F, Append1(ins), Stored(Node.v), fns)
  BY <1>4, <1>5, <1>6, MakeIns
<1>8. Made(F, blks, lists, fns)'
  BY <1>7 DEF VisitLiteral, ins
<1> QED
  BY <1>1, <1>5, <1>8, StillCompiled, EmptyIs DEF VisitLiteral

LEMMA BothFit ==
    ASSUME NEW E, NEW c, NEW s, IsSeq(s), NEW t, IsSeq(t),
           \A i \in 1..Len(s) : FitItem(s[i], c, c, E), \A i \in 1..Len(t) : FitItem(t[i], c, c, E)
    PROVE  IsSeq(s \o t) /\ \A i \in 1..Len(s \o t) : FitItem((s \o t)[i], c, c, E)
<1> DEFINE u == s \o t
<1>1. /\ IsSeq(u) /\ Len(u) = Len(s) + Len(t)
      /\ \A i \in 1..Len(s) : u[i] = s[i]
      /\ \A i \in 1..Len(t) : u[Len(s) + i] = t[i]
  BY ConcatIs
<1>2. Len(s) \in Nat /\ Len(t) \in Nat
  BY IsSeqFacts
<1> HIDE DEF u
<1>3. ASSUME NEW i \in 1..Len(u) PROVE FitItem(u[i], c, c, E)
  <2>1. CASE i <= Len(s)
    BY <1>1, <1>2, <2>1
  <2>2. CASE ~(i <= Len(s))
    <3>1. i - Len(s) \in 1..Len(t) /\ i = Len(s) + (i - Len(s))
      BY <1>1, <1>2, <2>2
    <3> QED
      BY <1>1, <3>1
  <2> QED
    BY <2>1, <2>2
<1>4. IsSeq(u) /\ \A i \in 1..Len(u) : FitItem(u[i], c, c, E)
  BY <1>1, <1>3
<1> QED
  BY <1>4 DEF u

\* The visitors of expressions.
LEMMA ExpCompiled ==
    ASSUME NEW E, Compiled(E), VisitIdentifier \/ VisitBinary \/ VisitCall
    PROVE  \E F : Compiled(F)' /\ Grows(E, F)
<1>1. todo # <<>> /\ Node.k \in {"id", "op", "call"}
  BY DEF VisitIdentifier, VisitBinary, VisitCall, At, Node
<1>2. Node \in Exps
  BY <1>1, HeadFits DEF FitItem, ExpKinds
<1>3. E \in Env /\ cs \in DOMAIN E.size
  BY <1>1, HeadFits
<1>4. CASE VisitIdentifier
  <2> DEFINE x == EMIT_CONST("LOAD_NAME", STR(Node.n))
  <2>1. FitItem(x, cs, cs, E)
    BY <1>3, FitConst DEF STR, Val
  <2>2. Only(<<x>>)
    BY <1>4 DEF VisitIdentifier
  <2> HIDE DEF x
  <2>3. IsSeq(<<x>>) /\ \A i \in 1..Len(<<x>>) : FitItem(<<x>>[i], cs, cs, E)
    BY <2>1, OneIs
  <2> QED
    BY <1>1, <2>2, <2>3, OnlyCompiled
<1>5. CASE VisitBinary
  <2>1. Node.k = "op" /\ Node.l \in Exps /\ Node.r \in Exps /\ Node.o \in Plain
    BY <1>2, <1>5, ExpKind DEF VisitBinary, At, Node, Expression, Plain, Binary
  <2> DEFINE x == <<Node.l, Node.r, EMIT(Node.o)>>
  <2>2. FitItem(x[1], cs, cs, E) /\ FitItem(x[2], cs, cs, E) /\ FitItem(x[3], cs, cs, E)
    BY <1>3, <2>1, FitExp, FitEmit
  <2>3. IsSeq(x) /\ Len(x) = 3
    BY Tuple3
  <2>4. Only(x)
    BY <1>5 DEF VisitBinary
  <2> HIDE DEF x
  <2> QED
    BY <1>1, <2>2, <2>3, <2>4, OnlyCompiled
<1>6. CASE VisitCall
  <2>1. Node.k = "call" /\ Node.f \in Exps /\ Node.args \in Seq(Exps)
    BY <1>2, <1>6, ExpKind DEF VisitCall, At, Node, Expression
  <2>2. /\ IsSeq(Node.args) /\ Len(Node.args) \in Nat
        /\ \A i \in 1..Len(Node.args) : Node.args[i] \in Exps
    BY <2>1, SeqIs
  <2> DEFINE a == Node.args
             t == <<Node.f, EMIT_ARG("INVOKE", Len(a))>>
  <2>3. IsSeq(t) /\ \A i \in 1..Len(t) : FitItem(t[i], cs, cs, E)
    <3>1. FitItem(t[1], cs, cs, E) /\ FitItem(t[2], cs, cs, E)
      BY <1>3, <2>1, <2>2, FitExp, FitInvoke
    <3>2. IsSeq(t) /\ Len(t) = 2
      BY Tuple2
    <3> HIDE DEF t
    <3> QED
      BY <3>1, <3>2
  <2>4. Only(a \o t)
    BY <1>6 DEF VisitCall
  <2>5. IsSeq(a) /\ \A i \in 1..Len(a) : FitItem(a[i], cs, cs, E)
    BY <1>3, <2>2, FitExp
  <2> HIDE DEF t, a
  <2>6. IsSeq(a \o t) /\ \A i \in 1..Len(a \o t) : FitItem((a \o t)[i], cs, cs, E)
    BY <2>3, <2>5, BothFit
  <2> QED
    BY <1>1, <2>4, <2>6, OnlyCompiled
<1> QED
  BY <1>4, <1>5, <1>6

\* The visitors of statements that only call others.
LEMMA StmCompiled ==
    ASSUME NEW E, Compiled(E),
           VisitExpStatement \/ VisitPrint \/ VisitBlock \/ VisitList \/ VisitFor
    PROVE  \E F : Compiled(F)' /\ Grows(E, F)
<1>1. todo # <<>> /\ Node.k \in {"exp", "print", "block", "list", "for"}
  BY DEF VisitExpStatement, VisitPrint, VisitBlock, VisitList, VisitFor, At, Node
<1>2. Node.k # "list" => Node \in Stms
  BY <1>1, HeadFits DEF FitItem, StmKinds
<1>3. E \in Env /\ cs \in DOMAIN E.size
  BY <1>1, HeadFits
<1>4. SUFFICES ASSUME NEW x, IsSeq(x), \A i \in 1..Len(x) : FitItem(x[i], cs, cs, E), Only(x)
               PROVE  \E F : Compiled(F)' /\ Grows(E, F)
  <2>1. CASE VisitExpStatement
    <3> DEFINE x == <<Node.e>>
    <3>1. Node.k = "exp" /\ Node.e \in Exps
      BY <1>2, <2>1, StmKind DEF VisitExpStatement, At, Node, Statement
    <3>2. IsSeq(x) /\ Len(x) = 1 /\ FitItem(x[1], cs, cs, E)
      BY <1>3, <3>1, OneIs, FitExp
    <3>3. Only(x)
      BY <2>1 DEF VisitExpStatement
    <3> HIDE DEF x
    <3> QED
      BY <1>4, <3>2, <3>3
  <2>2. CASE VisitPrint
    <3> DEFINE x == <<Node.e, EMIT("DUP"), EMIT("PRINT")>>
    <3>1. Node.k = "print" /\ Node.e \in Exps /\ "DUP" \in Plain /\ "PRINT" \in Plain
      BY <1>2, <2>2, StmKind DEF VisitPrint, At, Node, Statement, Plain
    <3>2. FitItem(x[1], cs, cs, E) /\ FitItem(x[2], cs, cs, E) /\ FitItem(x[3], cs, cs, E)
      BY <1>3, <3>1, FitExp, FitEmit
    <3>3. IsSeq(x) /\ Len(x) = 3
      BY Tuple3
    <3>4. Only(x)
      BY <2>2 DEF VisitPrint
    <3> HIDE DEF x
    <3> QED
      BY <1>4, <3>2, <3>3, <3>4
  <2>3. CASE VisitBlock
    <3> DEFINE x == <<LIST(Node.body)>>
    <3>1. Node.k = "block" /\ Node.body \in Seq(Stms)
      BY <1>2, <2>3, StmKind DEF VisitBlock, At, Node, Statement
    <3>2. IsSeq(x) /\ Len(x) = 1 /\ FitItem(x[1], cs, cs, E)
      BY <1>3, <3>1, OneIs, FitList
    <3>3. Only(x)
      BY <2>3 DEF VisitBlock
    <3> HIDE DEF x
    <3> QED
      BY <1>4, <3>2, <3>3
  <2>4. CASE VisitList
    <3> DEFINE body == Node.body
    <3>1. Node.k = "list"
      BY <2>4 DEF VisitList, At, Node
    <3>2. body \in Seq(Stms)
      BY <1>1, <3>1, HeadFits DEF FitItem
    <3>3. /\ IsSeq(body) /\ Len(body) \in Nat
          /\ \A i \in 1..Len(body) : body[i] \in Stms
      BY <3>2, SeqIs
    <3>4. Only(IF Len(body) < 2 THEN body ELSE <<Head(body), EMIT("POP"), LIST(Tail(body))>>)
      BY <2>4 DEF VisitList
    <3> HIDE DEF body
    <3>5. CASE Len(body) < 2
      <4>1. \A i \in 1..Len(body) : FitItem(body[i], cs, cs, E)
        BY <1>3, <3>3, FitStm
      <4> QED
        BY <1>4, <3>3, <3>4, <3>5, <4>1
    <3>6. CASE ~(Len(body) < 2)
      <4> DEFINE x == <<Head(body), EMIT("POP"), LIST(Tail(body))>>
      <4>1. Head(body) \in Stms /\ Tail(body) \in Seq(Stms) /\ "POP" \in Plain
        BY <3>2, <3>3, <3>6, HeadTailProperties, EmptyIs DEF Plain
      <4>2. FitItem(x[1], cs, cs, E) /\ FitItem(x[2], cs, cs, E) /\ FitItem(x[3], cs, cs, E)
        BY <1>3, <4>1, FitStm, FitEmit, FitList
      <4>3. IsSeq(x) /\ Len(x) = 3
        BY Tuple3
      <4>4. Only(x)
        BY <3>4, <3>6
      <4> HIDE DEF x
      <4> QED
        BY <1>4, <4>2, <4>3, <4>4
    <3> QED
      BY <3>5, <3>6
  <2>5. CASE VisitFor
    <3> DEFINE y == [k |-> "to", for |-> Node]
               x == <<Node.from, y>>
    <3>1. Node.k = "for" /\ Node \in Stms /\ Node.from \in Stms
      BY <1>2, <2>5, StmKind DEF VisitFor, At, Node, Statement
    <3>2. FitItem(y, cs, cs, E)
      BY <1>3, <3>1 DEF FitItem, Kinds, ExpKinds, StmKinds
    <3> HIDE DEF y
    <3>3. FitItem(x[1], cs, cs, E) /\ FitItem(x[2], cs, cs, E)
      BY <1>3, <3>1, <3>2, FitStm
    <3>4. IsSeq(x) /\ Len(x) = 2
      BY Tuple2
    <3>5. Only(x)
      BY <2>5 DEF VisitFor, y
    <3> HIDE DEF x
    <3> QED
      BY <1>4, <3>3, <3>4, <3>5
  <2> QED
    BY <2>1, <2>2, <2>3, <2>4, <2>5
<1> QED
  BY <1>1, <1>4, OnlyCompiled

LEMMA AssignCompiled ==
    ASSUME NEW E, Compiled(E), VisitAssign \/ VisitStep
    PROVE  \E F : Compiled(F)' /\ Grows(E, F)
<1> DEFINE obj == STR(Node.n)
           i == IndexOf(obj)
<1>1. todo # <<>> /\ Node.k \in {"assign", "inc", "dec"} /\ lists' = Stored(obj)
      /\ UNCHANGED <<blks, fns, cb, cs>>
  BY DEF VisitAssign, VisitStep, At, Node
<1>2. Node \in Stms
  BY <1>1, HeadFits DEF FitItem, StmKinds
<1>3. E \in Env /\ cs \in DOMAIN E.size
  BY <1>1, HeadFits
<1>4. Val(obj, Len(fns))
  BY DEF STR, Val
<1>5. PICK F : Made(F, blks, Stored(obj), fns) /\ Grows(E, F) /\ i \in 1..F.size[cs]
  BY <1>3, <1>4, MakeConst DEF Compiled
<1>6. Made(F, blks, lists, fns)' /\ F \in Env /\ cs \in DOMAIN F.size
  BY <1>1, <1>3, <1>5 DEF Made, Grows
<1>7. "STORE_NAME" \in OnConst /\ "LOAD_NAME" \in OnConst /\ "ADD" \in Plain /\ "SUB" \in Plain
  BY DEF OnConst, Plain, Binary
<1>8. CASE VisitAssign
  <2> DEFINE x == <<Node.s, EMIT_ARG("STORE_NAME", i)>>
  <2>1. Node.k = "assign" /\ Node.s \in Stms
    BY <1>2, <1>8, StmKind DEF VisitAssign, At, Node, Statement
  <2>2. Then(x)
    BY <1>8 DEF VisitAssign
  <2> HIDE DEF obj, i
  <2>3. FitItem(x[1], cs, cs, F) /\ FitItem(x[2], cs, cs, F)
    BY <1>5, <1>6, <1>7, <2>1, FitStm, FitArg
  <2>4. IsSeq(x) /\ Len(x) = 2
    BY Tuple2
  <2> HIDE DEF x
  <2>5. \A j \in 1..Len(x) : FitItem(x[j], cs, cs, F)
    BY <2>3, <2>4
  <2> QED
    BY <1>1, <1>5, <1>6, <2>2, <2>4, <2>5, StillCompiled
<1>9. CASE VisitStep
  <2> DEFINE op == IF Node.k = "inc" THEN "ADD" ELSE "SUB"
             x == <<EMIT_ARG("LOAD_NAME", i), EMIT_CONST("PUSH", INT(1)),
                    EMIT(op), EMIT_ARG("STORE_NAME", i)>>
  <2>1. Then(x)
    BY <1>9 DEF VisitStep
  <2>2. op \in Plain /\ Val(INT(1), F.n)
    BY <1>7 DEF INT, Val
  <2>3. Node.k # "leave"
    BY <1>1
  <2> HIDE DEF obj, i, op
  <2>4. FitItem(x[1], cs, cs, F) /\ FitItem(x[2], cs, cs, F) /\ FitItem(x[3], cs, cs, F) /\ FitItem(x[4], cs, cs, F)
    BY <1>5, <1>6, <1>7, <2>2, FitArg, FitConst, FitEmit
  <2>5. IsSeq(x) /\ Len(x) = 4
    BY Tuple4
  <2> HIDE DEF x
  <2>6. \A j \in 1..Len(x) : FitItem(x[j], cs, cs, F)
    BY <2>4, <2>5
  <2> QED
    BY <1>1, <1>5, <1>6, <2>1, <2>3, <2>5, <2>6, StillCompiled
<1> QED
  BY <1>8, <1>9

LEMMA IfCompiled ==
    ASSUME NEW E, Compiled(E), VisitIf
    PROVE  \E F : Compiled(F)' /\ Grows(E, F)
<1> DEFINE B == Append(blks, EmptyBlock)
           next == Len(blks) + 1
           end == Len(B) + 1
<1>1. todo # <<>> /\ Node.k = "if" /\ UNCHANGED <<lists, fns, cb, cs>>
  BY DEF VisitIf, At, Node
<1>2. Node \in Stms
  BY <1>1, HeadFits DEF FitItem, StmKinds
<1>3. /\ Node.e \in Exps /\ Node.then \in Seq(Stms)
      /\ Node.els # <<>> => Node.els[1] \in Seq(Stms)
  BY <1>1, <1>2, StmKind DEF Statement
<1>4. E \in Env /\ cs \in DOMAIN E.size /\ Made(E, blks, lists, fns)
  BY <1>1, HeadFits DEF Compiled
<1>5. PICK G : Made(G, B, lists, fns) /\ Grows(E, G) /\ DOMAIN G.size = DOMAIN E.size /\ Len(B) = Len(blks) + 1
               /\ next \in DOMAIN G.own /\ G.own[next] = cs
  BY <1>4, MakeBlock
<1>6. PICK F : Made(F, Append(B, EmptyBlock), lists, fns) /\ Grows(G, F) /\ DOMAIN F.size = DOMAIN G.size
               /\ end \in DOMAIN F.own /\ F.own[end] = cs
  <2> HIDE DEF B
  <2> QED
    BY <1>4, <1>5, MakeBlock
<1>7. blks' = Append(B, EmptyBlock)
  <2>1. blks \in Seq(CodeBlock) /\ EmptyBlock \in CodeBlock
    BY <1>4, EmptyIs DEF Made, BlocksFit, EmptyBlock, CodeBlock, NoBlock
  <2>2. blks' = blks \o <<EmptyBlock, EmptyBlock>>
    BY DEF VisitIf
  <2> HIDE DEF EmptyBlock
  <2> QED
    BY <2>1, <2>2
<1>8. Made(F, blks, lists, fns)'
  BY <1>1, <1>6, <1>7 
<1>9. Grows(E, F) /\ F \in Env /\ cs \in DOMAIN F.size /\ next \in DOMAIN F.own /\ F.own[next] = cs
  <2>1. G \in Env /\ F \in Env
    BY <1>5, <1>6 DEF Made
  <2>2. Grows(E, F)
    BY <1>4, <1>5, <1>6, <2>1, GrowsTwice
  <2> QED
    BY <1>4, <1>5, <1>6, <2>1, <2>2 DEF Grows
<1> DEFINE els == IF Node.els # <<>> THEN LIST(Node.els[1]) ELSE EMIT_CONST("PUSH", NIL)
           x == <<Node.e, EMIT_JMP("JUMP_FALSE", next),
                  LIST(Node.then), EMIT_JMP("JUMP", end), NEXT_BLOCK(next), els, NEXT_BLOCK(end)>>
<1>10. Then(x)
  <2>1. end = FirstNew + 1 /\ next = FirstNew
    BY <1>5 DEF FirstNew
  <2> QED
    BY <2>1 DEF VisitIf
<1>11. Val(NIL, F.n) /\ "JUMP_FALSE" \in Jumping /\ "JUMP" \in Jumping
  BY DEF NIL, Val, Jumping
<1> HIDE DEF next, end
<1>12. FitItem(els, cs, cs, F)
  BY <1>3, <1>9, <1>11, FitList, FitConst
<1> HIDE DEF els
<1>13. /\ FitItem(x[1], cs, cs, F) /\ FitItem(x[2], cs, cs, F) /\ FitItem(x[3], cs, cs, F)
       /\ FitItem(x[4], cs, cs, F) /\ FitItem(x[5], cs, cs, F) /\ FitItem(x[6], cs, cs, F) /\ FitItem(x[7], cs, cs, F)
  BY <1>3, <1>6, <1>9, <1>11, <1>12, FitExp, FitList, FitJump, FitNext
<1>14. IsSeq(x) /\ Len(x) = 7
  BY Tuple7
<1> HIDE DEF x
<1>15. \A j \in 1..Len(x) : FitItem(x[j], cs, cs, F)
  BY <1>13, <1>14
<1> QED
  BY <1>1, <1>8, <1>9, <1>10, <1>14, <1>15, StillCompiled

LEMMA ForToCompiled ==
    ASSUME NEW E, Compiled(E), VisitForTo
    PROVE  \E F : Compiled(F)' /\ Grows(E, F)
<1> DEFINE f == Node.for
           obj == STR(f.n)
           i == IndexOf(obj)
           to_block == Len(blks) + 1
<1>1. /\ todo # <<>> /\ Node.k = "to" /\ lists' = Stored(obj) /\ blks' = Append(blks, EmptyBlock)
      /\ UNCHANGED <<fns, cb, cs>>
  BY DEF VisitForTo, At, Node
<1>2. f \in Stms /\ f.k = "for"
  BY <1>1, HeadFits DEF FitItem
<1>3. f.to \in Stms
  BY <1>2, StmKind DEF Statement
<1>4. E \in Env /\ cs \in DOMAIN E.size
  BY <1>1, HeadFits
<1>5. Val(obj, Len(fns))
  BY DEF STR, Val
<1>6. PICK G : Made(G, blks, Stored(obj), fns) /\ Grows(E, G) /\ i \in 1..G.size[cs]
  BY <1>4, <1>5, MakeConst DEF Compiled
<1>7. G \in Env /\ cs \in DOMAIN G.size
  BY <1>4, <1>6 DEF Made, Grows
<1> HIDE DEF f, obj, i
<1>8. PICK F : Made(F, Append(blks, EmptyBlock), Stored(obj), fns) /\ Grows(G, F) /\ DOMAIN F.size = DOMAIN G.size
               /\ to_block \in DOMAIN F.own /\ F.own[to_block] = cs
  BY <1>6, <1>7, MakeBlock
<1>9. Made(F, blks, lists, fns)'
  BY <1>1, <1>8
<1>10. Grows(E, F) /\ F \in Env /\ cs \in DOMAIN F.size
  BY <1>4, <1>6, <1>7, <1>8, GrowsTwice DEF Made
<1>11. i \in 1..F.size[cs]
  <2>1. G.size[cs] \in Nat /\ F.size[cs] \in Nat /\ F.size[cs] >= G.size[cs]
    BY <1>7, <1>8, <1>10, EnvType DEF Grows
  <2> QED
    BY <1>6, <2>1
<1> DEFINE y == [k |-> "do", for |-> f, to_block |-> to_block]
           x == <<EMIT_ARG("STORE_NAME", i), EMIT("POP"), NEXT_BLOCK(to_block),
                  EMIT_ARG("LOAD_NAME", i), EMIT("DUP"), f.to, EMIT("EQ"), y>>
<1>12. Then(x)
  BY DEF VisitForTo, FirstNew, f, i, obj
<1>13. FitItem(y, cs, cs, F)
  BY <1>2, <1>8, <1>10 DEF FitItem, Kinds, ExpKinds, StmKinds
<1> HIDE DEF y, to_block
<1>14. "STORE_NAME" \in OnConst /\ "LOAD_NAME" \in OnConst /\ "POP" \in Plain /\ "DUP" \in Plain /\ "EQ" \in Plain
  BY DEF OnConst, Plain, Binary
<1>15. /\ FitItem(x[1], cs, cs, F) /\ FitItem(x[2], cs, cs, F) /\ FitItem(x[3], cs, cs, F)
       /\ FitItem(x[4], cs, cs, F) /\ FitItem(x[5], cs, cs, F) /\ FitItem(x[6], cs, cs, F)
       /\ FitItem(x[7], cs, cs, F) /\ FitItem(x[8], cs, cs, F)
  BY <1>3, <1>8, <1>10, <1>11, <1>13, <1>14, FitStm, FitArg, FitEmit, FitNext
<1>16. IsSeq(x) /\ Len(x) = 8
  BY Tuple8
<1> HIDE DEF x
<1>17. \A j \in 1..Len(x) : FitItem(x[j], cs, cs, F)
  BY <1>15, <1>16
<1> QED
  BY <1>1, <1>9, <1>10, <1>12, <1>16, <1>17, StillCompiled

LEMMA ForBodyCompiled ==
    ASSUME NEW E, Compiled(E), VisitForBody
    PROVE  \E F : Compiled(F)' /\ Grows(E, F)
<1> DEFINE f == Node.for
           end_block == Len(blks) + 1
<1>1. /\ todo # <<>> /\ Node.k = "do" /\ blks' = Append(blks, EmptyBlock)
      /\ UNCHANGED <<lists, fns, cb, cs>>
  BY DEF VisitForBody, At, Node
<1>2. f \in Stms /\ f.k = "for" /\ Node.to_block \in DOMAIN E.own /\ E.own[Node.to_block] = cs
  BY <1>1, HeadFits DEF FitItem
<1>3. f.body \in Seq(Stms) /\ f.step \in Stms
  BY <1>2, StmKind DEF Statement
<1>4. E \in Env /\ cs \in DOMAIN E.size /\ Made(E, blks, lists, fns)
  BY <1>1, HeadFits DEF Compiled
<1>5. PICK F : Made(F, Append(blks, EmptyBlock), lists, fns) /\ Grows(E, F) /\ DOMAIN F.size = DOMAIN E.size
               /\ end_block \in DOMAIN F.own /\ F.own[end_block] = cs
  BY <1>4, MakeBlock
<1>6. Made(F, blks, lists, fns)' /\ F \in Env /\ cs \in DOMAIN F.size
  BY <1>1, <1>4, <1>5 DEF Made
<1>7. Node.to_block \in DOMAIN F.own /\ F.own[Node.to_block] = cs
  BY <1>2, <1>5 DEF Grows
<1> DEFINE x == <<EMIT_JMP("JUMP_TRUE", end_block), EMIT("POP"), LIST(f.body), EMIT("POP"),
                  f.step, EMIT("POP"), EMIT_JMP("JUMP", Node.to_block), NEXT_BLOCK(end_block)>>
<1>8. Then(x)
  BY DEF VisitForBody, FirstNew
<1> HIDE DEF f, end_block
<1>9. "JUMP_TRUE" \in Jumping /\ "JUMP" \in Jumping /\ "POP" \in Plain
  BY DEF Jumping, Plain
<1>10. /\ FitItem(x[1], cs, cs, F) /\ FitItem(x[2], cs, cs, F) /\ FitItem(x[3], cs, cs, F)
       /\ FitItem(x[4], cs, cs, F) /\ FitItem(x[5], cs, cs, F) /\ FitItem(x[6], cs, cs, F)
       /\ FitItem(x[7], cs, cs, F) /\ FitItem(x[8], cs, cs, F)
  BY <1>3, <1>5, <1>6, <1>7, <1>9, FitStm, FitList, FitJump, FitEmit, FitNext
<1>11. IsSeq(x) /\ Len(x) = 8
  BY Tuple8
<1> HIDE DEF x
<1>12. \A j \in 1..Len(x) : FitItem(x[j], cs, cs, F)
  BY <1>10, <1>11
<1> QED
  BY <1>1, <1>5, <1>6, <1>8, <1>11, <1>12, StillCompiled

LEMMA TwoFirst ==
    ASSUME NEW a, NEW b, NEW t, IsSeq(t)
    PROVE  <<a, b>> \o t = <<a>> \o (<<b>> \o t)
<1>1. <<a, b>> = <<a>> \o <<b>>
  <2> DEFINE s == <<a>>
             u == <<b>>
             v == <<a, b>>
  <2>1. s \in Seq({a, b}) /\ u \in Seq({a, b}) /\ v \in Seq({a, b})
    OBVIOUS
  <2>2. Len(s) = 1 /\ s[1] = a /\ Len(u) = 1 /\ u[1] = b /\ Len(v) = 2 /\ v[1] = a /\ v[2] = b
    OBVIOUS
  <2> HIDE DEF s, u, v
  <2>3. /\ s \o u \in Seq({a, b}) /\ Len(s \o u) = Len(s) + Len(u)
        /\ \A i \in 1..Len(s) + Len(u) : (s \o u)[i] = IF i <= Len(s) THEN s[i] ELSE u[i - Len(s)]
    BY <2>1, ConcatProperties
  <2>4. Len(s \o u) = 2 /\ \A i \in 1..2 : (s \o u)[i] = v[i]
    BY <2>2, <2>3
  <2> DEFINE w == s \o u
  <2> HIDE DEF w
  <2>5. w = v
    BY <2>1, <2>2, <2>3, <2>4, SeqEqual, Zenon DEF w
  <2> QED
    BY <2>5 DEF s, u, v, w
<1>2. IsSeq(<<a>>) /\ IsSeq(<<b>>)
  BY OneIs
<1> QED
  BY <1>1, <1>2, ConcatAll

\* A function is compiled into a list of constants of its own,
LEMMA FunctionCompiled ==
    ASSUME NEW E, Compiled(E), VisitFunction
    PROVE  \E F : Compiled(F)' /\ Grows(E, F)
<1> DEFINE c == Len(lists) + 1
           b == Len(blks) + 1
           ms == Append(lists, <<>>)
<1>1. /\ todo # <<>> /\ Node.k = "fn" /\ blks' = Append(blks, EmptyBlock) /\ lists' = ms
      /\ cb' = b /\ cs' = c /\ fns' = fns
  BY DEF VisitFunction, At, Node, FirstNew
<1>2. E \in Env /\ cs \in DOMAIN E.size /\ cb \in DOMAIN E.own /\ E.own[cb] = cs
      /\ Made(E, blks, lists, fns)
  BY <1>1, HeadFits DEF Compiled
<1>3. PICK e : FitItem(Node, cs, e, E) /\ Fit(Tail(todo), e, E)
  BY <1>1, HeadFits
<1>4. e = cs /\ Node \in Exps
  BY <1>1, <1>3 DEF FitItem, ExpKinds
<1>5. Node.ps \in Seq(STRING) /\ Node.body \in Seq(Stms)
  BY <1>1, <1>4, ExpKind DEF Expression
<1>6. IsSeq(lists) /\ Len(lists) \in Nat /\ \A d \in 1..Len(lists) : Vals(lists[d], Len(fns))
  BY <1>2, SizesType DEF Made, ListsFit
<1>7. /\ IsSeq(ms) /\ Len(ms) = c /\ ms[c] = <<>>
      /\ \A d \in 1..Len(lists) : ms[d] = lists[d]
  BY <1>6, AppendIs
<1> HIDE DEF ms
<1>8. ListsFit(ms, Len(fns))
  <2>1. Vals(<<>>, Len(fns))
    BY EmptyIs DEF Vals
  <2> QED
    BY <1>6, <1>7, <2>1 DEF ListsFit
<1>9. Len(ms) >= Len(lists) /\ \A d \in 1..Len(lists) : Len(ms[d]) >= Len(lists[d])
  BY <1>6, <1>7, IsSeqFacts DEF Vals
<1>10. PICK G : Made(G, blks, ms, fns) /\ Grows(E, G)
  BY <1>2, <1>8, <1>9, MakeLists
<1>11. G \in Env /\ c \in DOMAIN G.size
  BY <1>6, <1>7, <1>8, <1>10, SizesType DEF Made
<1>12. PICK F : Made(F, Append(blks, EmptyBlock), ms, fns) /\ Grows(G, F) /\ DOMAIN F.size = DOMAIN G.size
                /\ b \in DOMAIN F.own /\ F.own[b] = c
  BY <1>10, <1>11, MakeBlock
<1>13. Made(F, blks, lists, fns)'
  BY <1>1, <1>12
<1>14. Grows(E, F) /\ F \in Env /\ c \in DOMAIN F.size
  BY <1>2, <1>10, <1>11, <1>12, GrowsTwice DEF Made
<1> DEFINE t == Tail(todo)
           f == [ps |-> Node.ps, blk |-> b, cs |-> c]
           y == [k |-> "leave", cb |-> cb, cs |-> cs, f |-> f]
<1>15. todo' = <<LIST(Node.body), y>> \o t
  <2>1. b = cb' /\ c = cs'
    BY <1>1
  <2> QED
    BY <2>1 DEF VisitFunction, Then
<1>16. Fit(t, cs, F)
  BY <1>2, <1>3, <1>4, <1>14, FitGrows
<1>17. FitItem(y, c, cs, F)
  <2>1. cs \in DOMAIN F.size /\ cb \in DOMAIN F.own /\ F.own[cb] = cs
    BY <1>2, <1>14 DEF Grows
  <2> QED
    BY <1>5, <1>12, <1>14, <2>1 DEF FitItem, Kinds, ExpKinds, StmKinds
<1>18. FitItem(LIST(Node.body), c, c, F)
  BY <1>5, <1>14, FitList
<1> HIDE DEF y, t
<1>19. Fit(<<LIST(Node.body)>> \o (<<y>> \o t), c, F)
  <2>1. Fit(<<y>> \o t, c, F)
    BY <1>14, <1>16, <1>17, FitCons
  <2> QED
    BY <1>14, <1>18, <2>1, FitCons
<1>20. Fit(todo, cs, F)'
  <2>1. IsSeq(t)
    BY <1>16 DEF Fit
  <2>2. todo' = <<LIST(Node.body)>> \o (<<y>> \o t)
    BY <1>15, <2>1, TwoFirst
  <2> QED
    BY <1>1, <1>19, <2>2
<1>21. Compiled(F)'
  BY <1>1, <1>12, <1>13, <1>14, <1>20 DEF Compiled
<1> QED
  BY <1>14, <1>21

\* and what follows it finds the list of the code around it.
LEMMA LeaveCompiled ==
    ASSUME NEW E, Compiled(E), LeaveFunction
    PROVE  \E F : Compiled(F)' /\ Grows(E, F)
<1> DEFINE f == Node.f
           e == Node.cs
           t == Tail(todo)
<1>1. /\ todo # <<>> /\ Node.k = "leave" /\ cb' = Node.cb /\ cs' = e /\ fns' = Append(fns, f)
      /\ UNCHANGED <<blks, lists>>
  BY DEF LeaveFunction, At, Node
<1>2. PICK d : FitItem(Node, cs, d, E) /\ Fit(t, d, E)
  BY <1>1, HeadFits
<1>3. d = e /\ FnFits(f, E) /\ e \in DOMAIN E.size /\ Node.cb \in DOMAIN E.own /\ E.own[Node.cb] = e
      /\ f.ps \in Seq(STRING)
  BY <1>1, <1>2 DEF FitItem, FnFits
<1>4. E \in Env /\ E.n = Len(fns) /\ E.n \in Nat /\ Made(E, blks, lists, fns)
  BY EnvType DEF Compiled, Made
<1>5. PICK F : Made(F, blks, lists, Append(fns, f)) /\ Grows(E, F) /\ F.own = E.own /\ F.size = E.size /\ F.n = E.n + 1
  BY <1>3, <1>4, MakeFn
<1>6. Made(F, blks, lists, fns)' /\ F \in Env /\ e \in DOMAIN F.size
  BY <1>1, <1>3, <1>5 DEF Made
<1> DEFINE n == Len(fns) + 1
           m == Len(f.ps)
           s == [x \in 1..m |-> STORE(f.ps[x])]
           u == EMIT_CONST("PUSH", FN(n))
<1>7. todo' = (s \o <<u>>) \o t
  BY DEF LeaveFunction, Then
<1>8. FitItem(u, e, e, F)
  <2>1. Val(FN(n), F.n)
    BY <1>4, <1>5 DEF FN, Val
  <2> QED
    BY <1>6, <2>1, FitConst
<1>9. m \in Nat
  BY <1>3, LenProperties
<1>10. IsSeq(s) /\ Len(s) = m
  <2>1. s \in [1..m -> {STORE(f.ps[x]) : x \in 1..m}]
    OBVIOUS
  <2>2. s \in Seq({STORE(f.ps[x]) : x \in 1..m})
    BY <1>9, <2>1, SeqDef
  <2>3. Len(s) = m
    BY <1>9, <2>1, <2>2, LenProperties
  <2> HIDE DEF s
  <2> QED
    BY <2>2, <2>3, SeqIs
<1>11. \A x \in 1..Len(s) : FitItem(s[x], e, e, F)
  BY <1>6, <1>10, FitStore
<1> HIDE DEF s, u, n, m, t, e
<1>12. IsSeq(<<u>>) /\ \A x \in 1..Len(<<u>>) : FitItem(<<u>>[x], e, e, F)
  BY <1>8, OneIs
<1> DEFINE v == s \o <<u>>
<1>13. IsSeq(v) /\ \A x \in 1..Len(v) : FitItem(v[x], e, e, F)
  BY <1>10, <1>11, <1>12, BothFit
<1> HIDE DEF v
<1>14. Fit(t, e, F)
  BY <1>2, <1>3, <1>4, <1>5, <1>6, FitGrows
<1>15. Fit(v \o t, e, F)
  BY <1>6, <1>13, <1>14, FitAll
<1>16. Compiled(F)'
  BY <1>1, <1>3, <1>5, <1>6, <1>7, <1>15 DEF Compiled, v
<1> QED
  BY <1>5, <1>16

\* What has been made stays made, and what is left to do fits it.
LEMMA VisitCompiled ==
    ASSUME NEW E, Compiled(E), Visit
    PROVE  \E F : Compiled(F)' /\ Grows(E, F)
  BY AddOpCompiled, AddOpOnConstCompiled, StoreObjCompiled, UseNextCompiled,
     VisitLiteralCompiled, ExpCompiled, FunctionCompiled, LeaveCompiled, StmCompiled,
     AssignCompiled, IfCompiled, ForToCompiled, ForBodyCompiled DEF Visit

LEMMA GenerateCompiled ==
    ASSUME NEW E, Compiled(E), NEW body \in Seq(Stms), NEW c \in DOMAIN E.size, Generate(body, c)
    PROVE  \E F : /\ Compiled(F)' /\ Grows(E, F)
                  /\ FirstNew \in DOMAIN F.own /\ F.own[FirstNew] = c
<1>1. PICK F : Made(F, Append(blks, EmptyBlock), lists, fns) /\ Grows(E, F) /\ DOMAIN F.size = DOMAIN E.size
               /\ FirstNew \in DOMAIN F.own /\ F.own[FirstNew] = c
  BY MakeBlock DEF Compiled, FirstNew
<1>2. F \in Env /\ c \in DOMAIN F.size
  BY <1>1 DEF Made
<1> DEFINE x == <<LIST(body)>>
<1>3. FitItem(LIST(body), c, c, F)
  BY <1>2, FitList
<1>4. Fit(<<LIST(body)>> \o <<>>, c, F)
  BY <1>2, <1>3, FitEmpty, FitCons
<1>5. Fit(<<LIST(body)>>, c, F)
  BY <1>4, OneIs, ConcatEmpty
<1>6. Compiled(F)'
  BY <1>1, <1>2, <1>5 DEF Compiled, Generate
<1> QED
  BY <1>1, <1>6

-----------------------------------------------------------------------------
(* The machine. *)

Frame(f) ==
    f = [eb |-> f.eb, cs |-> f.cs, pc |-> f.pc, sp |-> f.sp, at |-> f.at, stk |-> f.stk,
         own |-> f.own, locals |-> f.locals]

\* A saved depth of 0 is one that was saved, or that of a new main block.
FrameFits(f, E) ==
    /\ Frame(f)
    /\ f.cs \in DOMAIN E.size
    /\ f.eb # 0 => f.eb \in DOMAIN E.own /\ E.own[f.eb] = f.cs
    /\ f.sp = 0 => f.pc \in Nat
    /\ Vals(f.stk, E.n) /\ Len(f.stk) <= StackSize
    /\ ValMap(f.locals, E.n)

\* A caller has room for the value of its call.
CallerFits(f) == f.pc \in Nat /\ Len(f.stk) < StackSize

FramesFit(fs, E) ==
    /\ IsSeq(fs) /\ Len(fs) >= 1
    /\ \A x \in 1..Len(fs) : FrameFits(fs[x], E)
    /\ \A x \in 1..Len(fs) - 1 : CallerFits(fs[x])

\* The registers are in the code of the constant list c.
IpFits(p, c, E) == p.b # 0 => p.b \in DOMAIN E.own /\ E.own[p.b] = c

RestFits(E) ==
    /\ session \in Sessions /\ k \in 0..Len(session)
    /\ mode \in Modes /\ base \in Nat \ {0}
    /\ ip.b # 0 => ip.b \in DOMAIN E.own
    /\ ip.i \in Nat \ {0}
    /\ ValMap(globals, E.n)
    /\ IsSeq(log) /\ \A x \in 1..Len(log) : log[x].e \in {"print", "result", "error"}

\* Once the block that eval began with has been popped, it is kept.
Sound(E) ==
    /\ Compiled(E)
    /\ FramesFit(frames, E)
    /\ RestFits(E)
    /\ mode = "run" => IpFits(ip, Top.cs, E)
    /\ mode = "run" /\ Len(frames) < base => FrameFits(kept, E)

Safe == \E E : Sound(E)

LEMMA TopFits ==
    ASSUME NEW E, FramesFit(frames, E)
    PROVE  /\ FrameFits(Top, E) /\ Top = frames[Len(frames)] /\ Len(frames) \in Nat \ {0}
           /\ Vals(Stack, E.n) /\ IsSeq(Stack) /\ Len(Stack) \in Nat
           /\ Len(Stack) <= StackSize /\ Top.cs \in DOMAIN E.size
<1>1. Len(frames) \in Nat \ {0}
  BY IsSeqFacts DEF FramesFit
<1>2. FrameFits(Top, E) /\ Top = frames[Len(frames)]
  BY <1>1 DEF FramesFit, Top, Last
<1> HIDE DEF Top
<1>3. Vals(Stack, E.n) /\ Len(Stack) <= StackSize /\ Top.cs \in DOMAIN E.size
  BY <1>2 DEF FrameFits, Stack
<1> QED
  BY <1>1, <1>2, <1>3, IsSeqFacts DEF Vals

LEMMA ValsGrow ==
    ASSUME NEW m \in Nat, NEW n \in Nat, n >= m
    PROVE  /\ \A s : Vals(s, m) => Vals(s, n)
           /\ \A map : ValMap(map, m) => ValMap(map, n)
  BY ValGrows DEF Vals, ValMap

LEMMA FrameFitsGrows ==
    ASSUME NEW E \in Env, NEW F \in Env, Grows(E, F), NEW f, FrameFits(f, E)
    PROVE  FrameFits(f, F)
<1>1. E.n \in Nat /\ F.n \in Nat /\ F.n >= E.n
  BY EnvType DEF Grows
<1>2. Vals(f.stk, F.n) /\ ValMap(f.locals, F.n)
  BY <1>1, ValsGrow DEF FrameFits
<1> QED
  BY <1>2 DEF FrameFits, Grows

LEMMA FramesFitGrows ==
    ASSUME NEW E \in Env, NEW F \in Env, Grows(E, F), NEW fs, FramesFit(fs, E)
    PROVE  FramesFit(fs, F)
  BY FrameFitsGrows DEF FramesFit

\* Another block on top.
LEMMA NewTop ==
    ASSUME NEW E, NEW fs, FramesFit(fs, E), NEW g, FrameFits(g, E)
    PROVE  /\ FramesFit([fs EXCEPT ![Len(fs)] = g], E)
           /\ Len([fs EXCEPT ![Len(fs)] = g]) = Len(fs)
           /\ Last([fs EXCEPT ![Len(fs)] = g]) = g
<1>1. Len(fs) \in Nat \ {0} /\ Len(fs) \in 1..Len(fs)
  BY IsSeqFacts DEF FramesFit
<1> DEFINE gs == [fs EXCEPT ![Len(fs)] = g]
<1>2. /\ IsSeq(gs) /\ Len(gs) = Len(fs)
      /\ \A i \in 1..Len(fs) : gs[i] = IF i = Len(fs) THEN g ELSE fs[i]
  BY <1>1, ExceptIs DEF FramesFit
<1> HIDE DEF gs
<1>3. FramesFit(gs, E) /\ Last(gs) = g
  BY <1>1, <1>2 DEF FramesFit, Last
<1> QED
  BY <1>2, <1>3 DEF gs

LEMMA SafeInit == Init => Safe
<1> SUFFICES ASSUME Init PROVE Safe
  OBVIOUS
<1> DEFINE own == [b \in 1..0 |-> 0]
           size == [c \in 1..1 |-> 0]
           E == [own |-> own, size |-> size, n |-> 0]
<1>1. blks = <<>> /\ lists = <<<<>>>> /\ fns = <<>> /\ todo = <<>> /\ cs = 1
  BY DEF Init, GenInit
<1>2. /\ E \in Env /\ E.own = own /\ E.size = size /\ E.n = 0
  <2>1. own \in [1..0 -> Nat] /\ size \in [1..1 -> Nat]
    OBVIOUS
  <2>2. own \in Tables /\ size \in Tables
    BY <2>1 DEF Tables
  <2> QED
    BY <2>2 DEF Env
<1>3. DOMAIN own = 1..0 /\ DOMAIN size = 1..1
  OBVIOUS
<1>4. Sizes(lists) = size
  BY <1>1, OneIs, EmptyIs DEF Sizes
<1> HIDE DEF E, own, size
<1>5. IsSeq(<<>>) /\ Len(<<>>) = 0
  BY EmptyIs
<1>6. Made(E, blks, lists, fns)
  <2>1. BlocksFit(blks, E)
    <3>1. blks \in Seq(CodeBlock) /\ Len(blks) = 0
      BY <1>1, <1>5
    <3> QED
      BY <1>2, <1>3, <3>1 DEF BlocksFit
  <2>2. ListsFit(lists, Len(fns))
    BY <1>1, <1>5, OneIs DEF ListsFit, Vals
  <2>3. FnsFit(fns, E)
    BY <1>1, <1>5 DEF FnsFit
  <2> QED
    BY <1>1, <1>2, <1>4, <1>5, <2>1, <2>2, <2>3 DEF Made
<1>7. Compiled(E)
  BY <1>1, <1>2, <1>3, <1>6, FitEmpty DEF Compiled
<1>8. frames = <<MainFrame>> /\ mode = "idle" /\ k = 0 /\ base = 1 /\ session \in Sessions
      /\ ip = [b |-> 0, i |-> 1] /\ globals = <<>> /\ log = <<>>
  BY DEF Init
<1>9. FrameFits(MainFrame, E)
  <2>1. Vals(<<>>, E.n) /\ ValMap(<<>>, E.n)
    BY <1>5 DEF Vals, ValMap
  <2> QED
    BY <1>2, <1>3, <1>5, <2>1, StackSizeAssumption DEF FrameFits, Frame, MainFrame
<1>10. FramesFit(frames, E)
  <2> HIDE DEF MainFrame
  <2>1. IsSeq(<<MainFrame>>) /\ Len(<<MainFrame>>) = 1 /\ <<MainFrame>>[1] = MainFrame
    BY OneIs
  <2> QED
    BY <1>8, <1>9, <2>1 DEF FramesFit
<1>11. RestFits(E)
  <2>1. Len(session) \in Nat
    BY <1>8, SessionsAssumption, LenProperties
  <2> QED
    BY <1>2, <1>5, <1>8, <2>1 DEF RestFits, Modes, ValMap
<1> QED
  BY <1>7, <1>8, <1>10, <1>11 DEF Safe, Sound

LEMMA CompileSafe ==
    ASSUME NEW E, Sound(E), Compile
    PROVE  \E F : Sound(F)'
<1>1. /\ mode' = "visit" /\ k' = k + 1 /\ k < Len(session) /\ Generate(session[k + 1], Top.cs)
      /\ frames' = [frames EXCEPT ![Len(frames)].eb = FirstNew]
      /\ UNCHANGED <<session, base, kept, ip, globals, log>>
  BY DEF Compile
<1>2. session[k + 1] \in Seq(Stms) /\ k + 1 \in 0..Len(session)
  <2>1. session \in Seq(Seq(Stms) \ {<<>>}) /\ k \in Nat /\ Len(session) \in Nat
    BY SessionsAssumption, LenProperties DEF Sound, RestFits
  <2>2. k + 1 \in 1..Len(session) /\ k + 1 \in 0..Len(session)
    <3>1. k < Len(session)
      BY <1>1
    <3> QED
      BY <2>1, <3>1
  <2> QED
    BY <2>1, <2>2, ElementOfSeq
<1>3. FrameFits(Top, E) /\ Top = frames[Len(frames)] /\ Top.cs \in DOMAIN E.size
  BY TopFits DEF Sound
<1>4. PICK F : Compiled(F)' /\ Grows(E, F) /\ FirstNew \in DOMAIN F.own /\ F.own[FirstNew] = Top.cs
  BY <1>1, <1>2, <1>3, GenerateCompiled DEF Sound
<1>5. E \in Env /\ F \in Env /\ E.n \in Nat /\ F.n \in Nat /\ F.n >= E.n
  BY <1>4, EnvType DEF Sound, Compiled, Made, Grows
<1>6. FramesFit(frames, F) /\ FrameFits(Top, F)
  BY <1>3, <1>4, <1>5, FramesFitGrows, FrameFitsGrows DEF Sound
<1> DEFINE g == [Top EXCEPT !.eb = FirstNew]
<1>7. frames' = [frames EXCEPT ![Len(frames)] = g]
  BY <1>1, <1>3
<1> HIDE DEF Top
<1>8. FrameFits(g, F)
  BY <1>4, <1>6 DEF FrameFits, Frame
<1> HIDE DEF g
<1>9. FramesFit(frames', F)
  BY <1>6, <1>7, <1>8, NewTop
<1>10. RestFits(F)'
  <2>1. ValMap(globals, F.n)
    BY <1>5, ValsGrow DEF Sound, RestFits
  <2> QED
    BY <1>1, <1>2, <1>4, <2>1 DEF Sound, RestFits, Grows, Modes
<1> QED
  BY <1>1, <1>4, <1>9, <1>10 DEF Sound

LEMMA VisitSafe ==
    ASSUME NEW E, Sound(E), VisitTree
    PROVE  \E F : Sound(F)'
<1>1. mode = "visit" /\ Visit /\ mode' \in {"visit", "aborted"}
      /\ UNCHANGED <<session, k, frames, base, kept, ip, globals, log>>
  BY DEF VisitTree, run
<1>2. PICK F : Compiled(F)' /\ Grows(E, F)
  BY <1>1, VisitCompiled DEF Sound
<1>3. E \in Env /\ F \in Env /\ E.n \in Nat /\ F.n \in Nat /\ F.n >= E.n
  BY <1>2, EnvType DEF Sound, Compiled, Made, Grows
<1>4. FramesFit(frames, F)
  BY <1>2, <1>3, FramesFitGrows DEF Sound
<1>5. RestFits(F)'
  <2>1. ValMap(globals, F.n)
    BY <1>3, ValsGrow DEF Sound, RestFits
  <2> QED
    BY <1>1, <1>2, <2>1 DEF Sound, RestFits, Grows, Modes
<1> QED
  BY <1>1, <1>2, <1>4, <1>5 DEF Sound

\* A step that only changes the frame on top: the stack, the names.
LEMMA TopChange ==
    ASSUME NEW E, Sound(E), NEW g, FrameFits(g, E), g.cs = Top.cs,
           frames' = [frames EXCEPT ![Len(frames)] = g],
           UNCHANGED <<session, k, mode, base, kept, gen>>,
           IpFits(ip', Top.cs, E), ip'.i \in Nat \ {0}, ValMap(globals', E.n),
           IsSeq(log'), \A x \in 1..Len(log') : log'[x].e \in {"print", "result", "error"}
    PROVE  Sound(E)'
<1>1. FramesFit(frames', E) /\ Len(frames') = Len(frames) /\ Last(frames') = g
  BY NewTop DEF Sound
<1>2. Compiled(E)'
  BY DEF Sound, Compiled, gen
<1>3. RestFits(E)'
  BY DEF Sound, RestFits, IpFits
<1>4. IpFits(ip', Top'.cs, E)
  BY <1>1 DEF Top
<1> QED
  BY <1>1, <1>2, <1>3, <1>4 DEF Sound

\* A step that stops eval.
LEMMA StopSafe ==
    ASSUME NEW E, Sound(E), mode' \in Modes, mode' # "run",
           UNCHANGED <<session, k, base, frames, ip, gen>>, globals' = globals,
           IsSeq(log'), \A x \in 1..Len(log') : log'[x].e \in {"print", "result", "error"}
    PROVE  Sound(E)'
<1>1. Compiled(E)' /\ FramesFit(frames', E)
  BY DEF Sound, Compiled, gen
<1>2. RestFits(E)'
  BY DEF Sound, RestFits
<1> QED
  BY <1>1, <1>2 DEF Sound

LEMMA QuitSafe ==
    ASSUME NEW E, Sound(E), QuitVM
    PROVE  Sound(E)'
<1>1. IsSeq(log') /\ \A x \in 1..Len(log') : log'[x].e \in {"print", "result", "error"}
  <2> DEFINE r == ERROR
  <2>1. r.e = "error" /\ log' = Append(log, r) /\ IsSeq(log)
    BY DEF QuitVM, ERROR, Sound, RestFits
  <2> HIDE DEF r
  <2>2. /\ IsSeq(Append(log, r)) /\ Len(Append(log, r)) = Len(log) + 1
        /\ \A i \in 1..Len(log) : Append(log, r)[i] = log[i]
        /\ Append(log, r)[Len(log) + 1] = r /\ Len(log) \in Nat
    BY <2>1, AppendIs, IsSeqFacts
  <2> QED
    BY <2>1, <2>2 DEF Sound, RestFits
<1> QED
  BY <1>1, StopSafe DEF QuitVM, Still, Modes

LEMMA DieSafe ==
    ASSUME NEW E, Sound(E), NEW how \in {"aborted", "fatal", "crashed", "undefined"}, Die(how)
    PROVE  Sound(E)'
<1>1. IsSeq(log') /\ \A x \in 1..Len(log') : log'[x].e \in {"print", "result", "error"}
  BY DEF Die, Sound, RestFits
<1> QED
  BY <1>1, StopSafe DEF Die, Still, Modes

LEMMA StartSafe ==
    ASSUME NEW E, Sound(E), StartEval
    PROVE  Sound(E)'
<1>1. UNCHANGED <<session, k, kept, globals, log, gen>>
  BY DEF StartEval
<1>2. FrameFits(Top, E) /\ Top = frames[Len(frames)] /\ Len(frames) \in Nat \ {0}
  BY TopFits DEF Sound
<1>3. CASE Top.sp # 0
  <2>1. mode' = "undefined" /\ UNCHANGED <<frames, ip, base>>
    BY <1>3 DEF StartEval
  <2> QED
    BY <1>1, <2>1, StopSafe DEF Modes, Sound, RestFits
<1>4. CASE Top.sp = 0
  <2> DEFINE g == [Top EXCEPT !.stk = <<>>]
  <2>1. /\ mode' = "run" /\ frames' = [frames EXCEPT ![Len(frames)] = g]
        /\ ip' = [b |-> Top.eb, i |-> Top.pc + 1] /\ base' = Len(frames)
    BY <1>2, <1>4 DEF StartEval
  <2> HIDE DEF Top
  <2>2. FrameFits(g, E) /\ g.cs = Top.cs
    <3>1. IsSeq(<<>>) /\ Len(<<>>) = 0 /\ 0 <= StackSize
      BY EmptyIs, StackSizeAssumption
    <3> QED
      BY <1>2, <3>1 DEF FrameFits, Frame, Vals
  <2> HIDE DEF g
  <2>3. FramesFit(frames', E) /\ Len(frames') = Len(frames) /\ Last(frames') = g
    BY <2>1, <2>2, NewTop DEF Sound
  <2>4. Compiled(E)'
    BY <1>1 DEF Sound, Compiled, gen
  <2>5. IpFits(ip', g.cs, E) /\ ip'.i \in Nat \ {0}
    BY <1>2, <1>4, <2>1, <2>2 DEF FrameFits, IpFits
  <2>6. RestFits(E)'
    BY <1>1, <1>2, <2>1, <2>5 DEF Sound, RestFits, IpFits, Modes
  <2>7. IpFits(ip', Top'.cs, E)
    BY <2>3, <2>5 DEF Top
  <2>8. ~(Len(frames') < base')
    BY <1>2, <2>1, <2>3
  <2> QED
    BY <2>3, <2>4, <2>6, <2>7, <2>8 DEF Sound
<1> QED
  BY <1>3, <1>4

-----------------------------------------------------------------------------
(* Instructions. *)

\* What an instruction finds.
LEMMA InsFits ==
    ASSUME NEW E, Sound(E), Running
    PROVE  /\ E \in Env /\ BlocksFit(blks, E)
           /\ ip.b \in DOMAIN E.own /\ E.own[ip.b] = Top.cs /\ ip.i \in Nat \ {0}
           /\ Fitting(Ins, Top.cs, E)
<1>1. E \in Env /\ BlocksFit(blks, E)
  BY DEF Sound, Compiled, Made
<1>2. ip.b \in DOMAIN E.own /\ E.own[ip.b] = Top.cs /\ ip.i \in Nat \ {0} /\ ip.i <= Len(blks[ip.b].code)
  BY DEF Running, Sound, RestFits, IpFits, Code
<1>3. blks \in Seq(CodeBlock) /\ ip.b \in 1..Len(blks) /\ BlockFits(blks[ip.b], Top.cs, E)
  BY <1>1, <1>2 DEF BlocksFit
<1>4. Len(blks[ip.b].code) \in Nat
  <2>1. blks[ip.b] \in CodeBlock
    BY <1>3, ElementOfSeq
  <2>2. blks[ip.b].code \in Seq(Instruction)
    BY <2>1 DEF CodeBlock
  <2> QED
    BY <2>2, LenProperties
<1>5. Fitting(Ins, Top.cs, E)
  BY <1>2, <1>3, <1>4 DEF BlockFits, Ins, Code
<1> QED
  BY <1>1, <1>2, <1>5

\* Where control goes.
LEMMA LandFits ==
    ASSUME NEW E, BlocksFit(blks, E), NEW b \in DOMAIN E.own, NEW i \in Nat \ {0}
    PROVE  IpFits(Land(b, i), E.own[b], E) /\ Land(b, i).i \in Nat \ {0}
<1>1. blks[b].next # 0 => blks[b].next \in DOMAIN E.own /\ E.own[blks[b].next] = E.own[b]
  BY DEF BlocksFit, BlockFits, NoBlock
<1> QED
  BY <1>1 DEF Land, IpFits

LEMMA GotoSafe ==
    ASSUME NEW E, Sound(E), NEW b \in DOMAIN E.own, E.own[b] = Top.cs, NEW i \in Nat \ {0},
           NEW s, Vals(s, E.n), Len(s) <= StackSize, Goto(b, i, s),
           ValMap(globals', E.n),
           IsSeq(log'), \A x \in 1..Len(log') : log'[x].e \in {"print", "result", "error"}
    PROVE  Sound(E)'
<1> DEFINE g == [Top EXCEPT !.stk = s]
<1>1. FrameFits(Top, E) /\ Top = frames[Len(frames)]
  BY TopFits DEF Sound
<1>2. /\ frames' = [frames EXCEPT ![Len(frames)] = g]
      /\ ip' = Land(b, i) /\ UNCHANGED <<session, k, mode, base, kept, gen>>
  BY <1>1 DEF Goto, Still
<1> HIDE DEF Top
<1>3. FrameFits(g, E) /\ g.cs = Top.cs
  BY <1>1 DEF FrameFits, Frame
<1>4. IpFits(ip', Top.cs, E) /\ ip'.i \in Nat \ {0}
  <2>1. BlocksFit(blks, E)
    BY DEF Sound, Compiled, Made
  <2> QED
    BY <1>2, <2>1, LandFits
<1> HIDE DEF g
<1> QED
  BY <1>2, <1>3, <1>4, TopChange

LEMMA ContinueSafe ==
    ASSUME NEW E, Sound(E), Running, NEW s, Vals(s, E.n), Len(s) <= StackSize, Continue(s),
           globals' = globals,
           IsSeq(log'), \A x \in 1..Len(log') : log'[x].e \in {"print", "result", "error"}
    PROVE  Sound(E)'
<1>1. ip.b \in DOMAIN E.own /\ E.own[ip.b] = Top.cs /\ ip.i + 1 \in Nat \ {0}
  BY InsFits
<1>2. ValMap(globals', E.n)
  BY DEF Sound, RestFits
<1> QED
  BY <1>1, <1>2, GotoSafe DEF Continue

LEMMA PushSafe ==
    ASSUME NEW E, Sound(E), Running, NEW s, Vals(s, E.n), NEW v, Val(v, E.n), PushAndContinue(s, v)
    PROVE  Sound(E)'
<1>1. IsSeq(log) /\ \A x \in 1..Len(log) : log[x].e \in {"print", "result", "error"}
  BY DEF Sound, RestFits
<1>2. CASE Len(s) < StackSize
  <2> DEFINE t == Append(s, v)
  <2>1. Continue(t) /\ UNCHANGED <<globals, log>>
    BY <1>2 DEF PushAndContinue
  <2>2. IsSeq(t) /\ Len(t) = Len(s) + 1 /\ t[Len(s) + 1] = v /\ \A i \in 1..Len(s) : t[i] = s[i]
    BY AppendIs DEF Vals
  <2>3. Len(s) \in Nat
    BY IsSeqFacts DEF Vals
  <2> HIDE DEF t
  <2>4. Vals(t, E.n) /\ Len(t) <= StackSize
    BY <1>2, <2>2, <2>3, StackSizeAssumption DEF Vals
  <2> QED
    BY <1>1, <2>1, <2>4, ContinueSafe
<1>3. CASE ~(Len(s) < StackSize)
  BY <1>3, DieSafe DEF PushAndContinue
<1> QED
  BY <1>2, <1>3

\* The objects on top of the stack, and the stack below them.
LEMMA Operands ==
    ASSUME NEW E, Sound(E), NEW n \in 0..Len(Stack)
    PROVE  /\ Vals(Below(n), E.n) /\ Len(Below(n)) = Len(Stack) - n /\ Len(Below(n)) <= StackSize
           /\ n # 0 => Val(FromTop(n), E.n)
<1>1. /\ Vals(Stack, E.n) /\ IsSeq(Stack) /\ Len(Stack) \in Nat /\ Len(Stack) <= StackSize
  BY TopFits DEF Sound
<1> DEFINE s == Stack
           m == Len(s) - n
<1> HIDE DEF Stack
<1>2. m \in 0..Len(s) /\ 1 <= m + 1
  BY <1>1
<1>3. /\ IsSeq(SubSeq(s, 1, m)) /\ Len(SubSeq(s, 1, m)) = m + 1 - 1
      /\ \A i \in 1..m + 1 - 1 : SubSeq(s, 1, m)[i] = s[1 + i - 1]
  BY <1>1, <1>2, SubSeqIs
<1>4. \A i \in 1..m : Val(s[i], E.n)
  BY <1>1, <1>2 DEF Vals
<1>5. \A i \in 1..m : SubSeq(s, 1, m)[i] = s[i]
  BY <1>2, <1>3
<1>6. Below(n) = SubSeq(s, 1, m)
  BY DEF Below
<1> DEFINE t == SubSeq(s, 1, m)
<1> HIDE DEF t
<1>7. Vals(t, E.n) /\ Len(t) = m
  BY <1>2, <1>3, <1>4, <1>5 DEF Vals, t
<1>8. n # 0 => Val(FromTop(n), E.n)
  BY <1>1 DEF FromTop, Vals
<1> QED
  BY <1>1, <1>2, <1>6, <1>7, <1>8, StackSizeAssumption DEF t

LEMMA ConstFits ==
    ASSUME NEW E, Sound(E), Running, Ins.op \in OnConst
    PROVE  Ins.arg \in 1..Len(lists[Top.cs]) /\ Val(Const(Ins.arg), E.n)
<1>1. Fitting(Ins, Top.cs, E) /\ Top.cs \in DOMAIN E.size
  BY InsFits, TopFits DEF Sound
<1>2. E.size = Sizes(lists) /\ E.n = Len(fns) /\ ListsFit(lists, Len(fns))
  BY DEF Sound, Compiled, Made
<1>3. Top.cs \in 1..Len(lists) /\ E.size[Top.cs] = Len(lists[Top.cs])
  BY <1>1, <1>2, SizesType
<1> QED
  BY <1>1, <1>2, <1>3 DEF Fitting, ListsFit, Vals, Const

LEMMA LogStays ==
    ASSUME NEW E, Sound(E), UNCHANGED log
    PROVE  IsSeq(log') /\ \A x \in 1..Len(log') : log'[x].e \in {"print", "result", "error"}
  BY DEF Sound, RestFits

LEMMA LogGrows ==
    ASSUME NEW E, Sound(E), NEW r, r.e \in {"print", "result", "error"}, log' = Append(log, r)
    PROVE  IsSeq(log') /\ \A x \in 1..Len(log') : log'[x].e \in {"print", "result", "error"}
<1>1. IsSeq(log) /\ \A x \in 1..Len(log) : log[x].e \in {"print", "result", "error"}
  BY DEF Sound, RestFits
<1>2. /\ IsSeq(Append(log, r)) /\ Len(Append(log, r)) = Len(log) + 1
      /\ \A i \in 1..Len(log) : Append(log, r)[i] = log[i]
      /\ Append(log, r)[Len(log) + 1] = r /\ Len(log) \in Nat
  BY <1>1, AppendIs, IsSeqFacts
<1> QED
  BY <1>1, <1>2

LEMMA StackFits ==
    ASSUME NEW E, Sound(E)
    PROVE  /\ Vals(Stack, E.n) /\ Len(Stack) \in Nat /\ Len(Stack) <= StackSize
           /\ ValMap(globals, E.n) /\ ValMap(Top.locals, E.n) /\ ValMap(Locals, E.n)
<1>1. FrameFits(Top, E) /\ Vals(Stack, E.n) /\ Len(Stack) \in Nat /\ Len(Stack) <= StackSize
  BY TopFits DEF Sound
<1>2. ValMap(globals, E.n) /\ ValMap(Top.locals, E.n)
  BY <1>1 DEF Sound, RestFits, FrameFits
<1> QED
  BY <1>1, <1>2 DEF Locals

LEMMA StackSafe ==
    ASSUME NEW E, Sound(E), Push \/ Dup \/ PopTop \/ PrintTop
    PROVE  Sound(E)'
<1>1. Running
  BY DEF Push, Dup, PopTop, PrintTop, Exec
<1>2. Vals(Stack, E.n) /\ Len(Stack) \in Nat
  BY StackFits
<1>3. CASE Push
  <2>1. Val(Const(Ins.arg), E.n) /\ PushAndContinue(Stack, Const(Ins.arg))
    BY <1>1, <1>3, ConstFits DEF Push, Exec, OnConst
  <2> QED
    BY <1>1, <1>2, <2>1, PushSafe
<1>4. CASE Dup
  <2>1. Len(Stack) >= 1 /\ PushAndContinue(Stack, FromTop(1))
    BY <1>2, <1>4 DEF Dup, Exec, Pops, Looks
  <2>2. Val(FromTop(1), E.n)
    BY <1>2, <2>1, Operands
  <2> QED
    BY <1>1, <1>2, <2>1, <2>2, PushSafe
<1>5. CASE PopTop
  <2>1. Len(Stack) >= 1 /\ Continue(Below(1)) /\ UNCHANGED <<globals, log>>
    BY <1>2, <1>5 DEF PopTop, Exec, Pops, Looks
  <2>2. Vals(Below(1), E.n) /\ Len(Below(1)) <= StackSize
    BY <1>2, <2>1, Operands
  <2> QED
    BY <1>1, <2>1, <2>2, LogStays, ContinueSafe
<1>6. CASE PrintTop
  <2>1. Len(Stack) >= 1 /\ Continue(Below(1)) /\ UNCHANGED globals /\ log' = Append(log, OUTPUT(FromTop(1)))
    BY <1>2, <1>6 DEF PrintTop, Exec, Pops, Looks
  <2>2. Vals(Below(1), E.n) /\ Len(Below(1)) <= StackSize
    BY <1>2, <2>1, Operands
  <2>3. OUTPUT(FromTop(1)).e = "print"
    BY DEF OUTPUT
  <2>4. IsSeq(log') /\ \A x \in 1..Len(log') : log'[x].e \in {"print", "result", "error"}
    BY <2>1, <2>3, LogGrows
  <2> QED
    BY <1>1, <2>1, <2>2, <2>4, ContinueSafe
<1> QED
  BY <1>3, <1>4, <1>5, <1>6

LEMMA LoadSafe ==
    ASSUME NEW E, Sound(E), LoadName
    PROVE  Sound(E)'
<1> DEFINE n == Const(Ins.arg).v
<1>1. Running /\ Vals(Stack, E.n) /\ ValMap(globals, E.n) /\ ValMap(Locals, E.n)
  BY StackFits DEF LoadName, Exec
<1>2. \/ Bound(Locals, n) /\ PushAndContinue(Stack, Locals[n])
      \/ Bound(globals, n) /\ PushAndContinue(Stack, globals[n])
      \/ QuitVM
  BY DEF LoadName
<1> HIDE DEF n
<1>3. /\ Bound(Locals, n) => Val(Locals[n], E.n)
      /\ Bound(globals, n) => Val(globals[n], E.n)
  BY <1>1 DEF Bound, ValMap
<1> QED
  BY <1>1, <1>2, <1>3, PushSafe, QuitSafe

LEMMA StoreSafe ==
    ASSUME NEW E, Sound(E), StoreName
    PROVE  Sound(E)'
<1> DEFINE n == Const(Ins.arg).v
           v == FromTop(1)
           put(map) == Put(map, n, v)
<1>1. Running /\ Len(Stack) >= 1
  BY StackFits DEF StoreName, Exec, Pops, Looks
<1>2. /\ globals' = IF Top.own THEN globals ELSE put(globals)
      /\ frames' = IF Top.own THEN [frames EXCEPT ![Len(frames)].locals = put(@)] ELSE frames
      /\ ip' = Land(ip.b, ip.i + 1) /\ UNCHANGED <<session, k, mode, base, kept, gen, log>>
  BY DEF StoreName, Still
<1>3. Val(v, E.n) /\ ValMap(globals, E.n) /\ ValMap(Top.locals, E.n)
  BY <1>1, StackFits, Operands
<1> HIDE DEF n, v
<1>4. ASSUME NEW map, ValMap(map, E.n) PROVE ValMap(put(map), E.n)
  BY <1>3, <1>4 DEF ValMap, Put
<1>5. ip.b \in DOMAIN E.own /\ E.own[ip.b] = Top.cs /\ ip.i + 1 \in Nat \ {0} /\ BlocksFit(blks, E)
  BY <1>1, InsFits
<1>6. IpFits(ip', Top.cs, E) /\ ip'.i \in Nat \ {0}
  BY <1>2, <1>5, LandFits
<1>7. FrameFits(Top, E) /\ Top = frames[Len(frames)] /\ Len(frames) \in Nat \ {0} /\ IsSeq(frames)
  BY TopFits DEF Sound, FramesFit
<1>8. ValMap(globals', E.n)
  BY <1>2, <1>3, <1>4
<1> DEFINE g == IF Top.own THEN [Top EXCEPT !.locals = put(@)] ELSE Top
<1>9. frames' = [frames EXCEPT ![Len(frames)] = g]
  <2>1. [frames EXCEPT ![Len(frames)] = frames[Len(frames)]] = frames
    <3>1. frames \in [DOMAIN frames -> {frames[x] : x \in DOMAIN frames}]
      BY <1>7, LenProperties DEF IsSeq
    <3> QED
      BY <3>1
  <2> QED
    BY <1>2, <1>7, <2>1
<1> DEFINE m == put(Top.locals)
<1>10. ValMap(m, E.n)
  BY <1>3, <1>4
<1> HIDE DEF m
<1>11. g = IF Top.own THEN [Top EXCEPT !.locals = m] ELSE Top
  BY <1>7 DEF FrameFits, Frame, m
<1> HIDE DEF g, Top
<1>12. FrameFits(g, E) /\ g.cs = Top.cs
  BY <1>7, <1>10, <1>11 DEF FrameFits, Frame
<1> QED
  BY <1>2, <1>6, <1>8, <1>9, <1>12, LogStays, TopChange

LEMMA ArithSafe ==
    ASSUME NEW E, Sound(E), Arithmetic \/ Comparison
    PROVE  Sound(E)'
<1>1. Running /\ Len(Stack) >= 2
  BY StackFits DEF Arithmetic, Comparison, Exec, Pops, Looks
<1>2. Vals(Below(2), E.n)
  BY <1>1, StackFits, Operands
<1>3. CASE Arithmetic
  <2>1. PICK v : v.t # "fn" /\ (QuitVM \/ PushAndContinue(Below(2), v))
    BY <1>3 DEF Arithmetic, Arith, NIL
  <2> QED
    BY <1>1, <1>2, <2>1, QuitSafe, PushSafe DEF Val
<1>4. CASE Comparison
  <2>1. PICK v : v.t # "fn" /\ PushAndContinue(Below(2), v)
    BY <1>4 DEF Comparison, BOOL
  <2> QED
    BY <1>1, <1>2, <2>1, PushSafe DEF Val
<1> QED
  BY <1>3, <1>4

LEMMA JumpSafe ==
    ASSUME NEW E, Sound(E), Jump \/ JumpTrue \/ JumpFalse
    PROVE  Sound(E)'
<1>1. Running /\ Ins.op \in Jumping
  BY DEF Jump, JumpTrue, JumpFalse, Exec, Jumping
<1>2. Ins.to \in DOMAIN E.own /\ E.own[Ins.to] = Top.cs
  BY <1>1, InsFits DEF Fitting
<1>3. Vals(Stack, E.n) /\ Len(Stack) \in Nat /\ Len(Stack) <= StackSize /\ ValMap(globals, E.n)
  BY StackFits
<1>4. CASE Jump
  <2>1. Goto(Ins.to, 1, Stack) /\ UNCHANGED <<globals, log>>
    BY <1>4 DEF Jump
  <2> QED
    BY <1>2, <1>3, <2>1, LogStays, GotoSafe
<1>5. CASE JumpTrue \/ JumpFalse
  <2>1. Len(Stack) >= 1
    <3>1. Ins.op \in {"JUMP_TRUE", "JUMP_FALSE"} /\ Len(Stack) >= Pops(Ins) + Looks(Ins)
      BY <1>5 DEF JumpTrue, JumpFalse, Exec
    <3>2. Pops(Ins) = 1 /\ Looks(Ins) = 0
      BY <3>1 DEF Pops, Looks
    <3> QED
      BY <1>3, <3>1, <3>2
  <2>2. Vals(Below(1), E.n) /\ Len(Below(1)) <= StackSize
    BY <1>3, <2>1, Operands
  <2>3. \/ QuitVM
        \/ (Goto(Ins.to, 1, Below(1)) \/ Continue(Below(1))) /\ UNCHANGED <<globals, log>>
    BY <1>5 DEF JumpTrue, JumpFalse
  <2>4. CASE QuitVM
    BY <2>4, QuitSafe
  <2>5. CASE Continue(Below(1)) /\ UNCHANGED <<globals, log>>
    BY <1>1, <2>2, <2>5, LogStays, ContinueSafe
  <2>6. CASE Goto(Ins.to, 1, Below(1)) /\ UNCHANGED <<globals, log>>
    BY <1>2, <1>3, <2>2, <2>6, LogStays, GotoSafe
  <2> QED
    BY <2>3, <2>4, <2>5, <2>6
<1> QED
  BY <1>4, <1>5

-----------------------------------------------------------------------------
(* Calls. *)

\* Of the indices up to m with a property there is a last one.
LEMMA Largest ==
    ASSUME NEW m \in Nat, NEW J, J \subseteq 1..m, J # {}
    PROVE  \E j \in J : \A l \in j + 1..m : l \notin J
<1> DEFINE T == {m - j : j \in J}
<1>1. T \subseteq Nat /\ T # {}
  <2>1. \A j \in J : m - j \in Nat
    OBVIOUS
  <2> QED
    BY <2>1
<1>2. PICK i \in T : \A x \in T : i <= x
  <2> HIDE DEF T
  <2> QED
    BY <1>1, Smallest
<1>3. PICK j \in J : i = m - j
  BY <1>2
<1>4. ASSUME NEW l \in j + 1..m, l \in J PROVE FALSE
  <2>1. m - l \in T
    BY <1>4
  <2>2. m - j <= m - l
    BY <1>2, <1>3, <2>1
  <2>3. j \in 1..m /\ l \in 1..m /\ l >= j + 1
    BY <1>3, <1>4
  <2> QED
    BY <2>2, <2>3
<1> QED
  BY <1>4

LEMMA ArgumentsFit ==
    ASSUME NEW n \in Nat, NEW f, f.ps \in Seq(STRING), NEW given, Vals(given, n)
    PROVE  ValMap(Arguments(f, given), n)
<1> DEFINE ps == f.ps
<1>1. Len(ps) \in Nat /\ DOMAIN ps = 1..Len(ps)
  BY LenProperties
<1>2. Len(given) \in Nat
  BY IsSeqFacts DEF Vals
<1> HIDE DEF ps
<1>3. ASSUME NEW x \in DOMAIN Arguments(f, given) PROVE Val(Arguments(f, given)[x], n)
  <2> DEFINE P(j) == ps[j] = x /\ \A l \in j + 1..Len(ps) : ps[l] # x
             i == CHOOSE j \in 1..Len(ps) : P(j)
             a == IF i <= Len(given) THEN given[i] ELSE UNSET
  <2>1. x \in Range(ps) /\ Arguments(f, given)[x] = a
    BY DEF Arguments, ps
  <2> DEFINE J == {j \in 1..Len(ps) : ps[j] = x}
  <2>2. J \subseteq 1..Len(ps) /\ J # {}
    BY <1>1, <2>1 DEF Range
  <2>3. \E j \in J : \A l \in j + 1..Len(ps) : l \notin J
    <3> HIDE DEF J
    <3> QED
      BY <1>1, <2>2, Largest
  <2>4. \E j \in 1..Len(ps) : P(j)
    BY <1>1, <2>3
  <2>5. i \in 1..Len(ps)
    BY <2>4
  <2> HIDE DEF i
  <2>6. i <= Len(given) => i \in 1..Len(given)
    BY <1>1, <1>2, <2>5
  <2>7. Val(a, n)
    BY <2>6 DEF Vals, UNSET, Val
  <2> QED
    BY <2>1, <2>7
<1> QED
  BY <1>3 DEF ValMap

\* Blocks from the top are replaced by one other.
LEMMA Replaced ==
    ASSUME NEW E, NEW fs, FramesFit(fs, E), NEW m \in 0..Len(fs) - 1, NEW g, FrameFits(g, E)
    PROVE  /\ FramesFit(Append(SubSeq(fs, 1, m), g), E)
           /\ Len(Append(SubSeq(fs, 1, m), g)) = m + 1
           /\ Last(Append(SubSeq(fs, 1, m), g)) = g
<1> DEFINE s == SubSeq(fs, 1, m)
           t == Append(s, g)
<1>1. Len(fs) \in Nat \ {0} /\ IsSeq(fs) /\ m \in 0..Len(fs) /\ m \in Nat /\ 1 \in Nat \ {0} /\ 1 <= m + 1
  BY IsSeqFacts DEF FramesFit
<1>2. IsSeq(s) /\ Len(s) = m + 1 - 1 /\ \A i \in 1..m + 1 - 1 : s[i] = fs[1 + i - 1]
  BY <1>1, SubSeqIs
<1> HIDE DEF s
<1>3. IsSeq(s) /\ Len(s) = m /\ \A i \in 1..m : s[i] = fs[i]
  BY <1>1, <1>2
<1>4. IsSeq(t) /\ Len(t) = m + 1 /\ t[m + 1] = g /\ \A i \in 1..m : t[i] = s[i]
  BY <1>3, AppendIs
<1> HIDE DEF t
<1>5. \A i \in 1..m : FrameFits(t[i], E) /\ CallerFits(t[i])
  <2>1. \A i \in 1..m : i \in 1..Len(fs) /\ i \in 1..Len(fs) - 1
    BY <1>1
  <2> QED
    BY <1>3, <1>4, <2>1 DEF FramesFit
<1>6. FramesFit(t, E) /\ Last(t) = g
  BY <1>1, <1>4, <1>5 DEF FramesFit, Last
<1> QED
  BY <1>4, <1>6 DEF s, t

LEMMA Called ==
    ASSUME NEW E, NEW fs, FramesFit(fs, E), CallerFits(Last(fs)), NEW g, FrameFits(g, E)
    PROVE  /\ FramesFit(fs \o <<g>>, E) /\ Len(fs \o <<g>>) = Len(fs) + 1
           /\ Last(fs \o <<g>>) = g
<1> DEFINE t == fs \o <<g>>
<1>1. Len(fs) \in Nat \ {0} /\ IsSeq(fs)
  BY IsSeqFacts DEF FramesFit
<1>2. IsSeq(<<g>>) /\ Len(<<g>>) = 1 /\ <<g>>[1] = g
  BY OneIs
<1>3. /\ IsSeq(t) /\ Len(t) = Len(fs) + 1
      /\ \A i \in 1..Len(fs) : t[i] = fs[i]
      /\ t[Len(fs) + 1] = g
  BY <1>1, <1>2, ConcatIs
<1> HIDE DEF t
<1>4. \A i \in 1..Len(fs) : FrameFits(t[i], E) /\ CallerFits(t[i])
  BY <1>1, <1>3 DEF FramesFit, Last
<1>5. FramesFit(t, E) /\ Last(t) = g
  BY <1>1, <1>3, <1>4 DEF FramesFit, Last
<1> QED
  BY <1>3, <1>5 DEF t

LEMMA InvokeSafe ==
    ASSUME NEW E, Sound(E), Invoke
    PROVE  Sound(E)'
<1> DEFINE n == Ins.arg
<1>1. Running /\ Ins.op = "INVOKE" /\ Len(Stack) >= n + 1 /\ n \in Nat
  <2>1. Running /\ Ins.op = "INVOKE" /\ Len(Stack) >= Pops(Ins) + Looks(Ins)
    BY DEF Invoke, Exec
  <2>2. Ins \in Instruction
    BY <2>1, InsFits DEF Fitting
  <2>3. n \in Nat
    BY <2>1, <2>2 DEF Instruction, Plain, Binary, Jumping
  <2>4. Pops(Ins) = n + 1 /\ Looks(Ins) = 0
    BY <2>1 DEF Pops, Looks
  <2> QED
    BY <2>1, <2>3, <2>4
<1>2. Vals(Stack, E.n) /\ Len(Stack) \in Nat /\ Len(Stack) <= StackSize /\ IsSeq(Stack)
  BY TopFits DEF Sound
<1>3. CASE FromTop(1).t # "fn"
  BY <1>3, DieSafe DEF Invoke
<1>4. CASE FromTop(1).t = "fn"
  <2> DEFINE f == fns[FromTop(1).v]
             m == Len(Stack) - n
             given == SubSeq(Stack, m, Len(Stack) - 1)
             b == Below(n + 1)
             caller == [Top EXCEPT !.stk = b, !.pc = ip.i, !.sp = Len(Stack) - n - 1, !.at = ip]
             callee == [eb |-> f.blk, cs |-> f.cs, pc |-> Garbage, sp |-> Garbage, at |-> NoCall,
                        stk |-> <<>>, own |-> TRUE, locals |-> Arguments(f, given)]
  <2>1. /\ frames' = Append(Front(frames), caller) \o <<callee>>
        /\ ip' = Land(f.blk, 1)
        /\ UNCHANGED <<mode, globals, log, session, k, base, kept, gen>>
    BY <1>4 DEF Invoke, Still
  <2>2. FnFits(f, E) /\ E \in Env /\ BlocksFit(blks, E) /\ E.n \in Nat
    <3>1. Val(FromTop(1), E.n)
      BY <1>1, <1>2, Operands
    <3>2. FromTop(1).v \in 1..E.n /\ E.n = Len(fns) /\ FnsFit(fns, E) /\ E \in Env /\ BlocksFit(blks, E)
      BY <1>4, <3>1 DEF Val, Sound, Compiled, Made
    <3> QED
      BY <3>2, EnvType DEF FnsFit
  <2>3. Vals(given, E.n)
    <3> DEFINE s == Stack
               l == Len(s) - 1
    <3>1. m \in Nat \ {0} /\ l \in 0..Len(s) /\ m <= l + 1
      BY <1>1, <1>2
    <3> HIDE DEF Stack
    <3> HIDE DEF m
    <3>2. /\ IsSeq(SubSeq(s, m, l)) /\ Len(SubSeq(s, m, l)) = l + 1 - m
          /\ \A i \in 1..l + 1 - m : SubSeq(s, m, l)[i] = s[m + i - 1]
      BY <1>2, <3>1, SubSeqIs
    <3> DEFINE t == SubSeq(s, m, l)
    <3> HIDE DEF t
    <3>3. ASSUME NEW i \in 1..Len(t) PROVE Val(t[i], E.n)
      <4>1. t[i] = s[m + i - 1] /\ m + i - 1 \in 1..Len(s)
        BY <1>2, <3>1, <3>2, <3>3 DEF t
      <4> QED
        BY <1>2, <4>1 DEF Vals
    <3>4. Vals(t, E.n)
      BY <3>2, <3>3 DEF Vals, t
    <3> QED
      BY <3>4 DEF t
  <2>4. ValMap(Arguments(f, given), E.n)
    BY <2>2, <2>3, ArgumentsFit DEF FnFits
  <2>5. Vals(b, E.n) /\ Len(b) < StackSize
    <3>1. n + 1 \in 0..Len(Stack)
      BY <1>1, <1>2
    <3>2. Vals(b, E.n) /\ Len(b) = Len(Stack) - (n + 1)
      BY <3>1, Operands
    <3> QED
      BY <1>1, <1>2, <3>2, StackSizeAssumption
  <2>6. FrameFits(Top, E) /\ Len(frames) \in Nat \ {0} /\ ip.i \in Nat \ {0}
    BY <1>1, TopFits, InsFits DEF Sound
  <2> HIDE DEF b, Top
  <2> DEFINE d == Len(Stack) - n - 1
  <2>7. FrameFits(caller, E) /\ CallerFits(caller)
    <3>1. caller = [Top EXCEPT !.stk = b, !.pc = ip.i, !.sp = d, !.at = ip]
      OBVIOUS
    <3> HIDE DEF d, caller
    <3>2. caller = [eb |-> Top.eb, cs |-> Top.cs, pc |-> ip.i, sp |-> d, at |-> ip, stk |-> b,
                    own |-> Top.own, locals |-> Top.locals]
      BY <2>6, <3>1 DEF FrameFits, Frame
    <3> QED
      BY <2>5, <2>6, <3>2, StackSizeAssumption DEF FrameFits, CallerFits, Frame
  <2>8. FrameFits(callee, E)
    <3>1. IsSeq(<<>>) /\ Len(<<>>) = 0 /\ 0 <= StackSize
      BY EmptyIs, StackSizeAssumption
    <3> QED
      BY <2>2, <2>4, <3>1 DEF FrameFits, Frame, FnFits, Vals, Garbage
  <2>9. callee.cs = f.cs
    OBVIOUS
  <2> HIDE DEF caller, callee, f
  <2> DEFINE fs == Append(SubSeq(frames, 1, Len(frames) - 1), caller)
  <2>10. FramesFit(fs, E) /\ Len(fs) = Len(frames) /\ Last(fs) = caller
    <3>1. Len(frames) - 1 \in 0..Len(frames) - 1 /\ Len(frames) - 1 + 1 = Len(frames)
      BY <2>6
    <3>2. FramesFit(frames, E)
      BY DEF Sound
    <3> QED
      BY <2>7, <3>1, <3>2, Replaced
  <2>11. frames' = fs \o <<callee>>
    BY <2>1 DEF Front
  <2> HIDE DEF fs
  <2>12. FramesFit(frames', E) /\ Len(frames') = Len(frames) + 1 /\ Last(frames') = callee
    BY <2>7, <2>8, <2>10, <2>11, Called
  <2>13. IpFits(ip', f.cs, E) /\ ip'.i \in Nat \ {0}
    BY <2>1, <2>2, LandFits DEF FnFits
  <2>14. Compiled(E)'
    BY <2>1 DEF Sound, Compiled, gen
  <2>15. RestFits(E)'
    BY <2>1, <2>13 DEF Sound, RestFits, IpFits
  <2>16. IpFits(ip', Top'.cs, E)
    BY <2>9, <2>12, <2>13 DEF Top
  <2>17. mode' = "run" /\ Len(frames') < base' => FrameFits(kept', E)
    <3>1. base \in Nat
      BY DEF Sound, RestFits
    <3> QED
      BY <2>1, <2>6, <2>12, <3>1 DEF Sound
  <2> QED
    BY <2>12, <2>14, <2>15, <2>16, <2>17 DEF Sound
<1> QED
  BY <1>3, <1>4

LEMMA ReturnSafe ==
    ASSUME NEW E, Sound(E), Return
    PROVE  Sound(E)'
<1> DEFINE n == Len(frames)
           caller == frames[n - 1]
           v == Stack[1]
           s == Append(caller.stk, v)
           resumed == [caller EXCEPT !.stk = Append(@, v)]
<1>1. /\ mode = "run" /\ Len(Stack) = 1 /\ n > 1
      /\ kept' = IF n = base THEN Top ELSE kept
      /\ frames' = Append(SubSeq(frames, 1, n - 2), resumed)
      /\ ip' = [b |-> caller.eb, i |-> caller.pc + 1]
      /\ UNCHANGED <<session, k, mode, base, globals, log, gen>>
  BY DEF Return, Ended
<1>2. /\ FramesFit(frames, E) /\ FrameFits(Top, E) /\ n \in Nat \ {0} /\ Vals(Stack, E.n)
      /\ base \in Nat
  BY TopFits DEF Sound, RestFits
<1>3. Val(v, E.n)
  BY <1>1, <1>2 DEF Vals
<1>4. FrameFits(caller, E) /\ CallerFits(caller)
  <2>1. n - 1 \in 1..n /\ n - 1 \in 1..n - 1
    BY <1>1, <1>2
  <2> QED
    BY <1>2, <2>1 DEF FramesFit
<1> HIDE DEF v
<1>5. Vals(s, E.n) /\ Len(s) <= StackSize
  <2>1. IsSeq(caller.stk) /\ Len(caller.stk) \in Nat /\ \A i \in 1..Len(caller.stk) : Val(caller.stk[i], E.n)
    BY <1>4, IsSeqFacts DEF FrameFits, Vals
  <2>2. /\ IsSeq(s) /\ Len(s) = Len(caller.stk) + 1 /\ s[Len(caller.stk) + 1] = v
        /\ \A i \in 1..Len(caller.stk) : s[i] = caller.stk[i]
    BY <2>1, AppendIs
  <2> HIDE DEF s
  <2> QED
    BY <1>3, <1>4, <2>1, <2>2, StackSizeAssumption DEF Vals, CallerFits
<1>6. resumed = [caller EXCEPT !.stk = s]
  OBVIOUS
<1> HIDE DEF s, caller, resumed
<1>7. FrameFits(resumed, E) /\ resumed.cs = caller.cs
  BY <1>4, <1>5, <1>6 DEF FrameFits, Frame
<1> DEFINE m == n - 2
<1>8. FramesFit(frames', E) /\ Len(frames') = n - 1 /\ Last(frames') = resumed
  <2>1. m \in 0..n - 1 /\ m + 1 = n - 1
    BY <1>1, <1>2
  <2>2. frames' = Append(SubSeq(frames, 1, m), resumed)
    BY <1>1
  <2> HIDE DEF m
  <2> QED
    BY <1>2, <1>7, <2>1, <2>2, Replaced
<1>9. IpFits(ip', caller.cs, E) /\ ip'.i \in Nat \ {0}
  BY <1>1, <1>4 DEF FrameFits, CallerFits, IpFits
<1>10. Compiled(E)'
  BY <1>1 DEF Sound, Compiled, gen
<1>11. RestFits(E)'
  BY <1>1, <1>9 DEF Sound, RestFits, IpFits
<1>12. IpFits(ip', Top'.cs, E)
  BY <1>7, <1>8, <1>9 DEF Top
<1>13. Len(frames') < base' => FrameFits(kept', E)
  <2>1. CASE n = base
    BY <1>1, <1>2, <2>1
  <2>2. CASE n < base
    BY <1>1, <1>2, <2>2 DEF Sound
  <2>3. CASE n > base
    BY <1>1, <1>2, <1>8, <2>3
  <2> QED
    BY <1>2, <2>1, <2>2, <2>3
<1> QED
  BY <1>8, <1>10, <1>11, <1>12, <1>13 DEF Sound

LEMMA FinishSafe ==
    ASSUME NEW E, Sound(E), Finish
    PROVE  Sound(E)'
<1> DEFINE f == IF base = 1 THEN Top ELSE kept
           g == [f EXCEPT !.stk = <<>>]
           r == RESULT(Stack[1])
<1>1. /\ mode = "run" /\ Len(Stack) = 1 /\ Len(frames) = 1 /\ frames' = <<g>>
      /\ log' = Append(log, r) /\ mode' = "idle" /\ UNCHANGED <<session, k, base, ip, globals, gen>>
  BY DEF Finish, Ended
<1>2. FrameFits(f, E)
  <2>1. base \in Nat \ {0} /\ FrameFits(Top, E)
    BY TopFits DEF Sound, RestFits
  <2>2. base # 1 => Len(frames) < base
    BY <1>1, <2>1
  <2> QED
    BY <1>1, <2>1, <2>2 DEF Sound
<1>3. r.e = "result"
  BY DEF RESULT
<1> HIDE DEF f, r
<1>4. FrameFits(g, E)
  <2>1. IsSeq(<<>>) /\ Len(<<>>) = 0 /\ 0 <= StackSize
    BY EmptyIs, StackSizeAssumption
  <2> QED
    BY <1>2, <2>1 DEF FrameFits, Frame, Vals
<1> HIDE DEF g
<1>5. FramesFit(frames', E)
  BY <1>1, <1>4, OneIs DEF FramesFit
<1>6. IsSeq(log') /\ \A x \in 1..Len(log') : log'[x].e \in {"print", "result", "error"}
  BY <1>1, <1>3, LogGrows
<1>7. Compiled(E)'
  BY <1>1 DEF Sound, Compiled, gen
<1>8. RestFits(E)'
  BY <1>1, <1>6 DEF Sound, RestFits, Modes
<1> QED
  BY <1>1, <1>5, <1>7, <1>8 DEF Sound

-----------------------------------------------------------------------------
(* Every step. *)

LEMMA SafeStep == Safe /\ [Next]_vars => Safe'
<1> SUFFICES ASSUME Safe, [Next]_vars PROVE Safe'
  OBVIOUS
<1>1. PICK E : Sound(E)
  BY DEF Safe
<1>2. CASE Compile
  BY <1>1, <1>2, CompileSafe DEF Safe
<1>3. CASE VisitTree
  BY <1>1, <1>3, VisitSafe DEF Safe
<1>4. CASE StartEval
  BY <1>1, <1>4, StartSafe DEF Safe
<1>5. CASE Push \/ Dup \/ PopTop \/ PrintTop
  BY <1>1, <1>5, StackSafe DEF Safe
<1>6. CASE LoadName \/ StoreName
  BY <1>1, <1>6, LoadSafe, StoreSafe DEF Safe
<1>7. CASE Arithmetic \/ Comparison \/ Jump \/ JumpTrue \/ JumpFalse
  BY <1>1, <1>7, ArithSafe, JumpSafe DEF Safe
<1>8. CASE Invoke \/ Return \/ Finish
  BY <1>1, <1>8, InvokeSafe, ReturnSafe, FinishSafe DEF Safe
<1>9. CASE StackEmpty \/ AssertFails
  <2>1. Sound(E)'
    BY <1>1, <1>9, QuitSafe, DieSafe DEF StackEmpty, AssertFails
  <2> QED
    BY <2>1 DEF Safe
<1>10. CASE UNCHANGED vars
  <2>1. Sound(E)'
    BY <1>1, <1>10 DEF vars, gen, Sound, Compiled, RestFits, Top
  <2> QED
    BY <2>1 DEF Safe
<1> QED
  BY <1>2, <1>3, <1>4, <1>5, <1>6, <1>7, <1>8, <1>9, <1>10 DEF Next

\* Compiler and machine keep to what has been made, in every session of trees
\* that the grammar allows, whatever the stack size.
THEOREM Invariance == Spec => []Safe
  BY SafeInit, SafeStep, PTL DEF Spec

\* The state of compiler and machine keeps its shape: TypeOK, for every set of
\* sessions and every stack size; no stack grows above STACK_SIZE (vm.h:65).
THEOREM TypeCorrect == Spec => []TypeOK
<1>1. Safe => TypeOK
  <2> SUFFICES ASSUME NEW E, Sound(E) PROVE TypeOK
    BY DEF Safe
  <2>1. /\ session \in Sessions /\ k \in 0..Len(session) /\ mode \in Modes /\ base \in Nat \ {0}
        /\ ip.i \in Nat \ {0} /\ \A x \in 1..Len(log) : log[x].e \in {"print", "result", "error"}
    BY DEF Sound, RestFits
  <2>2. E.size = Sizes(lists) /\ BlocksFit(blks, E) /\ Len(blks) \in Nat /\ DOMAIN E.own = 1..Len(blks)
        /\ DOMAIN E.size = 1..Len(lists)
    <3>1. E.size = Sizes(lists) /\ BlocksFit(blks, E) /\ ListsFit(lists, Len(fns))
      BY DEF Sound, Compiled, Made
    <3> QED
      BY <3>1, SizesType, LenProperties DEF BlocksFit
  <2>3. \A x \in 1..Len(blks) : blks[x].next \in 0..Len(blks)
    BY <2>2 DEF BlocksFit, BlockFits, NoBlock
  <2>4. \A x \in 1..Len(frames) :
            /\ frames[x].eb \in 0..Len(blks) /\ frames[x].cs \in 1..Len(lists)
            /\ Len(frames[x].stk) <= StackSize
    BY <2>2 DEF Sound, FramesFit, FrameFits
  <2>5. frames # <<>>
    BY EmptyIs DEF Sound, FramesFit
  <2>6. ip.b \in 0..Len(blks)
    BY <2>2 DEF Sound, RestFits
  <2> QED
    BY <2>1, <2>3, <2>4, <2>5, <2>6 DEF TypeOK
<1> QED
  BY <1>1, Invariance, PTL

\* Whatever was called and whatever went wrong before, an instruction finds its
\* constant in the list of the block it runs in, and its jump leads to a block.
THEOREM OperandsThere == Spec => []OperandThere
<1>1. Safe => OperandThere
  <2> SUFFICES ASSUME NEW E, Sound(E), Running PROVE OperandThere
    BY DEF Safe, OperandThere
  <2>1. Fitting(Ins, Top.cs, E) /\ BlocksFit(blks, E)
    BY InsFits
  <2>2. Ins.op \in {"PUSH", "LOAD_NAME", "STORE_NAME"} => Ins.arg \in 1..Len(lists[Top.cs])
    BY ConstFits DEF OnConst
  <2>3. Ins.op \in {"JUMP", "JUMP_TRUE", "JUMP_FALSE"} => Ins.to \in 1..Len(blks)
    BY <2>1 DEF Fitting, Jumping, BlocksFit
  <2> QED
    BY <2>2, <2>3 DEF OperandThere
<1> QED
  BY <1>1, Invariance, PTL

-----------------------------------------------------------------------------
(* The depth of the stack.                                                 *)
(*                                                                         *)
(* D gives each code block a sequence of depths: before each instruction,  *)
(* and at the end.  After a JUMP comes nothing.                            *)

Dead == -1

Effect(ins, p, q, D) ==
    /\ p >= Pops(ins) + Looks(ins)
    /\ q = IF ins.op = "JUMP" THEN Dead ELSE p - Pops(ins) + Pushes(ins)
    /\ ins.op \in Jumping => ins.to \in 1..Len(D) /\ D[ins.to][1] = p - Pops(ins)

BlockGraded(b, d, D) ==
    /\ Len(d) = Len(b.code) + 1
    /\ \A i \in 1..Len(b.code) : Effect(b.code[i], d[i], d[i + 1], D)
    /\ b.next # NoBlock => b.next \in 1..Len(D) /\ Last(d) \in {Dead, D[b.next][1]}

BlocksGraded(B, D) ==
    /\ D \in Seq(Seq(Int)) /\ Len(D) = Len(B)
    /\ \A b \in 1..Len(B) : BlockGraded(B[b], D[b], D)

\* The item x finds the depth p and leaves q.
Leads(x, p, q, D) ==
    /\ x.k \in ExpKinds \cup StmKinds \cup {"const", "list"} => p >= 0 /\ q = p + 1
    /\ x.k = "list" => x.body # <<>>
    /\ x.k = "store" => q = p
    /\ x.k = "emit" => Effect(x.ins, p, q, D)
    /\ x.k = "next" => /\ x.b \in 1..Len(D) /\ Len(D[x.b]) = 1
                       /\ p \in {Dead, D[x.b][1]} /\ q = D[x.b][1]
    /\ x.k = "leave" => /\ p = 1 /\ q >= 1 /\ x.cb \in 1..Len(D) /\ q = Last(D[x.cb]) + 1
                        /\ x.f.blk \in 1..Len(D) /\ D[x.f.blk][1] = 0
    /\ x.k = "to" => p >= 1 /\ q = p
    /\ x.k = "do" => /\ p >= 2 /\ q = p - 1
                     /\ x.to_block \in 1..Len(D) /\ D[x.to_block][1] = p - 2

\* The items s, one after the other, lead from the depth p to q.
Brings(s, p, q, D) ==
    /\ IsSeq(s)
    /\ \E ks \in [1..Len(s) + 1 -> Int] :
           /\ ks[1] = p /\ ks[Len(s) + 1] = q
           /\ \A j \in 1..Len(s) : Leads(s[j], ks[j], ks[j + 1], D)

\* They leave one object.
Chain(t, p, D) == Brings(t, p, 1, D)

\* The blocks that the compiler will continue.
Opened(x) ==
    IF x.k = "next" THEN {x.b} ELSE IF x.k = "leave" THEN {x.cb} ELSE {}
OpenSet(t) == UNION {Opened(t[i]) : i \in 1..Len(t)}
Apart(t) == \A i, j \in 1..Len(t) : i # j => Opened(t[i]) \cap Opened(t[j]) = {}

Here(D) == IF cb = NoBlock THEN 1 ELSE Last(D[cb])

OpenSound(D) ==
    /\ Apart(todo) /\ cb \notin OpenSet(todo)
    /\ \A b \in OpenSet(todo) \cup ({cb} \ {NoBlock}) : b \in 1..Len(blks) /\ blks[b].next = NoBlock
    /\ \A b \in 1..Len(blks) :
           blks[b].next = NoBlock /\ b # cb /\ b \notin OpenSet(todo) => Last(D[b]) = 1

Graded(D) ==
    /\ BlocksGraded(blks, D)
    /\ Chain(todo, Here(D), D)
    /\ OpenSound(D)
    /\ \A f \in 1..Len(fns) : D[fns[f].blk][1] = 0

\* G has the depths of D and more, in the block c and in new blocks.
Extends(D, G, c) ==
    /\ D \in Seq(Seq(Int)) /\ G \in Seq(Seq(Int)) /\ Len(G) >= Len(D)
    /\ \A b \in 1..Len(D) : G[b][1] = D[b][1] /\ (b # c => G[b] = D[b])

LEMMA ExtendsIn ==
    ASSUME NEW D, NEW G, NEW c, Extends(D, G, c), NEW b \in 1..Len(D)
    PROVE  b \in 1..Len(G) /\ G[b][1] = D[b][1] /\ (b # c => G[b] = D[b])
<1>1. Len(D) \in Nat /\ Len(G) \in Nat /\ Len(G) >= Len(D)
  BY LenProperties DEF Extends
<1> QED
  BY <1>1 DEF Extends

LEMMA EffectExtends ==
    ASSUME NEW D, NEW G, NEW c, Extends(D, G, c), NEW ins, NEW p, NEW q, Effect(ins, p, q, D)
    PROVE  Effect(ins, p, q, G)
  BY ExtendsIn DEF Effect

LEMMA BlockExtends ==
    ASSUME NEW D, NEW G, NEW c, Extends(D, G, c), NEW b, NEW d, BlockGraded(b, d, D)
    PROVE  BlockGraded(b, d, G)
<1>1. \A i \in 1..Len(b.code) : Effect(b.code[i], d[i], d[i + 1], G)
  BY EffectExtends DEF BlockGraded
<1>2. b.next # NoBlock => b.next \in 1..Len(G) /\ Last(d) \in {Dead, G[b.next][1]}
  BY ExtendsIn DEF BlockGraded
<1> QED
  BY <1>1, <1>2 DEF BlockGraded

LEMMA LeadsExtends ==
    ASSUME NEW D, NEW G, NEW c, Extends(D, G, c), NEW x, NEW p, NEW q, Leads(x, p, q, D), c \notin Opened(x)
    PROVE  Leads(x, p, q, G)
<1>1. x.k = "emit" => Effect(x.ins, p, q, G)
  BY EffectExtends DEF Leads
<1>2. x.k = "next" => /\ x.b \in 1..Len(G) /\ Len(G[x.b]) = 1
                      /\ p \in {Dead, G[x.b][1]} /\ q = G[x.b][1]
  <2> SUFFICES ASSUME x.k = "next" PROVE x.b \in 1..Len(G) /\ Len(G[x.b]) = 1 /\ p \in {Dead, G[x.b][1]} /\ q = G[x.b][1]
    OBVIOUS
  <2>1. x.b \in 1..Len(D) /\ Len(D[x.b]) = 1 /\ p \in {Dead, D[x.b][1]} /\ q = D[x.b][1] /\ x.b # c
    BY DEF Leads, Opened
  <2>2. G[x.b] = D[x.b] /\ x.b \in 1..Len(G)
    BY <2>1, ExtendsIn
  <2> QED
    BY <2>1, <2>2
<1>3. x.k = "leave" => /\ p = 1 /\ q >= 1 /\ x.cb \in 1..Len(G) /\ q = Last(G[x.cb]) + 1
                       /\ x.f.blk \in 1..Len(G) /\ G[x.f.blk][1] = 0
  <2> SUFFICES ASSUME x.k = "leave"
               PROVE  /\ p = 1 /\ q >= 1 /\ x.cb \in 1..Len(G) /\ q = Last(G[x.cb]) + 1
                      /\ x.f.blk \in 1..Len(G) /\ G[x.f.blk][1] = 0
    OBVIOUS
  <2>1. /\ p = 1 /\ q >= 1 /\ x.cb \in 1..Len(D) /\ q = Last(D[x.cb]) + 1 /\ x.cb # c
        /\ x.f.blk \in 1..Len(D) /\ D[x.f.blk][1] = 0
    BY DEF Leads, Opened
  <2>2. /\ G[x.cb] = D[x.cb] /\ x.cb \in 1..Len(G)
        /\ x.f.blk \in 1..Len(G) /\ G[x.f.blk][1] = 0
    BY <2>1, ExtendsIn
  <2> QED
    BY <2>1, <2>2
<1>4. x.k = "do" => x.to_block \in 1..Len(G) /\ G[x.to_block][1] = p - 2
  BY ExtendsIn DEF Leads
<1> QED
  BY <1>1, <1>2, <1>3, <1>4 DEF Leads

LEMMA ChainExtends ==
    ASSUME NEW D, NEW G, NEW c, Extends(D, G, c), NEW t, NEW p, Chain(t, p, D), c \notin OpenSet(t)
    PROVE  Chain(t, p, G)
<1>1. PICK ls \in [1..Len(t) + 1 -> Int] :
          /\ ls[1] = p /\ ls[Len(t) + 1] = 1
          /\ \A j \in 1..Len(t) : Leads(t[j], ls[j], ls[j + 1], D)
  BY DEF Chain, Brings
<1>2. ASSUME NEW j \in 1..Len(t) PROVE Leads(t[j], ls[j], ls[j + 1], G)
  BY <1>1, LeadsExtends DEF OpenSet
<1> QED
  BY <1>1, <1>2 DEF Chain, Brings

LEMMA ChainHead ==
    ASSUME NEW D, NEW t, NEW p, Chain(t, p, D), t # <<>>
    PROVE  p \in Int /\ \E q \in Int : Leads(Head(t), p, q, D) /\ Chain(Tail(t), q, D)
<1>1. PICK ls \in [1..Len(t) + 1 -> Int] :
          /\ ls[1] = p /\ ls[Len(t) + 1] = 1
          /\ \A j \in 1..Len(t) : Leads(t[j], ls[j], ls[j + 1], D)
  BY DEF Chain, Brings
<1>2. /\ IsSeq(Tail(t)) /\ Len(Tail(t)) = Len(t) - 1 /\ Len(t) >= 1 /\ Head(t) = t[1]
      /\ \A i \in 1..Len(t) - 1 : Tail(t)[i] = t[i + 1]
  BY TailIs DEF Chain, Brings
<1>3. Len(t) \in Nat
  BY IsSeqFacts DEF Chain, Brings
<1> DEFINE u == Tail(t)
           m == Len(t)
           dl == [j \in 1..m |-> ls[j + 1]]
<1>4. Leads(Head(t), p, ls[2], D) /\ p \in Int /\ ls[2] \in Int
  BY <1>1, <1>2, <1>3
<1>5. dl \in [1..m -> Int] /\ dl[1] = ls[2] /\ dl[m] = 1
  BY <1>1, <1>2, <1>3
<1>6. ASSUME NEW j \in 1..m - 1 PROVE Leads(u[j], dl[j], dl[j + 1], D)
  <2>1. j + 1 \in 1..m /\ j \in 1..m
    BY <1>3
  <2>2. u[j] = t[j + 1] /\ dl[j] = ls[j + 1] /\ dl[j + 1] = ls[(j + 1) + 1]
    BY <1>2, <2>1
  <2> QED
    BY <1>1, <2>1, <2>2
<1>7. Len(u) = m - 1 /\ Len(u) + 1 = m /\ IsSeq(u)
  BY <1>2, <1>3
<1> HIDE DEF u, m, dl
<1>8. dl \in [1..Len(u) + 1 -> Int] /\ \A j \in 1..Len(u) : Leads(u[j], dl[j], dl[j + 1], D)
  BY <1>5, <1>6, <1>7
<1>9. Chain(u, ls[2], D)
  BY <1>5, <1>7, <1>8 DEF Chain, Brings
<1> QED
  BY <1>4, <1>9 DEF u

LEMMA Bringing ==
    ASSUME NEW D, NEW s, IsSeq(s), NEW ks \in Seq(Int), Len(ks) = Len(s) + 1,
           \A j \in 1..Len(s) : Leads(s[j], ks[j], ks[j + 1], D),
           NEW p, p = ks[1], NEW q, q = ks[Len(s) + 1]
    PROVE  Brings(s, p, q, D)
<1>1. ks \in [1..Len(s) + 1 -> Int]
  BY LenProperties
<1> QED
  BY <1>1 DEF Brings

LEMMA BringsNothing ==
    ASSUME NEW D, NEW p \in Int
    PROVE  Brings(<<>>, p, p, D)
<1> DEFINE ks == <<p>>
           s == <<>>
<1>1. ks \in Seq(Int) /\ Len(ks) = 1 /\ ks[1] = p
  OBVIOUS
<1>2. IsSeq(s) /\ Len(s) = 0
  BY EmptyIs
<1> HIDE DEF ks, s
<1>3. Len(ks) = Len(s) + 1 /\ p = ks[1] /\ p = ks[Len(s) + 1] /\ IsSeq(s)
  BY <1>1, <1>2
<1>4. \A j \in 1..Len(s) : Leads(s[j], ks[j], ks[j + 1], D)
  BY <1>2
<1>5. Brings(s, p, p, D)
  BY <1>1, <1>3, <1>4, Bringing
<1> QED
  BY <1>5 DEF s

LEMMA BringsOne ==
    ASSUME NEW D, NEW p \in Int, NEW q \in Int, NEW x, Leads(x, p, q, D)
    PROVE  Brings(<<x>>, p, q, D)
<1> DEFINE ks == <<p, q>>
           s == <<x>>
<1>1. ks \in Seq(Int) /\ Len(ks) = 2 /\ ks[1] = p /\ ks[2] = q
  OBVIOUS
<1>2. IsSeq(s) /\ Len(s) = 1 /\ s[1] = x
  BY OneIs
<1> HIDE DEF ks, s
<1>3. \A j \in 1..Len(s) : Leads(s[j], ks[j], ks[j + 1], D)
  BY <1>1, <1>2
<1>4. Len(ks) = Len(s) + 1 /\ p = ks[1] /\ q = ks[Len(s) + 1] /\ IsSeq(s)
  BY <1>1, <1>2
<1>5. Brings(s, p, q, D)
  BY <1>1, <1>3, <1>4, Bringing
<1> QED
  BY <1>5 DEF s

\* Items that lead from p to q, and others that lead on from q.
LEMMA BringsBoth ==
    ASSUME NEW D, NEW s, NEW p, NEW q, NEW r, Brings(s, p, q, D), NEW t, Brings(t, q, r, D)
    PROVE  Brings(s \o t, p, r, D)
<1>0. PICK ks \in [1..Len(s) + 1 -> Int] :
          /\ ks[1] = p /\ ks[Len(s) + 1] = q
          /\ \A j \in 1..Len(s) : Leads(s[j], ks[j], ks[j + 1], D)
  BY DEF Brings
<1>1. PICK ls \in [1..Len(t) + 1 -> Int] :
          /\ ls[1] = q /\ ls[Len(t) + 1] = r
          /\ \A j \in 1..Len(t) : Leads(t[j], ls[j], ls[j + 1], D)
  BY DEF Brings
<1>2. /\ IsSeq(s \o t) /\ Len(s \o t) = Len(s) + Len(t)
      /\ \A i \in 1..Len(s) : (s \o t)[i] = s[i]
      /\ \A i \in 1..Len(t) : (s \o t)[Len(s) + i] = t[i]
  BY ConcatIs DEF Brings
<1>3. Len(s) \in Nat /\ Len(t) \in Nat
  BY IsSeqFacts DEF Brings
<1> DEFINE u == s \o t
           m == Len(s)
           n == Len(t)
           dl == [j \in 1..m + n + 1 |-> IF j <= m THEN ks[j] ELSE ls[j - m]]
<1>4. dl \in [1..m + n + 1 -> Int]
  <2>1. \A j \in 1..m + n + 1 : IF j <= m THEN j \in 1..m + 1 ELSE j - m \in 1..n + 1
    BY <1>3
  <2> QED
    BY <2>1
<1>5. dl[1] = p /\ dl[m + n + 1] = r
  <2>1. dl[m + n + 1] = ls[n + 1]
    BY <1>3
  <2>2. CASE m = 0
    BY <1>0, <1>1, <1>3, <2>1, <2>2
  <2>3. CASE m # 0
    BY <1>0, <1>1, <1>3, <2>1, <2>3
  <2> QED
    BY <2>2, <2>3
<1>6. ASSUME NEW j \in 1..m + n PROVE Leads(u[j], dl[j], dl[j + 1], D)
  <2>1. CASE j <= m
    <3>1. u[j] = s[j] /\ j \in 1..m
      BY <1>2, <1>3, <2>1
    <3>2. dl[j] = ks[j]
      BY <1>3, <2>1
    <3>3. dl[j + 1] = ks[j + 1]
      <4>1. CASE j = m
        BY <1>0, <1>1, <1>3, <4>1
      <4>2. CASE j < m
        BY <1>3, <4>2
      <4> QED
        BY <1>3, <2>1, <4>1, <4>2
    <3> QED
      BY <1>0, <3>1, <3>2, <3>3
  <2>2. CASE ~(j <= m)
    <3>1. j - m \in 1..n /\ j = m + (j - m)
      BY <1>3, <2>2
    <3>2. u[j] = t[j - m]
      BY <1>2, <3>1
    <3>3. dl[j] = ls[j - m] /\ dl[j + 1] = ls[(j - m) + 1]
      BY <1>3, <2>2
    <3> QED
      BY <1>1, <3>1, <3>2, <3>3
  <2> QED
    BY <1>3, <2>1, <2>2
<1>7. Len(u) = m + n /\ Len(u) + 1 = m + n + 1 /\ IsSeq(u)
  BY <1>2, <1>3
<1> HIDE DEF u, m, n, dl
<1>8. dl \in [1..Len(u) + 1 -> Int] /\ dl[Len(u) + 1] = r /\ \A j \in 1..Len(u) : Leads(u[j], dl[j], dl[j + 1], D)
  BY <1>4, <1>5, <1>6, <1>7
<1>9. Brings(u, p, r, D)
  BY <1>5, <1>7, <1>8 DEF Brings
<1> QED
  BY <1>9 DEF u
LEMMA ChainBefore ==
    ASSUME NEW D, NEW s, NEW p, NEW q, Brings(s, p, q, D), NEW t, Chain(t, q, D)
    PROVE  Chain(s \o t, p, D)
  BY BringsBoth DEF Chain

LEMMA OpenConcat ==
    ASSUME NEW s, IsSeq(s), NEW t, IsSeq(t)
    PROVE  /\ OpenSet(s \o t) = OpenSet(s) \cup OpenSet(t)
           /\ Apart(s) /\ Apart(t) /\ OpenSet(s) \cap OpenSet(t) = {} => Apart(s \o t)
<1> DEFINE u == s \o t
           m == Len(s)
           n == Len(t)
<1>1. /\ Len(u) = m + n
      /\ \A i \in 1..m : u[i] = s[i]
      /\ \A i \in 1..n : u[m + i] = t[i]
  BY ConcatIs
<1>2. m \in Nat /\ n \in Nat
  BY IsSeqFacts
<1> HIDE DEF u
<1>3. \A i \in 1..Len(u) : IF i <= m THEN i \in 1..m /\ u[i] = s[i] ELSE i - m \in 1..n /\ u[i] = t[i - m]
  <2> TAKE i \in 1..Len(u)
  <2>1. CASE i <= m
    BY <1>1, <1>2, <2>1
  <2>2. CASE ~(i <= m)
    <3>1. i - m \in 1..n /\ i = m + (i - m)
      BY <1>1, <1>2, <2>2
    <3> QED
      BY <1>1, <2>2, <3>1
  <2> QED
    BY <2>1, <2>2
<1>4. \A i \in 1..n : m + i \in 1..Len(u)
  BY <1>1, <1>2
<1>5. \A i \in 1..m : i \in 1..Len(u)
  BY <1>1, <1>2
<1>6. OpenSet(u) = OpenSet(s) \cup OpenSet(t)
  <2>1. ASSUME NEW b \in OpenSet(u) PROVE b \in OpenSet(s) \cup OpenSet(t)
    <3>1. PICK i \in 1..Len(u) : b \in Opened(u[i])
      BY <2>1 DEF OpenSet
    <3> QED
      BY <1>3, <3>1 DEF OpenSet
  <2>2. ASSUME NEW b \in OpenSet(s) PROVE b \in OpenSet(u)
    <3>1. PICK i \in 1..m : b \in Opened(s[i])
      BY <2>2 DEF OpenSet
    <3>2. b \in Opened(u[i]) /\ i \in 1..Len(u)
      BY <1>1, <1>5, <3>1
    <3> QED
      BY <3>2 DEF OpenSet
  <2>3. ASSUME NEW b \in OpenSet(t) PROVE b \in OpenSet(u)
    <3>1. PICK i \in 1..n : b \in Opened(t[i])
      BY <2>3 DEF OpenSet
    <3>2. b \in Opened(u[m + i]) /\ m + i \in 1..Len(u)
      BY <1>1, <1>4, <3>1
    <3> QED
      BY <3>2 DEF OpenSet
  <2> QED
    BY <2>1, <2>2, <2>3
<1>7. ASSUME Apart(s), Apart(t), OpenSet(s) \cap OpenSet(t) = {} PROVE Apart(u)
  <2>1. SUFFICES ASSUME NEW i \in 1..Len(u), NEW j \in 1..Len(u), i # j
                 PROVE  Opened(u[i]) \cap Opened(u[j]) = {}
    BY DEF Apart
  <2>2. i \in Int /\ j \in Int
    OBVIOUS
  <2>3. ASSUME i <= m, ~(j <= m) PROVE Opened(s[i]) \cap Opened(t[j - m]) = {}
    BY <1>3, <1>7, <2>3 DEF OpenSet
  <2>4. ASSUME j <= m, ~(i <= m) PROVE Opened(s[j]) \cap Opened(t[i - m]) = {}
    BY <1>3, <1>7, <2>4 DEF OpenSet
  <2>5. i - m # j - m
    BY <1>2, <2>1, <2>2
  <2> QED
    BY <1>3, <1>7, <2>1, <2>3, <2>4, <2>5 DEF Apart
<1> QED
  BY <1>6, <1>7 DEF u

LEMMA OpenTail ==
    ASSUME NEW t, IsSeq(t), t # <<>>
    PROVE  /\ OpenSet(t) = Opened(Head(t)) \cup OpenSet(Tail(t))
           /\ Apart(t) => Apart(Tail(t)) /\ Opened(Head(t)) \cap OpenSet(Tail(t)) = {}
<1> DEFINE u == Tail(t)
           m == Len(t)
           h == Head(t)
<1>1. /\ Len(u) = m - 1 /\ m >= 1 /\ h = t[1]
      /\ \A i \in 1..m - 1 : u[i] = t[i + 1]
  BY TailIs
<1>2. m \in Nat
  BY IsSeqFacts
<1> HIDE DEF u, h
<1>3. \A i \in 1..m : i = 1 \/ (i - 1 \in 1..m - 1 /\ t[i] = u[i - 1])
  <2> TAKE i \in 1..m
  <2>1. CASE i # 1
    <3>1. i - 1 \in 1..m - 1 /\ (i - 1) + 1 = i
      BY <1>2, <2>1
    <3> QED
      BY <1>1, <3>1
  <2> QED
    BY <2>1
<1>4. \A i \in 1..m - 1 : i + 1 \in 1..m /\ i + 1 # 1
  BY <1>2
<1>5. 1 \in 1..m
  BY <1>1, <1>2
<1>6. OpenSet(t) = Opened(h) \cup OpenSet(u)
  <2>1. ASSUME NEW b \in OpenSet(t) PROVE b \in Opened(h) \cup OpenSet(u)
    <3>1. PICK i \in 1..m : b \in Opened(t[i])
      BY <2>1 DEF OpenSet
    <3> QED
      BY <1>1, <1>3, <3>1 DEF OpenSet
  <2>2. ASSUME NEW b \in Opened(h) PROVE b \in OpenSet(t)
    BY <1>1, <1>5, <2>2 DEF OpenSet
  <2>3. ASSUME NEW b \in OpenSet(u) PROVE b \in OpenSet(t)
    <3>1. PICK i \in 1..m - 1 : b \in Opened(u[i])
      BY <1>1, <2>3 DEF OpenSet
    <3>2. b \in Opened(t[i + 1]) /\ i + 1 \in 1..m
      BY <1>1, <1>4, <3>1
    <3> QED
      BY <3>2 DEF OpenSet
  <2> QED
    BY <2>1, <2>2, <2>3
<1>7. ASSUME Apart(t) PROVE Apart(u) /\ Opened(h) \cap OpenSet(u) = {}
  <2>1. ASSUME NEW i \in 1..m - 1, NEW j \in 1..m - 1, i # j PROVE Opened(u[i]) \cap Opened(u[j]) = {}
    <3>1. i + 1 # j + 1
      BY <1>2, <2>1
    <3> QED
      BY <1>1, <1>4, <1>7, <3>1 DEF Apart
  <2>2. ASSUME NEW i \in 1..m - 1 PROVE Opened(h) \cap Opened(u[i]) = {}
    BY <1>1, <1>4, <1>5, <1>7 DEF Apart
  <2>3. Apart(u)
    BY <1>1, <2>1 DEF Apart
  <2>4. Opened(h) \cap OpenSet(u) = {}
    BY <1>1, <2>2 DEF OpenSet
  <2> QED
    BY <2>3, <2>4
<1> QED
  BY <1>6, <1>7 DEF u, h

-----------------------------------------------------------------------------
(* What the items of the visitors do to the depth. *)

LEMMA LeadsExp ==
    ASSUME NEW D, NEW p \in Int, p >= 0, NEW q, q = p + 1, NEW x \in Exps
    PROVE  Leads(x, p, q, D)
<1>1. x.k \in ExpKinds
  BY ExpKind
<1> QED
  BY <1>1 DEF Leads, ExpKinds, StmKinds

LEMMA LeadsStm ==
    ASSUME NEW D, NEW p \in Int, p >= 0, NEW q, q = p + 1, NEW x \in Stms
    PROVE  Leads(x, p, q, D)
<1>1. x.k \in StmKinds
  BY StmKind
<1> QED
  BY <1>1 DEF Leads, ExpKinds, StmKinds

LEMMA LeadsList ==
    ASSUME NEW D, NEW p \in Int, p >= 0, NEW q, q = p + 1, NEW body, body # <<>>
    PROVE  Leads(LIST(body), p, q, D)
  BY DEF LIST, Leads, ExpKinds, StmKinds

LEMMA LeadsConst ==
    ASSUME NEW D, NEW p \in Int, p >= 0, NEW q, q = p + 1, NEW op, NEW v
    PROVE  Leads(EMIT_CONST(op, v), p, q, D)
  BY DEF EMIT_CONST, Leads, ExpKinds, StmKinds

LEMMA LeadsStore ==
    ASSUME NEW D, NEW p \in Int, NEW n
    PROVE  Leads(STORE(n), p, p, D)
  BY DEF STORE, Leads, ExpKinds, StmKinds

LEMMA LeadsNext ==
    ASSUME NEW D, NEW b \in 1..Len(D), Len(D[b]) = 1, NEW p, p \in {Dead, D[b][1]}
    PROVE  Leads(NEXT_BLOCK(b), p, D[b][1], D)
  BY DEF NEXT_BLOCK, Leads, ExpKinds, StmKinds

LEMMA LeadsOp ==
    ASSUME NEW D, NEW p \in Int, NEW q, NEW op
    PROVE  /\ op \in Binary /\ p >= 2 /\ q = p - 1 => Leads(EMIT(op), p, q, D)
           /\ op = "DUP" /\ p >= 1 /\ q = p + 1 => Leads(EMIT(op), p, q, D)
           /\ op \in {"POP", "PRINT"} /\ p >= 1 /\ q = p - 1 => Leads(EMIT(op), p, q, D)
<1> DEFINE ins == [op |-> op]
<1>1. EMIT(op).k = "emit" /\ EMIT(op).ins = ins /\ ins.op = op
  BY DEF EMIT
<1> HIDE DEF ins
<1>2. op \in Binary => Pops(ins) = 2 /\ Looks(ins) = 0 /\ Pushes(ins) = 1
  BY <1>1 DEF Binary, Pops, Looks, Pushes
<1>3. op = "DUP" => Pops(ins) = 0 /\ Looks(ins) = 1 /\ Pushes(ins) = 1
  BY <1>1 DEF Pops, Looks, Pushes
<1>4. op \in {"POP", "PRINT"} => Pops(ins) = 1 /\ Looks(ins) = 0 /\ Pushes(ins) = 0
  BY <1>1 DEF Pops, Looks, Pushes
<1>5. op \in Binary \cup {"DUP", "POP", "PRINT"} => op # "JUMP" /\ op \notin Jumping
  BY DEF Binary, Jumping
<1>6. /\ op \in Binary /\ p >= 2 /\ q = p - 1 => Effect(ins, p, q, D)
      /\ op = "DUP" /\ p >= 1 /\ q = p + 1 => Effect(ins, p, q, D)
      /\ op \in {"POP", "PRINT"} /\ p >= 1 /\ q = p - 1 => Effect(ins, p, q, D)
  BY <1>1, <1>2, <1>3, <1>4, <1>5 DEF Effect
<1> QED
  BY <1>1, <1>6 DEF Leads, ExpKinds, StmKinds

LEMMA LeadsArg ==
    ASSUME NEW D, NEW p \in Int, NEW q, NEW op, NEW n \in Nat
    PROVE  /\ op \in {"PUSH", "LOAD_NAME"} /\ p >= 0 /\ q = p + 1 => Leads(EMIT_ARG(op, n), p, q, D)
           /\ op = "STORE_NAME" /\ p >= 1 /\ q = p => Leads(EMIT_ARG(op, n), p, q, D)
           /\ op = "INVOKE" /\ p >= n + 1 /\ q = p - n => Leads(EMIT_ARG(op, n), p, q, D)
<1> DEFINE ins == [op |-> op, arg |-> n]
<1>1. EMIT_ARG(op, n).k = "emit" /\ EMIT_ARG(op, n).ins = ins /\ ins.op = op /\ ins.arg = n
  BY DEF EMIT_ARG
<1> HIDE DEF ins
<1>2. op \in {"PUSH", "LOAD_NAME"} => Pops(ins) = 0 /\ Looks(ins) = 0 /\ Pushes(ins) = 1
  BY <1>1 DEF Pops, Looks, Pushes
<1>3. op = "STORE_NAME" => Pops(ins) = 0 /\ Looks(ins) = 1 /\ Pushes(ins) = 0
  BY <1>1 DEF Pops, Looks, Pushes
<1>4. op = "INVOKE" => Pops(ins) = n + 1 /\ Looks(ins) = 0 /\ Pushes(ins) = 1
  BY <1>1 DEF Pops, Looks, Pushes
<1>5. op \in OnConst \cup {"INVOKE"} => op # "JUMP" /\ op \notin Jumping
  BY DEF OnConst, Jumping
<1>6. /\ op \in {"PUSH", "LOAD_NAME"} /\ p >= 0 /\ q = p + 1 => Effect(ins, p, q, D)
      /\ op = "STORE_NAME" /\ p >= 1 /\ q = p => Effect(ins, p, q, D)
      /\ op = "INVOKE" /\ p >= n + 1 /\ q = p - n => Effect(ins, p, q, D)
  BY <1>1, <1>2, <1>3, <1>4, <1>5 DEF Effect, OnConst
<1> QED
  BY <1>1, <1>6 DEF Leads, ExpKinds, StmKinds

LEMMA LeadsJump ==
    ASSUME NEW D, NEW p \in Int, NEW q, NEW op, NEW b \in 1..Len(D)
    PROVE  /\ op = "JUMP" /\ p >= 0 /\ D[b][1] = p /\ q = Dead => Leads(EMIT_JMP(op, b), p, q, D)
           /\ op \in {"JUMP_TRUE", "JUMP_FALSE"} /\ p >= 1 /\ D[b][1] = p - 1 /\ q = p - 1 =>
                  Leads(EMIT_JMP(op, b), p, q, D)
<1> DEFINE ins == [op |-> op, to |-> b]
<1>1. EMIT_JMP(op, b).k = "emit" /\ EMIT_JMP(op, b).ins = ins /\ ins.op = op /\ ins.to = b
  BY DEF EMIT_JMP
<1> HIDE DEF ins
<1>2. op = "JUMP" => Pops(ins) = 0 /\ Looks(ins) = 0 /\ Pushes(ins) = 0
  BY <1>1 DEF Pops, Looks, Pushes
<1>3. op \in {"JUMP_TRUE", "JUMP_FALSE"} => Pops(ins) = 1 /\ Looks(ins) = 0 /\ Pushes(ins) = 0
  BY <1>1 DEF Pops, Looks, Pushes
<1>4. /\ op = "JUMP" /\ p >= 0 /\ D[b][1] = p /\ q = Dead => Effect(ins, p, q, D)
      /\ op \in {"JUMP_TRUE", "JUMP_FALSE"} /\ p >= 1 /\ D[b][1] = p - 1 /\ q = p - 1 => Effect(ins, p, q, D)
  BY <1>1, <1>2, <1>3 DEF Effect
<1> QED
  BY <1>1, <1>4 DEF Leads, ExpKinds, StmKinds

-----------------------------------------------------------------------------
(* What the visitors do to the blocks. *)

LEMMA ExtendsSelf ==
    ASSUME NEW D \in Seq(Seq(Int)), NEW c
    PROVE  Extends(D, D, c)
  BY LenProperties DEF Extends

\* A new block, which begins at the depth v.
LEMMA NewBlock ==
    ASSUME NEW B \in Seq(CodeBlock)
    PROVE  /\ Append(B, EmptyBlock) \in Seq(CodeBlock) /\ Len(Append(B, EmptyBlock)) = Len(B) + 1
           /\ \A b \in 1..Len(B) : Append(B, EmptyBlock)[b] = B[b]
           /\ Append(B, EmptyBlock)[Len(B) + 1] = EmptyBlock
<1>1. EmptyBlock \in CodeBlock
  BY DEF EmptyBlock, CodeBlock, NoBlock
<1> HIDE DEF EmptyBlock
<1> QED
  BY <1>1, AppendProperties

OneMore(B, D, G, v) ==
    /\ BlocksGraded(Append(B, EmptyBlock), G) /\ \A c : Extends(D, G, c)
    /\ Len(G) = Len(B) + 1 /\ G[Len(B) + 1] = <<v>>
    /\ \A b \in 1..Len(B) : G[b] = D[b]

LEMMA GradedOne ==
    ASSUME NEW B \in Seq(CodeBlock), NEW D, BlocksGraded(B, D), NEW v \in Int
    PROVE  \E G : OneMore(B, D, G, v)
<1> DEFINE C == Append(B, EmptyBlock)
           e == <<v>>
           G == Append(D, e)
<1>1. EmptyBlock.code = <<>> /\ EmptyBlock.next = NoBlock /\ Len(<<>>) = 0
  BY DEF EmptyBlock, NoBlock
<1>2. e \in Seq(Int) /\ Len(e) = 1
  OBVIOUS
<1>3. D \in Seq(Seq(Int)) /\ Len(D) = Len(B) /\ Len(B) \in Nat
  BY LenProperties DEF BlocksGraded
<1> HIDE DEF EmptyBlock, e
<1>4. /\ C \in Seq(CodeBlock) /\ Len(C) = Len(B) + 1
      /\ \A i \in 1..Len(B) : C[i] = B[i]
      /\ C[Len(B) + 1] = EmptyBlock
  BY NewBlock
<1>5. /\ G \in Seq(Seq(Int)) /\ Len(G) = Len(B) + 1
      /\ \A i \in 1..Len(B) : G[i] = D[i]
      /\ G[Len(B) + 1] = e
  BY <1>2, <1>3, AppendProperties
<1> HIDE DEF C, G
<1>6. \A c : Extends(D, G, c)
  BY <1>3, <1>5 DEF Extends
<1>7. ASSUME NEW b \in 1..Len(C) PROVE BlockGraded(C[b], G[b], G)
  <2>1. CASE b \in 1..Len(B)
    <3>1. BlockGraded(B[b], D[b], D)
      BY <2>1 DEF BlocksGraded
    <3> QED
      BY <1>4, <1>5, <1>6, <2>1, <3>1, BlockExtends
  <2>2. CASE b = Len(B) + 1
    <3>1. BlockGraded(EmptyBlock, e, G)
      BY <1>1, <1>2 DEF BlockGraded
    <3> QED
      BY <1>4, <1>5, <2>2, <3>1
  <2> QED
    BY <1>3, <1>4, <2>1, <2>2
<1>8. BlocksGraded(C, G)
  BY <1>4, <1>5, <1>7 DEF BlocksGraded
<1>9. G[Len(B) + 1] = <<v>>
  BY <1>5 DEF e
<1>10. BlocksGraded(Append(B, EmptyBlock), G)
  BY <1>8 DEF C
<1> QED
  BY <1>5, <1>6, <1>9, <1>10 DEF OneMore

\* Two of them.
TwoMore(B, D, G, v, w) ==
    /\ BlocksGraded(Append(Append(B, EmptyBlock), EmptyBlock), G) /\ \A c : Extends(D, G, c)
    /\ Len(G) = Len(B) + 2 /\ G[Len(B) + 1] = <<v>> /\ G[Len(B) + 2] = <<w>>
    /\ \A b \in 1..Len(B) : G[b] = D[b]

LEMMA GradedTwo ==
    ASSUME NEW B \in Seq(CodeBlock), NEW D, BlocksGraded(B, D), NEW v \in Int, NEW w \in Int
    PROVE  \E G : TwoMore(B, D, G, v, w)
<1> DEFINE C == Append(B, EmptyBlock)
<1>0. PICK H : OneMore(B, D, H, v)
  BY GradedOne
<1>1. /\ BlocksGraded(C, H) /\ (\A c : Extends(D, H, c)) /\ Len(H) = Len(B) + 1 /\ H[Len(B) + 1] = <<v>>
      /\ \A b \in 1..Len(B) : H[b] = D[b]
  BY <1>0 DEF OneMore
<1>2. C \in Seq(CodeBlock) /\ Len(C) = Len(B) + 1
  BY NewBlock
<1> HIDE DEF C
<1>3. PICK G : /\ BlocksGraded(Append(C, EmptyBlock), G) /\ (\A c : Extends(H, G, c))
               /\ Len(G) = Len(C) + 1 /\ G[Len(C) + 1] = <<w>>
               /\ \A b \in 1..Len(C) : G[b] = H[b]
  BY <1>1, <1>2, GradedOne DEF OneMore
<1>4. Len(B) \in Nat /\ Len(D) = Len(B) /\ D \in Seq(Seq(Int)) /\ G \in Seq(Seq(Int))
  BY <1>3, LenProperties DEF BlocksGraded
<1>5. Len(G) = Len(B) + 2 /\ G[Len(B) + 2] = <<w>>
  <2>1. Len(C) + 1 = Len(B) + 2
    BY <1>2, <1>4
  <2> QED
    BY <1>3, <2>1
<1>6. G[Len(B) + 1] = <<v>> /\ \A b \in 1..Len(B) : G[b] = D[b]
  <2>1. Len(B) + 1 \in 1..Len(C) /\ \A b \in 1..Len(B) : b \in 1..Len(C)
    BY <1>2, <1>4
  <2> QED
    BY <1>1, <1>3, <2>1
<1>7. \A c : Extends(D, G, c)
  BY <1>4, <1>5, <1>6 DEF Extends
<1>8. BlocksGraded(Append(Append(B, EmptyBlock), EmptyBlock), G)
  BY <1>3 DEF C
<1> QED
  BY <1>5, <1>6, <1>7, <1>8 DEF TwoMore

\* An instruction more in a block that has no next one.
LEMMA GradedIns ==
    ASSUME NEW E, Made(E, blks, lists, fns), NEW D, BlocksGraded(blks, D),
           cb \in 1..Len(blks), blks[cb].next = NoBlock,
           NEW ins, NEW q \in Int, Effect(ins, Last(D[cb]), q, D)
    PROVE  \E G : /\ BlocksGraded(Append1(ins), G) /\ Extends(D, G, cb) /\ Last(G[cb]) = q
                  /\ Len(Append1(ins)) = Len(blks)
                  /\ \A b \in 1..Len(blks) : Append1(ins)[b].next = blks[b].next
<1> DEFINE b == blks[cb]
           c == [b EXCEPT !.code = Append(@, ins)]
           d == D[cb]
           g == Append(d, q)
           G == [D EXCEPT ![cb] = g]
           B == [blks EXCEPT ![cb] = c]
<1>1. blks \in Seq(CodeBlock) /\ Len(blks) \in Nat
  BY LenProperties DEF Made, BlocksFit
<1>2. D \in Seq(Seq(Int)) /\ Len(D) = Len(blks) /\ BlockGraded(b, d, D)
  BY DEF BlocksGraded
<1>3. b \in CodeBlock /\ d \in Seq(Int)
  BY <1>1, <1>2, ElementOfSeq
<1>4. IsSeq(b.code) /\ Len(b.code) \in Nat
  BY <1>3, SeqIs DEF CodeBlock
<1>5. c.code = Append(b.code, ins) /\ c.next = b.next
  BY <1>3 DEF CodeBlock
<1> DEFINE n == Len(b.code)
<1>6. /\ Len(c.code) = n + 1
      /\ \A i \in 1..n : c.code[i] = b.code[i]
      /\ c.code[n + 1] = ins
  BY <1>4, <1>5, AppendIs
<1>7. Append1(ins) = B
  BY DEF Append1
<1>8. Len(d) = n + 1 /\ \A i \in 1..n : Effect(b.code[i], d[i], d[i + 1], D)
  BY <1>2 DEF BlockGraded
<1>9. b.next = NoBlock
  OBVIOUS
<1> HIDE DEF b, c, d, n
<1>10. /\ g \in Seq(Int) /\ Len(g) = n + 2
       /\ \A i \in 1..n + 1 : g[i] = d[i]
       /\ g[n + 2] = q
  BY <1>3, <1>4, <1>8, AppendProperties DEF n
<1>11. n \in Nat /\ Last(d) = d[n + 1]
  BY <1>4, <1>8 DEF n, Last
<1> HIDE DEF g
<1>12. /\ G \in Seq(Seq(Int)) /\ Len(G) = Len(blks)
       /\ \A x \in 1..Len(blks) : G[x] = IF x = cb THEN g ELSE D[x]
  BY <1>2, <1>10, ExceptSeq
<1>13. /\ Len(B) = Len(blks)
       /\ \A x \in 1..Len(blks) : B[x] = IF x = cb THEN c ELSE blks[x]
  <2>1. IsSeq(blks)
    BY <1>1, SeqIs
  <2> QED
    BY <2>1, ExceptIs
<1> HIDE DEF G, B
<1>14. Extends(D, G, cb)
  <2>1. g[1] = d[1]
    BY <1>10, <1>11
  <2>2. ASSUME NEW x \in 1..Len(D) PROVE G[x][1] = D[x][1] /\ (x # cb => G[x] = D[x])
    <3>1. G[x] = IF x = cb THEN g ELSE D[x]
      BY <1>2, <1>12
    <3>2. CASE x = cb
      BY <2>1, <3>1, <3>2 DEF d
    <3>3. CASE x # cb
      BY <3>1, <3>3
    <3> QED
      BY <3>2, <3>3
  <2> QED
    BY <1>1, <1>2, <1>12, <2>2 DEF Extends
<1>15. BlockGraded(c, g, G)
  <2>1. ASSUME NEW i \in 1..n + 1 PROVE Effect(c.code[i], g[i], g[i + 1], G)
    <3>1. CASE i \in 1..n
      <4>1. i \in 1..n + 1 /\ i + 1 \in 1..n + 1
        BY <1>11, <3>1
      <4>2. Effect(b.code[i], d[i], d[i + 1], G)
        BY <1>8, <1>14, <3>1, EffectExtends
      <4> QED
        BY <1>6, <1>10, <3>1, <4>1, <4>2
    <3>2. CASE i = n + 1
      <4>1. g[i] = Last(d) /\ g[i + 1] = q /\ c.code[i] = ins
        BY <1>6, <1>10, <1>11, <3>2
      <4>2. Effect(ins, Last(d), q, G)
        BY <1>14, EffectExtends DEF d
      <4> QED
        BY <4>1, <4>2
    <3> QED
      BY <1>11, <3>1, <3>2
  <2>2. Len(g) = Len(c.code) + 1
    BY <1>6, <1>10, <1>11
  <2> QED
    BY <1>5, <1>6, <1>9, <2>1, <2>2 DEF BlockGraded
<1>16. ASSUME NEW x \in 1..Len(B) PROVE BlockGraded(B[x], G[x], G)
  <2>1. CASE x = cb
    BY <1>12, <1>13, <1>15, <2>1
  <2>2. CASE x # cb
    <3>1. BlockGraded(blks[x], D[x], D)
      BY <1>13 DEF BlocksGraded
    <3> QED
      BY <1>12, <1>13, <1>14, <2>2, <3>1, BlockExtends
  <2> QED
    BY <2>1, <2>2
<1>17. BlocksGraded(B, G)
  BY <1>12, <1>13, <1>16 DEF BlocksGraded
<1>18. Last(G[cb]) = q
  <2>1. G[cb] = g
    BY <1>12
  <2> QED
    BY <1>10, <1>11, <2>1 DEF Last
<1>19. \A x \in 1..Len(blks) : B[x].next = blks[x].next
  BY <1>5, <1>13 DEF b
<1> QED
  BY <1>7, <1>13, <1>14, <1>17, <1>18, <1>19

\* What the visitor at work finds.
LEMMA HeadGraded ==
    ASSUME NEW E, Compiled(E), NEW D, Graded(D), todo # <<>>
    PROVE  /\ cb \in 1..Len(blks) /\ blks[cb].next = NoBlock /\ Last(D[cb]) \in Int
           /\ \E q \in Int : Leads(Node, Last(D[cb]), q, D) /\ Chain(Tail(todo), q, D)
           /\ IsSeq(Tail(todo)) /\ Apart(Tail(todo)) /\ Opened(Node) \cap OpenSet(Tail(todo)) = {}
           /\ OpenSet(todo) = Opened(Node) \cup OpenSet(Tail(todo))
           /\ D \in Seq(Seq(Int)) /\ Len(D) = Len(blks) /\ BlocksGraded(blks, D)
           /\ blks \in Seq(CodeBlock) /\ Len(blks) \in Nat
<1>1. cb \in DOMAIN E.own /\ E \in Env /\ BlocksFit(blks, E) /\ IsSeq(todo)
  BY DEF Compiled, Made, Fit
<1>2. cb \in 1..Len(blks) /\ cb # NoBlock /\ blks \in Seq(CodeBlock) /\ Len(blks) \in Nat
  BY <1>1, LenProperties DEF BlocksFit, NoBlock
<1>3. blks[cb].next = NoBlock /\ Here(D) = Last(D[cb])
  BY <1>2 DEF Graded, OpenSound, Here
<1>4. Chain(todo, Last(D[cb]), D)
  BY <1>3 DEF Graded
<1>5. Last(D[cb]) \in Int /\ \E q \in Int : Leads(Node, Last(D[cb]), q, D) /\ Chain(Tail(todo), q, D)
  BY <1>4, ChainHead DEF Node
<1>6. /\ IsSeq(Tail(todo)) /\ Apart(Tail(todo)) /\ Opened(Node) \cap OpenSet(Tail(todo)) = {}
      /\ OpenSet(todo) = Opened(Node) \cup OpenSet(Tail(todo))
  <2>1. Apart(todo)
    BY DEF Graded, OpenSound
  <2> QED
    BY <1>1, <2>1, TailIs, OpenTail DEF Node
<1> QED
  BY <1>2, <1>3, <1>5, <1>6 DEF Graded, BlocksGraded

\* The functions begin with no object, as before.
LEMMA FnsStart ==
    ASSUME NEW E, Compiled(E), NEW D, Graded(D), NEW G, NEW c, Extends(D, G, c), NEW f \in 1..Len(fns)
    PROVE  fns[f].blk \in 1..Len(blks) /\ G[fns[f].blk][1] = 0
<1>1. fns[f].blk \in 1..Len(blks)
  BY DEF Compiled, Made, FnsFit, FnFits, BlocksFit
<1>2. Len(D) = Len(blks) /\ D[fns[f].blk][1] = 0
  BY DEF Graded, BlocksGraded
<1> QED
  BY <1>1, <1>2, ExtendsIn

\* It puts items in front of the others, and blocks that they will continue.
LEMMA StillGraded ==
    ASSUME NEW E, Compiled(E), NEW D, Graded(D), todo # <<>>, Opened(Node) = {},
           NEW q, Chain(Tail(todo), q, D), NEW G, Extends(D, G, cb), NEW B, BlocksGraded(B, G),
           NEW items, Brings(items, Last(G[cb]), q, G), Apart(items),
           \A b \in 1..Len(blks) : b \in 1..Len(B) /\ B[b].next = blks[b].next,
           \A b \in 1..Len(B) : b \in 1..Len(blks) \/ (b \in OpenSet(items) /\ B[b].next = NoBlock),
           \A b \in OpenSet(items) : b \in 1..Len(B) /\ b \notin 1..Len(blks),
           blks' = B, cb' = cb, fns' = fns, Then(items)
    PROVE  Graded(G)'
<1> DEFINE t == Tail(todo)
<1>1. /\ cb \in 1..Len(blks) /\ blks[cb].next = NoBlock /\ IsSeq(t) /\ Apart(t)
      /\ OpenSet(todo) = OpenSet(t) /\ Len(D) = Len(blks)
  BY HeadGraded
<1>2. cb \notin OpenSet(t) /\ \A b \in OpenSet(t) : b \in 1..Len(blks) /\ blks[b].next = NoBlock
  BY <1>1 DEF Graded, OpenSound
<1>3. todo' = items \o t
  BY DEF Then
<1> HIDE DEF t
<1>4. Chain(items \o t, Last(G[cb]), G)
  <2>1. Chain(t, q, G)
    BY <1>2, ChainExtends DEF t
  <2> QED
    BY <2>1, ChainBefore
<1>5. cb # NoBlock
  BY <1>1 DEF NoBlock
<1>6. Chain(todo, Here(G), G)'
  BY <1>3, <1>4, <1>5 DEF Here
<1>7. OpenSet(items) \cap OpenSet(t) = {}
  BY <1>2
<1>8. OpenSet(items \o t) = OpenSet(items) \cup OpenSet(t) /\ Apart(items \o t)
  BY <1>1, <1>7, OpenConcat DEF Brings
<1> DEFINE u == items \o t
<1> HIDE DEF u
<1>9. cb \notin OpenSet(u)
  BY <1>1, <1>2, <1>8 DEF u
<1>10. \A b \in OpenSet(u) \cup ({cb} \ {NoBlock}) : b \in 1..Len(B) /\ B[b].next = NoBlock
  BY <1>1, <1>2, <1>8 DEF u
<1>11. ASSUME NEW b \in 1..Len(B), B[b].next = NoBlock, b # cb, b \notin OpenSet(u) PROVE Last(G[b]) = 1
  <2>1. b \in 1..Len(blks) /\ blks[b].next = NoBlock /\ b \notin OpenSet(t)
    BY <1>8, <1>11 DEF u
  <2>2. Last(D[b]) = 1
    BY <1>1, <1>11, <2>1 DEF Graded, OpenSound
  <2>3. G[b] = D[b]
    BY <1>1, <1>11, <2>1, ExtendsIn
  <2> QED
    BY <2>2, <2>3
<1>12. Apart(u)
  BY <1>8 DEF u
<1>13. OpenSound(G)'
  <2>1. todo' = u
    BY <1>3 DEF u
  <2>2. Apart(todo)'
    BY <1>12, <2>1 DEF Apart
  <2>3. OpenSet(todo)' = OpenSet(u)
    BY <2>1 DEF OpenSet
  <2> QED
    BY <1>9, <1>10, <1>11, <2>2, <2>3 DEF OpenSound
<1>14. \A f \in 1..Len(fns) : G[fns[f].blk][1] = 0
  BY FnsStart
<1> QED
  BY <1>6, <1>13, <1>14 DEF Graded

\* The visitor makes no block.
LEMMA CallsGraded ==
    ASSUME NEW E, Compiled(E), NEW D, Graded(D), todo # <<>>, Opened(Node) = {},
           NEW q, Chain(Tail(todo), q, D),
           NEW items, Brings(items, Last(D[cb]), q, D), \A j \in 1..Len(items) : Opened(items[j]) = {},
           UNCHANGED <<blks, cb, fns>>, Then(items)
    PROVE  \E G : Graded(G)' /\ Extends(D, G, cb)
<1>1. BlocksGraded(blks, D) /\ Extends(D, D, cb)
  BY ExtendsSelf DEF Graded, BlocksGraded
<1>2. OpenSet(items) = {} /\ Apart(items)
  BY DEF OpenSet, Apart
<1>3. Graded(D)'
  BY <1>1, <1>2, StillGraded
<1> QED
  BY <1>1, <1>3

\* The visitor appends an instruction.
LEMMA InsGraded ==
    ASSUME NEW E, Compiled(E), NEW D, Graded(D), todo # <<>>, Opened(Node) = {},
           NEW q \in Int, Chain(Tail(todo), q, D),
           NEW ins, Effect(ins, Last(D[cb]), q, D),
           blks' = Append1(ins), UNCHANGED <<cb, fns>>, Then(<<>>)
    PROVE  \E G : Graded(G)' /\ Extends(D, G, cb)
<1>1. cb \in 1..Len(blks) /\ blks[cb].next = NoBlock /\ BlocksGraded(blks, D)
  BY HeadGraded
<1> DEFINE B == Append1(ins)
<1>2. PICK G : /\ BlocksGraded(B, G) /\ Extends(D, G, cb) /\ Last(G[cb]) = q
               /\ Len(B) = Len(blks) /\ \A b \in 1..Len(blks) : B[b].next = blks[b].next
  BY <1>1, GradedIns DEF Compiled
<1> HIDE DEF B
<1> DEFINE items == <<>>
<1>3. Brings(items, q, q, G)
  BY BringsNothing
<1>4. Len(items) = 0
  BY EmptyIs
<1>5. Then(items) /\ blks' = B
  BY DEF B
<1> HIDE DEF items
<1>6. OpenSet(items) = {} /\ Apart(items)
  BY <1>4 DEF OpenSet, Apart
<1>7. cb' = cb /\ fns' = fns
  OBVIOUS
<1>8. \A b \in 1..Len(blks) : b \in 1..Len(B) /\ B[b].next = blks[b].next
  BY <1>2
<1>9. \A b \in 1..Len(B) : b \in 1..Len(blks)
  BY <1>2
<1>10. Graded(G)'
  BY <1>2, <1>3, <1>5, <1>6, <1>7, <1>8, <1>9, StillGraded
<1> QED
  BY <1>2, <1>10

-----------------------------------------------------------------------------
(* Each visitor leaves its value on the stack, and nothing else.           *)

LEMMA ConstEffect ==
    ASSUME NEW D, NEW p \in Int, p >= 0, NEW op \in {"PUSH", "LOAD_NAME"}, NEW n
    PROVE  Effect([op |-> op, arg |-> n], p, p + 1, D)
<1> DEFINE ins == [op |-> op, arg |-> n]
<1>1. ins.op = op
  OBVIOUS
<1> HIDE DEF ins
<1>2. Pops(ins) = 0 /\ Looks(ins) = 0 /\ Pushes(ins) = 1
  BY <1>1 DEF Pops, Looks, Pushes
<1>3. Effect(ins, p, p + 1, D)
  BY <1>1, <1>2 DEF Effect, Jumping
<1> QED
  BY <1>3 DEF ins

LEMMA InsVisitorsGraded ==
    ASSUME NEW E, Compiled(E), NEW D, Graded(D), AddOp \/ AddOpOnConst \/ VisitLiteral
    PROVE  \E G : Graded(G)' /\ Extends(D, G, cb)
<1>1. todo # <<>> /\ Node.k \in {"emit", "const", "lit"}
  BY DEF AddOp, AddOpOnConst, VisitLiteral, At, Node
<1>2. Opened(Node) = {}
  BY <1>1 DEF Opened
<1> DEFINE p == Last(D[cb])
<1>3. PICK q \in Int : Leads(Node, p, q, D) /\ Chain(Tail(todo), q, D)
  BY <1>1, HeadGraded
<1>4. p \in Int
  BY <1>1, HeadGraded
<1> HIDE DEF p
<1>5. SUFFICES ASSUME NEW ins, Effect(ins, p, q, D), blks' = Append1(ins), UNCHANGED <<cb, fns>>, Then(<<>>)
               PROVE  \E G : Graded(G)' /\ Extends(D, G, cb)
  <2>1. CASE AddOp
    <3>1. Effect(Node.ins, p, q, D)
      BY <1>3, <2>1 DEF Leads, AddOp, At, Node
    <3> QED
      BY <1>5, <2>1, <3>1 DEF AddOp
  <2>2. CASE AddOpOnConst
    <3>1. Node.k = "const"
      BY <2>2 DEF AddOpOnConst, At, Node
    <3>2. p >= 0 /\ q = p + 1
      BY <1>3, <3>1 DEF Leads
    <3>3. Node.op \in {"PUSH", "LOAD_NAME"}
      BY <1>1, <3>1, HeadFits DEF FitItem
    <3>4. Effect([op |-> Node.op, arg |-> IndexOf(Node.v)], p, q, D)
      BY <1>4, <3>2, <3>3, ConstEffect
    <3> QED
      BY <1>5, <2>2, <3>4 DEF AddOpOnConst
  <2>3. CASE VisitLiteral
    <3>1. Node.k = "lit"
      BY <2>3 DEF VisitLiteral, At, Node
    <3>2. p >= 0 /\ q = p + 1
      BY <1>3, <3>1 DEF Leads, ExpKinds
    <3>3. Effect([op |-> "PUSH", arg |-> IndexOf(Node.v)], p, q, D)
      BY <1>4, <3>2, ConstEffect
    <3> QED
      BY <1>5, <2>3, <3>3 DEF VisitLiteral
  <2> QED
    BY <2>1, <2>2, <2>3
<1> QED
  BY <1>1, <1>2, <1>3, <1>5, InsGraded DEF p

LEMMA StoreGraded ==
    ASSUME NEW E, Compiled(E), NEW D, Graded(D), StoreObj
    PROVE  \E G : Graded(G)' /\ Extends(D, G, cb)
<1>1. todo # <<>> /\ Node.k = "store"
  BY DEF StoreObj, At, Node
<1>2. Opened(Node) = {}
  BY <1>1 DEF Opened
<1> DEFINE p == Last(D[cb])
<1>3. PICK q \in Int : Leads(Node, p, q, D) /\ Chain(Tail(todo), q, D)
  BY <1>1, HeadGraded
<1>4. q = p
  BY <1>1, <1>3 DEF Leads
<1> HIDE DEF p
<1> DEFINE items == <<>>
<1>5. Brings(items, q, q, D)
  BY BringsNothing
<1>6. Len(items) = 0
  BY EmptyIs
<1>7. Then(items) /\ UNCHANGED <<blks, cb, fns>>
  BY DEF StoreObj
<1> HIDE DEF items
<1>8. Brings(items, Last(D[cb]), q, D)
  BY <1>4, <1>5 DEF p
<1>9. \A j \in 1..Len(items) : Opened(items[j]) = {}
  BY <1>6
<1> QED
  BY <1>1, <1>2, <1>3, <1>7, <1>8, <1>9, CallsGraded

\* The block goes on in another.
LEMMA UseNextGraded ==
    ASSUME NEW E, Compiled(E), NEW D, Graded(D), UseNext
    PROVE  Graded(D)'
<1> DEFINE b == Node.b
           t == Tail(todo)
           p == Last(D[cb])
<1>1. todo # <<>> /\ Node.k = "next" /\ cb' = b /\ Then(<<>>)
  BY DEF UseNext, At, Node
<1>2. PICK q \in Int : Leads(Node, p, q, D) /\ Chain(t, q, D)
  BY <1>1, HeadGraded
<1>3. b \in 1..Len(D) /\ Len(D[b]) = 1 /\ p \in {Dead, D[b][1]} /\ q = D[b][1]
  BY <1>1, <1>2 DEF Leads
<1>4. Opened(Node) = {b}
  BY <1>1 DEF Opened
<1>5. /\ cb \in 1..Len(blks) /\ blks[cb].next = NoBlock
      /\ IsSeq(t) /\ Apart(t) /\ b \notin OpenSet(t) /\ OpenSet(todo) = {b} \cup OpenSet(t)
      /\ Len(D) = Len(blks) /\ BlocksGraded(blks, D) /\ blks \in Seq(CodeBlock) /\ Len(blks) \in Nat
  BY <1>1, <1>4, HeadGraded
<1>6. /\ cb # b /\ cb \notin OpenSet(t) /\ blks[b].next = NoBlock
      /\ \A x \in OpenSet(t) : x \in 1..Len(blks) /\ blks[x].next = NoBlock
  BY <1>5 DEF Graded, OpenSound
<1>7. todo' = t
  BY <1>1, <1>5, ConcatEmpty DEF Then
<1>8. b # NoBlock /\ b \in 1..Len(blks)
  BY <1>3, <1>5 DEF NoBlock
<1> DEFINE c == [blks[cb] EXCEPT !.next = b]
           C == [blks EXCEPT ![cb] = c]
           d == [C[b] EXCEPT !.next = NoBlock]
           B == [C EXCEPT ![b] = d]
<1>9. blks' = B
  BY DEF UseNext
<1>10. blks[cb] \in CodeBlock /\ blks[b] \in CodeBlock /\ IsSeq(blks)
  BY <1>5, <1>8, ElementOfSeq, SeqIs
<1>11. c.code = blks[cb].code /\ c.next = b
  BY <1>10 DEF CodeBlock
<1> HIDE DEF c, b, t
<1>12. IsSeq(C) /\ Len(C) = Len(blks) /\ \A x \in 1..Len(blks) : C[x] = IF x = cb THEN c ELSE blks[x]
  <2>1. cb \in 1..Len(blks) /\ IsSeq(blks)
    BY <1>5, <1>10
  <2>2. IsSeq(C)
    BY <2>1, ExceptIs
  <2>3. Len(C) = Len(blks) /\ \A x \in 1..Len(blks) : C[x] = IF x = cb THEN c ELSE blks[x]
    BY <2>1, ExceptIs
  <2> QED
    BY <2>2, <2>3
<1> HIDE DEF C
<1>13. C[b] = blks[b]
  BY <1>6, <1>8, <1>12
<1>14. d.code = blks[b].code /\ d.next = NoBlock
  BY <1>10, <1>13 DEF CodeBlock
<1> HIDE DEF d
<1>15. Len(B) = Len(blks) /\ \A x \in 1..Len(blks) : B[x] = IF x = b THEN d ELSE IF x = cb THEN c ELSE blks[x]
  <2>1. Len(B) = Len(C) /\ \A x \in 1..Len(C) : B[x] = IF x = b THEN d ELSE C[x]
    BY <1>8, <1>12, ExceptIs
  <2> QED
    BY <1>12, <2>1
<1> HIDE DEF B
<1>16. ASSUME NEW x \in 1..Len(B) PROVE BlockGraded(B[x], D[x], D)
  <2>1. BlockGraded(blks[x], D[x], D)
    BY <1>5, <1>15 DEF BlocksGraded
  <2>2. CASE x = b
    <3>1. B[x] = d
      BY <1>15, <2>2
    <3> QED
      BY <1>14, <2>1, <2>2, <3>1 DEF BlockGraded
  <2>3. CASE x = cb /\ x # b
    <3>1. B[x] = c
      BY <1>15, <2>3
    <3>2. Last(D[x]) \in {Dead, D[b][1]} /\ b \in 1..Len(D)
      BY <1>3, <2>3 DEF b, p
    <3> QED
      BY <1>11, <2>1, <2>3, <3>1, <3>2 DEF BlockGraded
  <2>4. CASE x # b /\ x # cb
    BY <1>15, <2>1, <2>4
  <2> QED
    BY <2>2, <2>3, <2>4
<1>17. BlocksGraded(B, D)
  BY <1>5, <1>15, <1>16 DEF BlocksGraded
<1>18. Chain(t, Last(D[b]), D)
  <2>1. Last(D[b]) = D[b][1]
    BY <1>3 DEF Last, b
  <2> QED
    BY <1>2, <1>3, <2>1 DEF b, t
<1>19. OpenSound(D)'
  <2>1. OpenSet(todo)' = OpenSet(t) /\ Apart(todo)'
    BY <1>5, <1>7 DEF OpenSet, Apart, t
  <2>2. ASSUME NEW x \in OpenSet(t) \cup {b} PROVE x \in 1..Len(B) /\ B[x].next = NoBlock
    <3>1. x \in 1..Len(blks) /\ blks[x].next = NoBlock /\ x # cb
      BY <1>6, <1>8 DEF b, t
    <3> QED
      BY <1>14, <1>15, <3>1
  <2>3. ASSUME NEW x \in 1..Len(B), B[x].next = NoBlock, x # b, x \notin OpenSet(t) PROVE Last(D[x]) = 1
    <3>1. x # cb
      BY <1>8, <1>11, <1>15, <2>3
    <3>2. B[x] = blks[x] /\ x \in 1..Len(blks)
      BY <1>15, <2>3, <3>1
    <3>3. x \notin OpenSet(todo)
      BY <1>5, <2>3 DEF b, t
    <3> QED
      BY <2>3, <3>1, <3>2, <3>3 DEF Graded, OpenSound
  <2>4. b \notin OpenSet(t) /\ cb' = b
    BY <1>1, <1>5 DEF b, t
  <2> QED
    BY <1>9, <2>1, <2>2, <2>3, <2>4 DEF OpenSound
<1>20. Chain(todo, Here(D), D)'
  <2>1. cb' = b /\ todo' = t /\ b # NoBlock
    BY <1>1, <1>7, <1>8 DEF b, t
  <2> QED
    BY <1>18, <2>1 DEF Here
<1>21. fns' = fns
  BY DEF UseNext
<1> QED
  BY <1>9, <1>17, <1>19, <1>20, <1>21 DEF Graded

\* The index of a constant.
LEMMA NameIndex ==
    ASSUME NEW E, Compiled(E), todo # <<>>, NEW n
    PROVE  IndexOf(STR(n)) \in Nat
<1>1. cs \in DOMAIN E.size /\ Val(STR(n), Len(fns)) /\ Made(E, blks, lists, fns)
  BY HeadFits DEF STR, Val, Compiled
<1>2. PICK F : Made(F, blks, Stored(STR(n)), fns) /\ Grows(E, F) /\ IndexOf(STR(n)) \in 1..F.size[cs]
  BY <1>1, MakeConst
<1>3. F \in Env /\ cs \in DOMAIN F.size
  BY <1>1, <1>2 DEF Made, Grows
<1> QED
  BY <1>2, <1>3, EnvType

LEMMA OpensNothing ==
    /\ \A x \in Exps \cup Stms : Opened(x) = {}
    /\ \A body : Opened(LIST(body)) = {}
    /\ \A op : Opened(EMIT(op)) = {}
    /\ \A op, n : Opened(EMIT_ARG(op, n)) = {}
    /\ \A op, b : Opened(EMIT_JMP(op, b)) = {}
    /\ \A op, v : Opened(EMIT_CONST(op, v)) = {}
    /\ \A n : Opened(STORE(n)) = {}
    /\ \A b : Opened(NEXT_BLOCK(b)) = {b}
<1>1. \A x \in Exps \cup Stms : x.k \in ExpKinds \cup StmKinds
  BY ExpKind, StmKind
<1>2. \A x \in Exps \cup Stms : Opened(x) = {}
  BY <1>1 DEF Opened, ExpKinds, StmKinds
<1> QED
  BY <1>2 DEF Opened, LIST, EMIT, EMIT_ARG, EMIT_JMP, EMIT_CONST, STORE, NEXT_BLOCK

LEMMA LeadsTo ==
    ASSUME NEW D, NEW p \in Int, p >= 1, NEW x, x.k = "to"
    PROVE  Leads(x, p, p, D)
  BY DEF Leads, ExpKinds, StmKinds

LEMMA ClosedBoth ==
    ASSUME NEW s, IsSeq(s), NEW t, IsSeq(t),
           \A j \in 1..Len(s) : Opened(s[j]) = {}, \A j \in 1..Len(t) : Opened(t[j]) = {}
    PROVE  \A j \in 1..Len(s \o t) : Opened((s \o t)[j]) = {}
<1>1. OpenSet(s) = {} /\ OpenSet(t) = {}
  BY DEF OpenSet
<1>2. OpenSet(s \o t) = {}
  BY <1>1, OpenConcat
<1> QED
  BY <1>2 DEF OpenSet

LEMMA NotFewer == ASSUME NEW n \in Nat, ~(n < 2) PROVE n - 1 # 0
  OBVIOUS

\* The depths before the arguments of a call.
LEMMA Rising ==
    ASSUME NEW n \in Nat, NEW p \in Int, p >= 0, NEW j \in 1..n
    PROVE  LET ks == [i \in 1..n + 1 |-> p + (i - 1)]
           IN  ks[j] \in Int /\ ks[j] >= 0 /\ ks[j + 1] = ks[j] + 1
<1>1. j \in 1..n + 1 /\ j + 1 \in 1..n + 1 /\ p + (j - 1) \in Int /\ p + (j - 1) >= 0
      /\ p + ((j + 1) - 1) = p + (j - 1) + 1
  OBVIOUS
<1> QED
  BY <1>1

\* The visitors that only call others, or store a name first.
LEMMA CallVisitorsGraded ==
    ASSUME NEW E, Compiled(E), NEW D, Graded(D), NoEmptyBody,
           \/ VisitIdentifier \/ VisitBinary \/ VisitCall \/ VisitExpStatement \/ VisitPrint
           \/ VisitBlock \/ VisitList \/ VisitFor \/ VisitAssign \/ VisitStep
    PROVE  \E G : Graded(G)' /\ Extends(D, G, cb)
<1>1. /\ todo # <<>> /\ UNCHANGED <<blks, cb, fns>>
      /\ Node.k \in {"id", "op", "call", "exp", "print", "block", "list", "for", "assign", "inc", "dec"}
  BY DEF VisitIdentifier, VisitBinary, VisitCall, VisitExpStatement, VisitPrint,
         VisitBlock, VisitList, VisitFor, VisitAssign, VisitStep, Only, At, Node
<1>2. /\ Node.k \in ExpKinds => Node \in Exps /\ Expression(Node)
      /\ Node.k \in StmKinds => Node \in Stms /\ Statement(Node)
      /\ Node.k = "list" => Node.body \in Seq(Stms)
      /\ E \in Env /\ cs \in DOMAIN E.size
  BY <1>1, HeadFits, ExpKind, StmKind DEF FitItem
<1>3. Opened(Node) = {}
  BY <1>1 DEF Opened
<1> DEFINE p == Last(D[cb])
<1>4. PICK q \in Int : Leads(Node, p, q, D) /\ Chain(Tail(todo), q, D)
  BY <1>1, HeadGraded
<1>5. p \in Int /\ p >= 0 /\ q = p + 1 /\ (Node.k = "list" => Node.body # <<>>)
  BY <1>1, <1>4, HeadGraded DEF Leads, ExpKinds, StmKinds
<1> HIDE DEF p
<1>6. SUFFICES ASSUME NEW x, Brings(x, p, q, D), \A j \in 1..Len(x) : Opened(x[j]) = {}, Then(x)
               PROVE  \E G : Graded(G)' /\ Extends(D, G, cb)
  <2>1. CASE VisitIdentifier
    <3> DEFINE x == <<EMIT_CONST("LOAD_NAME", STR(Node.n))>>
               ks == <<p, p + 1>>
    <3>1. ks \in Seq(Int) /\ Len(ks) = 2 /\ ks[1] = p /\ ks[2] = p + 1
      BY <1>5
    <3>2. Then(x)
      BY <2>1 DEF VisitIdentifier, Only
    <3>3. IsSeq(x) /\ Len(x) = 1 /\ x[1] = EMIT_CONST("LOAD_NAME", STR(Node.n))
      BY OneIs
    <3> HIDE DEF x, ks
    <3>4. Leads(x[1], ks[1], ks[2], D) /\ Opened(x[1]) = {}
      <4>1. Leads(x[1], ks[1], ks[2], D)
        <5>1. ks[1] \in Int /\ ks[1] >= 0 /\ ks[2] = ks[1] + 1
          BY <1>5, <3>1
        <5> QED
          BY <3>3, <5>1, LeadsConst
      <4> QED
        BY <3>3, <4>1, OpensNothing
    <3>5. \A j \in 1..Len(x) : Leads(x[j], ks[j], ks[j + 1], D) /\ Opened(x[j]) = {}
      BY <3>3, <3>4
    <3>6. p = ks[1] /\ q = ks[Len(x) + 1] /\ Len(ks) = Len(x) + 1
      BY <1>5, <3>1, <3>3
    <3>7. Brings(x, p, q, D)
      BY <3>1, <3>3, <3>5, <3>6, Bringing
    <3> QED
      BY <1>6, <3>2, <3>5, <3>7
  <2>2. CASE VisitBinary
    <3> DEFINE x == <<Node.l, Node.r, EMIT(Node.o)>>
               ks == <<p, p + 1, p + 2, p + 1>>
    <3>1. Node.l \in Exps /\ Node.r \in Exps /\ Node.o \in Binary
      BY <1>2, <2>2 DEF VisitBinary, At, Node, Expression, Binary, ExpKinds
    <3>2. ks \in Seq(Int) /\ Len(ks) = 4 /\ ks[1] = p /\ ks[2] = p + 1 /\ ks[3] = p + 2 /\ ks[4] = p + 1
      BY <1>5
    <3>3. Then(x)
      BY <2>2 DEF VisitBinary, Only
    <3>4. IsSeq(x) /\ Len(x) = 3 /\ x[1] = Node.l /\ x[2] = Node.r /\ x[3] = EMIT(Node.o)
      BY Tuple3
    <3> HIDE DEF x, ks
    <3>5. /\ Leads(x[1], ks[1], ks[2], D) /\ Opened(x[1]) = {}
          /\ Leads(x[2], ks[2], ks[3], D) /\ Opened(x[2]) = {}
          /\ Leads(x[3], ks[3], ks[4], D) /\ Opened(x[3]) = {}
      <4>1. Leads(x[1], ks[1], ks[2], D)
        <5>1. ks[1] \in Int /\ ks[1] >= 0 /\ ks[2] = ks[1] + 1
          BY <1>5, <3>2
        <5> QED
          BY <3>1, <3>4, <5>1, LeadsExp
      <4>2. Leads(x[2], ks[2], ks[3], D)
        <5>1. ks[2] \in Int /\ ks[2] >= 1 /\ ks[3] = ks[2] + 1
          BY <1>5, <3>2
        <5> QED
          BY <3>1, <3>4, <5>1, LeadsExp
      <4>3. Leads(x[3], ks[3], ks[4], D)
        <5>1. ks[3] \in Int /\ ks[3] >= 2 /\ ks[4] = ks[3] - 1
          BY <1>5, <3>2
        <5> QED
          BY <3>1, <3>4, <5>1, LeadsOp
      <4> QED
        BY <3>1, <3>4, <4>1, <4>2, <4>3, OpensNothing
    <3>6. \A j \in 1..Len(x) : Leads(x[j], ks[j], ks[j + 1], D) /\ Opened(x[j]) = {}
      BY <3>4, <3>5
    <3>7. p = ks[1] /\ q = ks[Len(x) + 1] /\ Len(ks) = Len(x) + 1
      BY <1>5, <3>2, <3>4
    <3>8. Brings(x, p, q, D)
      BY <3>2, <3>4, <3>6, <3>7, Bringing
    <3> QED
      BY <1>6, <3>3, <3>6, <3>8
  <2>3. CASE VisitCall
    <3> DEFINE a == Node.args
               n == Len(a)
               t == <<Node.f, EMIT_ARG("INVOKE", n)>>
               x == a \o t
               ks == [j \in 1..n + 1 |-> p + (j - 1)]
               ls == <<p + n, p + n + 1, p + 1>>
    <3>1. Node.f \in Exps /\ Node.args \in Seq(Exps)
      BY <1>2, <2>3 DEF VisitCall, At, Node, Expression, ExpKinds
    <3>2. IsSeq(a) /\ n \in Nat /\ \A i \in 1..n : a[i] \in Exps
      BY <3>1, SeqIs
    <3>3. Then(x)
      BY <2>3 DEF VisitCall, Only
    <3>4. IsSeq(t) /\ Len(t) = 2 /\ t[1] = Node.f /\ t[2] = EMIT_ARG("INVOKE", n)
      BY Tuple2
    <3>5. ks \in [1..n + 1 -> Int] /\ ks[1] = p /\ ks[n + 1] = p + n
      BY <1>5, <3>2
    <3>6. ASSUME NEW j \in 1..n PROVE Leads(a[j], ks[j], ks[j + 1], D)
      <4>1. ks[j] \in Int /\ ks[j] >= 0 /\ ks[j + 1] = ks[j] + 1
        BY <1>5, <3>2, Rising
      <4>2. a[j] \in Exps
        BY <3>2
      <4> HIDE DEF ks, a
      <4> QED
        BY <4>1, <4>2, LeadsExp
    <3>7. Brings(a, p, p + n, D)
      <4> HIDE DEF ks
      <4> QED
        BY <3>2, <3>5, <3>6 DEF Brings
    <3>8. ls \in Seq(Int) /\ Len(ls) = 3 /\ ls[1] = p + n /\ ls[2] = p + n + 1 /\ ls[3] = p + 1
      BY <1>5, <3>2
    <3> HIDE DEF a, t, n, ks, ls
    <3>9. Leads(t[1], ls[1], ls[2], D)
      <4>1. ls[1] \in Int /\ ls[1] >= 0 /\ ls[2] = ls[1] + 1
        BY <1>5, <3>2, <3>8
      <4> QED
        BY <3>1, <3>4, <4>1, LeadsExp
    <3>10. Leads(t[2], ls[2], ls[3], D)
      <4>1. ls[2] \in Int /\ ls[2] >= n + 1 /\ ls[3] = ls[2] - n
        BY <1>5, <3>2, <3>8
      <4> QED
        BY <3>2, <3>4, <4>1, LeadsArg
    <3>11. Brings(t, p + n, q, D)
      <4>1. p + n = ls[1] /\ q = ls[Len(t) + 1] /\ Len(ls) = Len(t) + 1
        BY <1>5, <3>4, <3>8
      <4>2. \A j \in 1..Len(t) : Leads(t[j], ls[j], ls[j + 1], D)
        BY <3>4, <3>9, <3>10
      <4> QED
        BY <3>4, <3>8, <4>1, <4>2, Bringing
    <3>12. Brings(x, p, q, D)
      BY <3>7, <3>11, BringsBoth
    <3>13. \A j \in 1..Len(a) : Opened(a[j]) = {}
      BY <3>2, OpensNothing DEF n
    <3>14. \A j \in 1..Len(t) : Opened(t[j]) = {}
      BY <3>1, <3>4, OpensNothing
    <3>15. \A j \in 1..Len(x) : Opened(x[j]) = {}
      BY <3>2, <3>4, <3>13, <3>14, ClosedBoth
    <3> HIDE DEF x
    <3> QED
      BY <1>6, <3>3, <3>12, <3>15
  <2>4. CASE VisitExpStatement
    <3> DEFINE x == <<Node.e>>
               ks == <<p, p + 1>>
    <3>1. Node.e \in Exps
      BY <1>2, <2>4 DEF VisitExpStatement, At, Node, Statement, StmKinds
    <3>2. ks \in Seq(Int) /\ Len(ks) = 2 /\ ks[1] = p /\ ks[2] = p + 1
      BY <1>5
    <3>3. Then(x)
      BY <2>4 DEF VisitExpStatement, Only
    <3>4. IsSeq(x) /\ Len(x) = 1 /\ x[1] = Node.e
      BY OneIs
    <3> HIDE DEF x, ks
    <3>5. Leads(x[1], ks[1], ks[2], D) /\ Opened(x[1]) = {}
      <4>1. Leads(x[1], ks[1], ks[2], D)
        <5>1. ks[1] \in Int /\ ks[1] >= 0 /\ ks[2] = ks[1] + 1
          BY <1>5, <3>2
        <5> QED
          BY <3>1, <3>4, <5>1, LeadsExp
      <4> QED
        BY <3>1, <3>4, <4>1, OpensNothing
    <3>6. \A j \in 1..Len(x) : Leads(x[j], ks[j], ks[j + 1], D) /\ Opened(x[j]) = {}
      BY <3>4, <3>5
    <3>7. p = ks[1] /\ q = ks[Len(x) + 1] /\ Len(ks) = Len(x) + 1
      BY <1>5, <3>2, <3>4
    <3>8. Brings(x, p, q, D)
      BY <3>2, <3>4, <3>6, <3>7, Bringing
    <3> QED
      BY <1>6, <3>3, <3>6, <3>8
  <2>5. CASE VisitPrint
    <3> DEFINE x == <<Node.e, EMIT("DUP"), EMIT("PRINT")>>
               ks == <<p, p + 1, p + 2, p + 1>>
    <3>1. Node.e \in Exps
      BY <1>2, <2>5 DEF VisitPrint, At, Node, Statement, StmKinds
    <3>2. ks \in Seq(Int) /\ Len(ks) = 4 /\ ks[1] = p /\ ks[2] = p + 1 /\ ks[3] = p + 2 /\ ks[4] = p + 1
      BY <1>5
    <3>3. Then(x)
      BY <2>5 DEF VisitPrint, Only
    <3>4. IsSeq(x) /\ Len(x) = 3 /\ x[1] = Node.e /\ x[2] = EMIT("DUP") /\ x[3] = EMIT("PRINT")
      BY Tuple3
    <3> HIDE DEF x, ks
    <3>5. /\ Leads(x[1], ks[1], ks[2], D) /\ Opened(x[1]) = {}
          /\ Leads(x[2], ks[2], ks[3], D) /\ Opened(x[2]) = {}
          /\ Leads(x[3], ks[3], ks[4], D) /\ Opened(x[3]) = {}
      <4>1. Leads(x[1], ks[1], ks[2], D)
        <5>1. ks[1] \in Int /\ ks[1] >= 0 /\ ks[2] = ks[1] + 1
          BY <1>5, <3>2
        <5> QED
          BY <3>1, <3>4, <5>1, LeadsExp
      <4>2. Leads(x[2], ks[2], ks[3], D)
        <5>1. ks[2] \in Int /\ ks[2] >= 1 /\ ks[3] = ks[2] + 1
          BY <1>5, <3>2
        <5> QED
          BY <3>1, <3>4, <5>1, LeadsOp
      <4>3. Leads(x[3], ks[3], ks[4], D)
        <5>1. ks[3] \in Int /\ ks[3] >= 2 /\ ks[4] = ks[3] - 1
          BY <1>5, <3>2
        <5> QED
          BY <3>1, <3>4, <5>1, LeadsOp
      <4> QED
        BY <3>1, <3>4, <4>1, <4>2, <4>3, OpensNothing
    <3>6. \A j \in 1..Len(x) : Leads(x[j], ks[j], ks[j + 1], D) /\ Opened(x[j]) = {}
      BY <3>4, <3>5
    <3>7. p = ks[1] /\ q = ks[Len(x) + 1] /\ Len(ks) = Len(x) + 1
      BY <1>5, <3>2, <3>4
    <3>8. Brings(x, p, q, D)
      BY <3>2, <3>4, <3>6, <3>7, Bringing
    <3> QED
      BY <1>6, <3>3, <3>6, <3>8
  <2>6. CASE VisitBlock
    <3> DEFINE x == <<LIST(Node.body)>>
               ks == <<p, p + 1>>
    <3>1. Node.body # <<>>
      BY <1>2, <2>6 DEF VisitBlock, At, Node, StmKinds, NoEmptyBody
    <3>2. ks \in Seq(Int) /\ Len(ks) = 2 /\ ks[1] = p /\ ks[2] = p + 1
      BY <1>5
    <3>3. Then(x)
      BY <2>6 DEF VisitBlock, Only
    <3>4. IsSeq(x) /\ Len(x) = 1 /\ x[1] = LIST(Node.body)
      BY OneIs
    <3> HIDE DEF x, ks
    <3>5. Leads(x[1], ks[1], ks[2], D) /\ Opened(x[1]) = {}
      <4>1. Leads(x[1], ks[1], ks[2], D)
        <5>1. ks[1] \in Int /\ ks[1] >= 0 /\ ks[2] = ks[1] + 1
          BY <1>5, <3>2
        <5> QED
          BY <3>1, <3>4, <5>1, LeadsList
      <4> QED
        BY <3>1, <3>4, <4>1, OpensNothing
    <3>6. \A j \in 1..Len(x) : Leads(x[j], ks[j], ks[j + 1], D) /\ Opened(x[j]) = {}
      BY <3>4, <3>5
    <3>7. p = ks[1] /\ q = ks[Len(x) + 1] /\ Len(ks) = Len(x) + 1
      BY <1>5, <3>2, <3>4
    <3>8. Brings(x, p, q, D)
      BY <3>2, <3>4, <3>6, <3>7, Bringing
    <3> QED
      BY <1>6, <3>3, <3>6, <3>8
  <2>7. CASE VisitList
    <3> DEFINE body == Node.body
    <3>1. Node.k = "list"
      BY <2>7 DEF VisitList, At, Node
    <3>2. body \in Seq(Stms) /\ body # <<>>
      BY <1>2, <1>5, <3>1
    <3>3. IsSeq(body) /\ Len(body) \in Nat /\ \A i \in 1..Len(body) : body[i] \in Stms
      BY <3>2, SeqIs
    <3>4. Then(IF Len(body) < 2 THEN body ELSE <<Head(body), EMIT("POP"), LIST(Tail(body))>>)
      BY <2>7 DEF VisitList, Only
    <3>5. Len(body) >= 1 /\ Len(body) \in Nat /\ Head(body) = body[1]
      BY <3>2, <3>3, TailIs
    <3> HIDE DEF body
    <3>6. body[1] \in Stms
      BY <3>3, <3>5
    <3>7. CASE Len(body) < 2
      <4> DEFINE ks == <<p, p + 1>>
      <4>1. Len(body) = 1
        BY <3>5, <3>7
      <4>2. ks \in Seq(Int) /\ Len(ks) = 2 /\ ks[1] = p /\ ks[2] = p + 1
        BY <1>5
      <4> HIDE DEF ks
      <4>3. Leads(body[1], ks[1], ks[2], D) /\ Opened(body[1]) = {}
        BY <1>5, <3>6, <4>2, LeadsStm, OpensNothing
      <4>4. \A j \in 1..Len(body) : Leads(body[j], ks[j], ks[j + 1], D) /\ Opened(body[j]) = {}
        BY <4>1, <4>3
      <4>5. p = ks[1] /\ q = ks[Len(body) + 1] /\ Len(ks) = Len(body) + 1
        BY <1>5, <4>1, <4>2
      <4>6. Brings(body, p, q, D)
        BY <3>3, <4>2, <4>4, <4>5, Bringing
      <4>7. Then(body)
        BY <3>4, <3>7
      <4> QED
        BY <1>6, <4>4, <4>6, <4>7
    <3>8. CASE ~(Len(body) < 2)
      <4> DEFINE x == <<Head(body), EMIT("POP"), LIST(Tail(body))>>
                 ks == <<p, p + 1, p, p + 1>>
      <4>1. Tail(body) # <<>>
        <5>1. Len(Tail(body)) = Len(body) - 1
          BY <3>2, <3>3, TailIs
        <5>2. Len(body) - 1 # 0
          BY <3>3, <3>8, NotFewer, Zenon
        <5> QED
          BY <5>1, <5>2, EmptyIs, Zenon
      <4>2. ks \in Seq(Int) /\ Len(ks) = 4 /\ ks[1] = p /\ ks[2] = p + 1 /\ ks[3] = p /\ ks[4] = p + 1
        BY <1>5
      <4>3. Then(x)
        BY <3>4, <3>8
      <4>4. IsSeq(x) /\ Len(x) = 3 /\ x[1] = Head(body) /\ x[2] = EMIT("POP") /\ x[3] = LIST(Tail(body))
        BY Tuple3
      <4> HIDE DEF x, ks
      <4>5. /\ Leads(x[1], ks[1], ks[2], D) /\ Opened(x[1]) = {}
            /\ Leads(x[2], ks[2], ks[3], D) /\ Opened(x[2]) = {}
            /\ Leads(x[3], ks[3], ks[4], D) /\ Opened(x[3]) = {}
        <5>1. Leads(x[1], ks[1], ks[2], D)
          <6>1. ks[1] \in Int /\ ks[1] >= 0 /\ ks[2] = ks[1] + 1
            BY <1>5, <4>2
          <6> QED
            BY <3>5, <3>6, <4>4, <6>1, LeadsStm
        <5>2. Leads(x[2], ks[2], ks[3], D)
          <6>1. ks[2] \in Int /\ ks[2] >= 1 /\ ks[3] = ks[2] - 1
            BY <1>5, <4>2
          <6> QED
            BY <4>1, <4>4, <6>1, LeadsOp
        <5>3. Leads(x[3], ks[3], ks[4], D)
          <6>1. ks[3] \in Int /\ ks[3] >= 0 /\ ks[4] = ks[3] + 1
            BY <1>5, <4>2
          <6> QED
            BY <4>1, <4>4, <6>1, LeadsList
        <5> QED
          BY <3>5, <3>6, <4>4, <5>1, <5>2, <5>3, OpensNothing
      <4>6. \A j \in 1..Len(x) : Leads(x[j], ks[j], ks[j + 1], D) /\ Opened(x[j]) = {}
        BY <4>4, <4>5
      <4>7. p = ks[1] /\ q = ks[Len(x) + 1] /\ Len(ks) = Len(x) + 1
        BY <1>5, <4>2, <4>4
      <4>8. Brings(x, p, q, D)
        BY <4>2, <4>4, <4>6, <4>7, Bringing
      <4> QED
        BY <1>6, <4>3, <4>6, <4>8
    <3> QED
      BY <3>7, <3>8
  <2>8. CASE VisitFor
    <3> DEFINE y == [k |-> "to", for |-> Node]
               x == <<Node.from, y>>
               ks == <<p, p + 1, p + 1>>
    <3>1. Node.from \in Stms
      BY <1>2, <2>8 DEF VisitFor, At, Node, Statement, StmKinds
    <3>2. y.k = "to" /\ Opened(y) = {}
      BY DEF Opened
    <3> HIDE DEF y
    <3>3. ks \in Seq(Int) /\ Len(ks) = 3 /\ ks[1] = p /\ ks[2] = p + 1 /\ ks[3] = p + 1
      BY <1>5
    <3>4. Then(x)
      BY <2>8 DEF VisitFor, Only, y
    <3>5. IsSeq(x) /\ Len(x) = 2 /\ x[1] = Node.from /\ x[2] = y
      BY Tuple2
    <3> HIDE DEF x, ks
    <3>6. /\ Leads(x[1], ks[1], ks[2], D) /\ Opened(x[1]) = {}
          /\ Leads(x[2], ks[2], ks[3], D) /\ Opened(x[2]) = {}
      <4>1. Leads(x[1], ks[1], ks[2], D)
        <5>1. ks[1] \in Int /\ ks[1] >= 0 /\ ks[2] = ks[1] + 1
          BY <1>5, <3>3
        <5> QED
          BY <3>1, <3>2, <3>5, <5>1, LeadsStm
      <4>2. Leads(x[2], ks[2], ks[3], D)
        <5>1. ks[2] \in Int /\ ks[2] >= 1 /\ ks[3] = ks[2]
          BY <1>5, <3>3
        <5> QED
          BY <3>1, <3>2, <3>5, <5>1, LeadsTo
      <4> QED
        BY <3>1, <3>2, <3>5, <4>1, <4>2, OpensNothing
    <3>7. \A j \in 1..Len(x) : Leads(x[j], ks[j], ks[j + 1], D) /\ Opened(x[j]) = {}
      BY <3>5, <3>6
    <3>8. p = ks[1] /\ q = ks[Len(x) + 1] /\ Len(ks) = Len(x) + 1
      BY <1>5, <3>3, <3>5
    <3>9. Brings(x, p, q, D)
      BY <3>3, <3>5, <3>7, <3>8, Bringing
    <3> QED
      BY <1>6, <3>4, <3>7, <3>9
  <2>9. CASE VisitAssign
    <3> DEFINE i == IndexOf(STR(Node.n))
               x == <<Node.s, EMIT_ARG("STORE_NAME", i)>>
               ks == <<p, p + 1, p + 1>>
    <3>1. Node.s \in Stms
      BY <1>2, <2>9 DEF VisitAssign, At, Node, Statement, StmKinds
    <3>2. i \in Nat
      BY <1>1, NameIndex
    <3> HIDE DEF i
    <3>3. ks \in Seq(Int) /\ Len(ks) = 3 /\ ks[1] = p /\ ks[2] = p + 1 /\ ks[3] = p + 1
      BY <1>5
    <3>4. Then(x)
      BY <2>9 DEF VisitAssign, i
    <3>5. IsSeq(x) /\ Len(x) = 2 /\ x[1] = Node.s /\ x[2] = EMIT_ARG("STORE_NAME", i)
      BY Tuple2
    <3> HIDE DEF x, ks
    <3>6. /\ Leads(x[1], ks[1], ks[2], D) /\ Opened(x[1]) = {}
          /\ Leads(x[2], ks[2], ks[3], D) /\ Opened(x[2]) = {}
      <4>1. Leads(x[1], ks[1], ks[2], D)
        <5>1. ks[1] \in Int /\ ks[1] >= 0 /\ ks[2] = ks[1] + 1
          BY <1>5, <3>3
        <5> QED
          BY <3>1, <3>2, <3>5, <5>1, LeadsStm
      <4>2. Leads(x[2], ks[2], ks[3], D)
        <5>1. ks[2] \in Int /\ ks[2] >= 1 /\ ks[3] = ks[2]
          BY <1>5, <3>3
        <5> QED
          BY <3>1, <3>2, <3>5, <5>1, LeadsArg
      <4> QED
        BY <3>1, <3>2, <3>5, <4>1, <4>2, OpensNothing
    <3>7. \A j \in 1..Len(x) : Leads(x[j], ks[j], ks[j + 1], D) /\ Opened(x[j]) = {}
      BY <3>5, <3>6
    <3>8. p = ks[1] /\ q = ks[Len(x) + 1] /\ Len(ks) = Len(x) + 1
      BY <1>5, <3>3, <3>5
    <3>9. Brings(x, p, q, D)
      BY <3>3, <3>5, <3>7, <3>8, Bringing
    <3> QED
      BY <1>6, <3>4, <3>7, <3>9
  <2>10. CASE VisitStep
    <3> DEFINE i == IndexOf(STR(Node.n))
               op == IF Node.k = "inc" THEN "ADD" ELSE "SUB"
               x == <<EMIT_ARG("LOAD_NAME", i), EMIT_CONST("PUSH", INT(1)), EMIT(op), EMIT_ARG("STORE_NAME", i)>>
               ks == <<p, p + 1, p + 2, p + 1, p + 1>>
    <3>1. op \in Binary
      BY DEF Binary
    <3>2. i \in Nat
      BY <1>1, NameIndex
    <3> HIDE DEF i, op
    <3>3. ks \in Seq(Int) /\ Len(ks) = 5 /\ ks[1] = p /\ ks[2] = p + 1 /\ ks[3] = p + 2 /\ ks[4] = p + 1 /\ ks[5] = p + 1
      BY <1>5
    <3>4. Then(x)
      BY <2>10 DEF VisitStep, i, op
    <3>5. IsSeq(x) /\ Len(x) = 4 /\ x[1] = EMIT_ARG("LOAD_NAME", i) /\ x[2] = EMIT_CONST("PUSH", INT(1)) /\ x[3] = EMIT(op) /\ x[4] = EMIT_ARG("STORE_NAME", i)
      BY Tuple4
    <3> HIDE DEF x, ks
    <3>6. /\ Leads(x[1], ks[1], ks[2], D) /\ Opened(x[1]) = {}
          /\ Leads(x[2], ks[2], ks[3], D) /\ Opened(x[2]) = {}
          /\ Leads(x[3], ks[3], ks[4], D) /\ Opened(x[3]) = {}
          /\ Leads(x[4], ks[4], ks[5], D) /\ Opened(x[4]) = {}
      <4>1. Leads(x[1], ks[1], ks[2], D)
        <5>1. ks[1] \in Int /\ ks[1] >= 0 /\ ks[2] = ks[1] + 1
          BY <1>5, <3>3
        <5> QED
          BY <3>1, <3>2, <3>5, <5>1, LeadsArg
      <4>2. Leads(x[2], ks[2], ks[3], D)
        <5>1. ks[2] \in Int /\ ks[2] >= 1 /\ ks[3] = ks[2] + 1
          BY <1>5, <3>3
        <5> QED
          BY <3>1, <3>2, <3>5, <5>1, LeadsConst
      <4>3. Leads(x[3], ks[3], ks[4], D)
        <5>1. ks[3] \in Int /\ ks[3] >= 2 /\ ks[4] = ks[3] - 1
          BY <1>5, <3>3
        <5> QED
          BY <3>1, <3>2, <3>5, <5>1, LeadsOp
      <4>4. Leads(x[4], ks[4], ks[5], D)
        <5>1. ks[4] \in Int /\ ks[4] >= 1 /\ ks[5] = ks[4]
          BY <1>5, <3>3
        <5> QED
          BY <3>1, <3>2, <3>5, <5>1, LeadsArg
      <4> QED
        BY <3>1, <3>2, <3>5, <4>1, <4>2, <4>3, <4>4, OpensNothing
    <3>7. \A j \in 1..Len(x) : Leads(x[j], ks[j], ks[j + 1], D) /\ Opened(x[j]) = {}
      BY <3>5, <3>6
    <3>8. p = ks[1] /\ q = ks[Len(x) + 1] /\ Len(ks) = Len(x) + 1
      BY <1>5, <3>3, <3>5
    <3>9. Brings(x, p, q, D)
      BY <3>3, <3>5, <3>7, <3>8, Bringing
    <3> QED
      BY <1>6, <3>4, <3>7, <3>9
  <2> QED
    BY <2>1, <2>2, <2>3, <2>4, <2>5, <2>6, <2>7, <2>8, <2>9, <2>10
<1> QED
  BY <1>1, <1>3, <1>4, <1>6, CallsGraded DEF p

\* The items will continue one new block, or two.
LEMMA OpensOne ==
    ASSUME NEW x, IsSeq(x), NEW n \in 1..Len(x),
           \A i \in 1..Len(x) : i # n => Opened(x[i]) = {}
    PROVE  OpenSet(x) = Opened(x[n]) /\ Apart(x)
<1>1. OpenSet(x) = Opened(x[n])
  BY DEF OpenSet
<1>2. Apart(x)
  BY DEF Apart
<1> QED
  BY <1>1, <1>2

LEMMA OpensTwo ==
    ASSUME NEW x, IsSeq(x), NEW m \in 1..Len(x), NEW n \in 1..Len(x),
           Opened(x[m]) \cap Opened(x[n]) = {},
           \A i \in 1..Len(x) : i # m /\ i # n => Opened(x[i]) = {}
    PROVE  OpenSet(x) = Opened(x[m]) \cup Opened(x[n]) /\ Apart(x)
<1>1. OpenSet(x) = Opened(x[m]) \cup Opened(x[n])
  BY DEF OpenSet
<1>2. Apart(x)
  BY DEF Apart
<1> QED
  BY <1>1, <1>2

\* Both branches of an if leave its value: without an else, nil.
LEMMA IfGraded ==
    ASSUME NEW E, Compiled(E), NEW D, Graded(D), NoEmptyBody, VisitIf
    PROVE  \E G : Graded(G)' /\ Extends(D, G, cb)
<1> DEFINE B == Append(blks, EmptyBlock)
           C == Append(B, EmptyBlock)
           next == Len(blks) + 1
           end == Len(blks) + 2
           els == IF Node.els # <<>> THEN LIST(Node.els[1]) ELSE EMIT_CONST("PUSH", NIL)
           x == <<Node.e, EMIT_JMP("JUMP_FALSE", next),
                  LIST(Node.then), EMIT_JMP("JUMP", end), NEXT_BLOCK(next), els, NEXT_BLOCK(end)>>
<1>1. todo # <<>> /\ Node.k = "if" /\ cb' = cb /\ fns' = fns
  BY DEF VisitIf, At, Node
<1>2. Node \in Stms
  BY <1>1, HeadFits DEF FitItem, StmKinds
<1>3. /\ Node.e \in Exps /\ Node.then # <<>>
      /\ Node.els # <<>> => Node.els[1] # <<>>
  BY <1>1, <1>2, StmKind DEF Statement, NoEmptyBody
<1>4. PICK p, q \in Int : p = Last(D[cb]) /\ Leads(Node, p, q, D) /\ Chain(Tail(todo), q, D)
  BY <1>1, HeadGraded
<1>5. /\ p >= 0 /\ q = p + 1 /\ cb \in 1..Len(blks)
      /\ D \in Seq(Seq(Int)) /\ Len(D) = Len(blks) /\ BlocksGraded(blks, D)
      /\ blks \in Seq(CodeBlock) /\ Len(blks) \in Nat /\ Opened(Node) = {}
  BY <1>1, <1>4, HeadGraded DEF Leads, StmKinds, Opened
<1>6. blks' = C
  <2>1. EmptyBlock \in CodeBlock
    BY EmptyIs DEF EmptyBlock, CodeBlock, NoBlock
  <2>2. blks' = blks \o <<EmptyBlock, EmptyBlock>>
    BY DEF VisitIf
  <2>3. blks \in Seq(CodeBlock)
    BY <1>5
  <2> HIDE DEF EmptyBlock
  <2> QED
    BY <2>1, <2>2, <2>3
<1>7. PICK G : TwoMore(blks, D, G, p, p + 1)
  <2>1. p + 1 \in Int
    BY <1>4
  <2> QED
    BY <1>4, <1>5, <2>1, GradedTwo
<1>8. /\ BlocksGraded(C, G) /\ Extends(D, G, cb)
      /\ Len(G) = Len(blks) + 2 /\ G[Len(blks) + 1] = <<p>> /\ G[Len(blks) + 2] = <<p + 1>>
      /\ \A b \in 1..Len(blks) : G[b] = D[b]
  BY <1>7 DEF TwoMore
<1>9. /\ B \in Seq(CodeBlock) /\ Len(B) = Len(blks) + 1
      /\ \A b \in 1..Len(blks) : B[b] = blks[b]
      /\ B[Len(blks) + 1] = EmptyBlock
  BY <1>5, NewBlock
<1> HIDE DEF B
<1>10. /\ Len(C) = Len(B) + 1 /\ \A b \in 1..Len(B) : C[b] = B[b]
       /\ C[Len(B) + 1] = EmptyBlock
  BY <1>9, NewBlock
<1>11. Then(x)
  <2>1. end = FirstNew + 1 /\ next = FirstNew
    BY <1>5 DEF FirstNew
  <2> QED
    BY <2>1 DEF VisitIf
<1> HIDE DEF C
<1>12. next \in 1..Len(G) /\ end \in 1..Len(G) /\ next # end /\ Len(C) = end /\ Len(G) = end
  <2>1. Len(blks) \in Nat
    BY <1>5
  <2> QED
    BY <1>8, <1>9, <1>10, <2>1
<1>13. Len(G[next]) = 1 /\ G[next][1] = p /\ Len(G[end]) = 1 /\ G[end][1] = p + 1
  <2>1. G[next] = <<p>> /\ G[end] = <<p + 1>>
    BY <1>8
  <2> QED
    BY <2>1, OneIs
<1>14. \A b \in 1..Len(blks) : G[b] = D[b] /\ C[b] = blks[b] /\ b \in 1..Len(C)
  <2>1. ASSUME NEW b \in 1..Len(blks) PROVE b \in 1..Len(B) /\ b \in 1..Len(C)
    BY <1>5, <1>9, <1>10
  <2> QED
    BY <1>8, <1>9, <1>10, <2>1
<1>15. C[next] = EmptyBlock /\ C[end] = EmptyBlock
  <2>1. next \in 1..Len(B) /\ end = Len(B) + 1
    BY <1>5, <1>9
  <2> QED
    BY <1>9, <1>10, <2>1
<1> DEFINE ks == <<p, p + 1, p, p + 1, Dead, p, p + 1, p + 1>>
<1> HIDE DEF next, end
<1>16. Last(G[cb]) = p
  BY <1>4, <1>5, <1>14
<1>17. /\ ks \in Seq(Int) /\ Len(ks) = 8 /\ ks[1] = p /\ ks[2] = p + 1 /\ ks[3] = p /\ ks[4] = p + 1
       /\ ks[5] = Dead /\ ks[6] = p /\ ks[7] = p + 1 /\ ks[8] = p + 1
  <2>1. Dead \in Int
    BY DEF Dead
  <2> QED
    BY <1>5, <2>1, Tuple8
<1> HIDE DEF ks, els
<1>18. IsSeq(x) /\ Len(x) = 7
  BY Tuple7
<1>19. /\ x[1] = Node.e /\ x[2] = EMIT_JMP("JUMP_FALSE", next) /\ x[3] = LIST(Node.then)
       /\ x[4] = EMIT_JMP("JUMP", end) /\ x[5] = NEXT_BLOCK(next) /\ x[6] = els /\ x[7] = NEXT_BLOCK(end)
  BY Tuple7
<1> HIDE DEF x
<1>20. Opened(els) = {}
  BY OpensNothing DEF els
<1>21. /\ Opened(x[1]) = {} /\ Opened(x[2]) = {} /\ Opened(x[3]) = {} /\ Opened(x[4]) = {}
       /\ Opened(x[5]) = {next} /\ Opened(x[6]) = {} /\ Opened(x[7]) = {end}
  BY <1>3, <1>19, <1>20, OpensNothing
<1>22. OpenSet(x) = {next, end} /\ Apart(x)
  <2>1. \A i \in 1..Len(x) : i # 5 /\ i # 7 => Opened(x[i]) = {}
    BY <1>18, <1>21
  <2>2. 5 \in 1..Len(x) /\ 7 \in 1..Len(x) /\ Opened(x[5]) \cap Opened(x[7]) = {}
    BY <1>12, <1>18, <1>21
  <2>3. OpenSet(x) = Opened(x[5]) \cup Opened(x[7]) /\ Apart(x)
    BY <1>18, <2>1, <2>2, OpensTwo, Zenon
  <2> QED
    BY <1>21, <2>3
<1>23. Leads(x[1], ks[1], ks[2], G)
  <2>1. ks[1] \in Int /\ ks[1] >= 0 /\ ks[2] = ks[1] + 1
    BY <1>5, <1>17
  <2> QED
    BY <1>3, <1>19, <2>1, LeadsExp
<1>24. Leads(x[2], ks[2], ks[3], G)
  <2>1. ks[2] \in Int /\ ks[2] >= 1 /\ ks[3] = ks[2] - 1 /\ ks[3] = p
    BY <1>5, <1>17
  <2>2. G[next][1] = ks[2] - 1
    BY <1>13, <2>1
  <2> QED
    BY <1>12, <1>13, <1>19, <2>1, <2>2, LeadsJump
<1>25. Leads(x[3], ks[3], ks[4], G)
  <2>1. ks[3] \in Int /\ ks[3] >= 0 /\ ks[4] = ks[3] + 1
    BY <1>5, <1>17
  <2> QED
    BY <1>3, <1>19, <2>1, LeadsList
<1>26. Leads(x[4], ks[4], ks[5], G)
  <2>1. ks[4] \in Int /\ ks[4] >= 0 /\ G[end][1] = ks[4] /\ ks[5] = Dead
    BY <1>5, <1>13, <1>17
  <2> QED
    BY <1>12, <1>13, <1>19, <2>1, LeadsJump
<1>27. Leads(x[5], ks[5], ks[6], G)
  <2>1. ks[5] = Dead /\ ks[6] = G[next][1]
    BY <1>13, <1>17
  <2> QED
    BY <1>12, <1>13, <1>19, <2>1, LeadsNext
<1>28. Leads(x[6], ks[6], ks[7], G)
  <2>1. ks[6] \in Int /\ ks[6] >= 0 /\ ks[7] = ks[6] + 1
    BY <1>5, <1>17
  <2>2. CASE Node.els # <<>>
    <3>1. els = LIST(Node.els[1]) /\ Node.els[1] # <<>>
      BY <1>3, <2>2 DEF els
    <3> QED
      BY <1>19, <2>1, <3>1, LeadsList
  <2>3. CASE Node.els = <<>>
    <3>1. els = EMIT_CONST("PUSH", NIL)
      BY <2>3 DEF els
    <3> QED
      BY <1>19, <2>1, <3>1, LeadsConst
  <2> QED
    BY <2>2, <2>3
<1>29. Leads(x[7], ks[7], ks[8], G)
  <2>1. ks[7] = G[end][1] /\ ks[8] = G[end][1]
    BY <1>13, <1>17
  <2> QED
    BY <1>12, <1>13, <1>19, <2>1, LeadsNext
<1>30. Brings(x, p, q, G)
  <2>1. \A j \in 1..Len(x) : Leads(x[j], ks[j], ks[j + 1], G)
    BY <1>18, <1>23, <1>24, <1>25, <1>26, <1>27, <1>28, <1>29
  <2>2. p = ks[1] /\ q = ks[Len(x) + 1] /\ Len(ks) = Len(x) + 1
    BY <1>5, <1>17, <1>18
  <2> QED
    BY <1>17, <1>18, <2>1, <2>2, Bringing
<1>31. /\ \A b \in 1..Len(blks) : b \in 1..Len(C) /\ C[b].next = blks[b].next
       /\ \A b \in 1..Len(C) : b \in 1..Len(blks) \/ (b \in OpenSet(x) /\ C[b].next = NoBlock)
       /\ \A b \in OpenSet(x) : b \in 1..Len(C) /\ b \notin 1..Len(blks)
  <2>1. EmptyBlock.next = NoBlock
    BY DEF EmptyBlock
  <2>2. \A b \in 1..Len(C) : b \in 1..Len(blks) \/ b = next \/ b = end
    <3>1. Len(blks) \in Nat /\ Len(C) = Len(blks) + 2
      BY <1>5, <1>12 DEF end
    <3> QED
      BY <3>1 DEF next, end
  <2>3. next \in 1..Len(C) /\ end \in 1..Len(C) /\ next \notin 1..Len(blks) /\ end \notin 1..Len(blks)
    BY <1>5, <1>12 DEF next, end
  <2> QED
    BY <1>14, <1>15, <1>22, <2>1, <2>2, <2>3
<1>32. Brings(x, Last(G[cb]), q, G)
  BY <1>16, <1>30
<1>33. Graded(G)'
  BY <1>1, <1>4, <1>5, <1>6, <1>8, <1>11, <1>22, <1>31, <1>32, StillGraded, Zenon
<1> QED
  BY <1>8, <1>33

\* A visitor that makes one block, for itself to continue later.
LEMMA NewBlockGraded ==
    ASSUME NEW E, Compiled(E), NEW D, Graded(D), todo # <<>>, Opened(Node) = {},
           NEW q, Chain(Tail(todo), q, D), NEW v, NEW G, OneMore(blks, D, G, v),
           NEW x, Brings(x, Last(D[cb]), q, G), OpenSet(x) = {FirstNew}, Apart(x),
           blks' = Append(blks, EmptyBlock), cb' = cb, fns' = fns, Then(x)
    PROVE  \E F : Graded(F)' /\ Extends(D, F, cb)
<1> DEFINE C == Append(blks, EmptyBlock)
<1>1. /\ cb \in 1..Len(blks) /\ blks \in Seq(CodeBlock) /\ Len(blks) \in Nat
  BY HeadGraded
<1>2. /\ Len(C) = Len(blks) + 1 /\ \A b \in 1..Len(blks) : C[b] = blks[b]
      /\ C[Len(blks) + 1] = EmptyBlock
  BY <1>1, NewBlock
<1> HIDE DEF C
<1>3. BlocksGraded(C, G) /\ Extends(D, G, cb) /\ \A b \in 1..Len(blks) : G[b] = D[b]
  BY DEF OneMore, C
<1>4. Brings(x, Last(G[cb]), q, G)
  BY <1>1, <1>3
<1>5. /\ \A b \in 1..Len(blks) : b \in 1..Len(C) /\ C[b].next = blks[b].next
      /\ \A b \in 1..Len(C) : b \in 1..Len(blks) \/ (b \in OpenSet(x) /\ C[b].next = NoBlock)
      /\ \A b \in OpenSet(x) : b \in 1..Len(C) /\ b \notin 1..Len(blks)
  <2>1. EmptyBlock.next = NoBlock
    BY DEF EmptyBlock
  <2>2. \A b \in 1..Len(C) : b \in 1..Len(blks) \/ b = FirstNew
    BY <1>1, <1>2 DEF FirstNew
  <2>3. FirstNew \in 1..Len(C) /\ FirstNew \notin 1..Len(blks) /\ C[FirstNew] = EmptyBlock
    BY <1>1, <1>2 DEF FirstNew
  <2>4. \A b \in 1..Len(blks) : b \in 1..Len(C)
    BY <1>1, <1>2
  <2> QED
    BY <1>2, <2>1, <2>2, <2>3, <2>4
<1>6. blks' = C
  BY DEF C
<1>7. Graded(G)'
  BY <1>3, <1>4, <1>5, <1>6, StillGraded, Zenon
<1> QED
  BY <1>3, <1>7

\* The first part of a for begins the block of its test,
LEMMA ForToGraded ==
    ASSUME NEW E, Compiled(E), NEW D, Graded(D), NoEmptyBody, VisitForTo
    PROVE  \E G : Graded(G)' /\ Extends(D, G, cb)
<1> DEFINE f == Node.for
           i == IndexOf(STR(f.n))
           b == FirstNew
           y == [k |-> "do", for |-> f, to_block |-> b]
           x == <<EMIT_ARG("STORE_NAME", i), EMIT("POP"), NEXT_BLOCK(b),
                  EMIT_ARG("LOAD_NAME", i), EMIT("DUP"), f.to, EMIT("EQ"), y>>
<1>1. /\ todo # <<>> /\ Node.k = "to" /\ blks' = Append(blks, EmptyBlock) /\ cb' = cb /\ fns' = fns /\ Then(x)
  BY DEF VisitForTo, At, Node
<1>2. f \in Stms /\ f.k = "for"
  BY <1>1, HeadFits DEF FitItem
<1>3. f.to \in Stms
  BY <1>2, StmKind DEF Statement
<1>4. i \in Nat
  BY <1>1, NameIndex
<1>5. PICK p, q \in Int : p = Last(D[cb]) /\ Leads(Node, p, q, D) /\ Chain(Tail(todo), q, D)
  BY <1>1, HeadGraded
<1>6. /\ p >= 1 /\ q = p /\ Len(blks) \in Nat /\ BlocksGraded(blks, D) /\ blks \in Seq(CodeBlock) /\ Opened(Node) = {}
  BY <1>1, <1>5, HeadGraded DEF Leads, Opened
<1>7. PICK r \in Int : r = p - 1
  BY <1>6
<1>8. PICK G : OneMore(blks, D, G, r)
  BY <1>6, GradedOne
<1>9. b \in 1..Len(G) /\ Len(G[b]) = 1 /\ G[b][1] = r
  <2>1. Len(G) = Len(blks) + 1 /\ G[Len(blks) + 1] = <<r>>
    BY <1>8 DEF OneMore
  <2>2. b \in 1..Len(G) /\ G[b] = <<r>>
    BY <1>6, <2>1 DEF FirstNew
  <2> QED
    BY <2>2, OneIs
<1>10. y.k = "do" /\ y.to_block = b
  OBVIOUS
<1> HIDE DEF f, i, b, y
<1>11. IsSeq(x) /\ Len(x) = 8
  BY Tuple8
<1>12. /\ x[1] = EMIT_ARG("STORE_NAME", i) /\ x[2] = EMIT("POP") /\ x[3] = NEXT_BLOCK(b)
       /\ x[4] = EMIT_ARG("LOAD_NAME", i) /\ x[5] = EMIT("DUP") /\ x[6] = f.to /\ x[7] = EMIT("EQ") /\ x[8] = y
  BY Tuple8
<1> HIDE DEF x
<1> DEFINE ks == <<p, p, r, r, p, p + 1, p + 2, p + 1, p>>
<1>13. /\ ks \in Seq(Int) /\ Len(ks) = 9 /\ ks[1] = p /\ ks[2] = p /\ ks[3] = r /\ ks[4] = r
       /\ ks[5] = p /\ ks[6] = p + 1 /\ ks[7] = p + 2 /\ ks[8] = p + 1 /\ ks[9] = p
  BY <1>6
<1> HIDE DEF ks
<1>14. Opened(y) = {}
  BY <1>10 DEF Opened
<1>15. /\ Opened(x[1]) = {} /\ Opened(x[2]) = {} /\ Opened(x[3]) = {b} /\ Opened(x[4]) = {}
       /\ Opened(x[5]) = {} /\ Opened(x[6]) = {} /\ Opened(x[7]) = {} /\ Opened(x[8]) = {}
  BY <1>3, <1>12, <1>14, OpensNothing
<1>16. OpenSet(x) = {b} /\ Apart(x)
  <2>1. \A j \in 1..Len(x) : j # 3 => Opened(x[j]) = {}
    BY <1>11, <1>15
  <2>2. 3 \in 1..Len(x)
    BY <1>11
  <2>3. OpenSet(x) = Opened(x[3]) /\ Apart(x)
    BY <1>11, <2>1, <2>2, OpensOne, Zenon
  <2> QED
    BY <1>15, <2>3
<1>17. Leads(x[1], ks[1], ks[2], G)
  <2>1. ks[1] \in Int /\ ks[1] >= 1 /\ ks[2] = ks[1]
    BY <1>6, <1>13
  <2> QED
    BY <1>4, <1>12, <2>1, LeadsArg
<1>18. Leads(x[2], ks[2], ks[3], G)
  <2>1. ks[2] \in Int /\ ks[2] >= 1 /\ ks[3] = ks[2] - 1
    BY <1>6, <1>7, <1>13
  <2> QED
    BY <1>12, <2>1, LeadsOp
<1>19. Leads(x[3], ks[3], ks[4], G)
  <2>1. ks[3] = G[b][1] /\ ks[4] = G[b][1]
    BY <1>9, <1>13
  <2> QED
    BY <1>9, <1>12, <2>1, LeadsNext
<1>20. Leads(x[4], ks[4], ks[5], G)
  <2>1. ks[4] \in Int /\ ks[4] >= 0 /\ ks[5] = ks[4] + 1
    BY <1>6, <1>7, <1>13
  <2> QED
    BY <1>4, <1>12, <2>1, LeadsArg
<1>21. Leads(x[5], ks[5], ks[6], G)
  <2>1. ks[5] \in Int /\ ks[5] >= 1 /\ ks[6] = ks[5] + 1
    BY <1>6, <1>13
  <2> QED
    BY <1>12, <2>1, LeadsOp
<1>22. Leads(x[6], ks[6], ks[7], G)
  <2>1. ks[6] \in Int /\ ks[6] >= 0 /\ ks[7] = ks[6] + 1
    BY <1>6, <1>13
  <2> QED
    BY <1>3, <1>12, <2>1, LeadsStm
<1>23. Leads(x[7], ks[7], ks[8], G)
  <2>1. ks[7] \in Int /\ ks[7] >= 2 /\ ks[8] = ks[7] - 1
    BY <1>6, <1>13
  <2>2. "EQ" \in Binary
    BY DEF Binary
  <2> QED
    BY <1>12, <2>1, <2>2, LeadsOp
<1>24. Leads(x[8], ks[8], ks[9], G)
  <2>1. ks[8] \in Int /\ ks[8] >= 2 /\ ks[9] = ks[8] - 1
    BY <1>6, <1>13
  <2>2. G[b][1] = ks[8] - 2
    BY <1>6, <1>7, <1>9, <1>13
  <2> QED
    BY <1>9, <1>10, <1>12, <2>1, <2>2 DEF Leads, ExpKinds, StmKinds
<1>25. Brings(x, p, q, G)
  <2>1. \A j \in 1..Len(x) : Leads(x[j], ks[j], ks[j + 1], G)
    BY <1>11, <1>17, <1>18, <1>19, <1>20, <1>21, <1>22, <1>23, <1>24
  <2>2. p = ks[1] /\ q = ks[Len(x) + 1] /\ Len(ks) = Len(x) + 1
    BY <1>6, <1>11, <1>13
  <2> QED
    BY <1>11, <1>13, <2>1, <2>2, Bringing
<1>26. Brings(x, Last(D[cb]), q, G) /\ OpenSet(x) = {FirstNew}
  BY <1>5, <1>16, <1>25 DEF b
<1> QED
  BY <1>1, <1>5, <1>6, <1>8, <1>16, <1>26, NewBlockGraded, Zenon

\* to which its body and its step go back.
LEMMA ForBodyGraded ==
    ASSUME NEW E, Compiled(E), NEW D, Graded(D), NoEmptyBody, VisitForBody
    PROVE  \E G : Graded(G)' /\ Extends(D, G, cb)
<1> DEFINE f == Node.for
           a == Node.to_block
           b == FirstNew
           x == <<EMIT_JMP("JUMP_TRUE", b), EMIT("POP"), LIST(f.body), EMIT("POP"),
                  f.step, EMIT("POP"), EMIT_JMP("JUMP", a), NEXT_BLOCK(b)>>
<1>1. /\ todo # <<>> /\ Node.k = "do" /\ blks' = Append(blks, EmptyBlock) /\ cb' = cb /\ fns' = fns /\ Then(x)
  BY DEF VisitForBody, At, Node
<1>2. f \in Stms /\ f.k = "for"
  BY <1>1, HeadFits DEF FitItem
<1>3. f.step \in Stms /\ f.body # <<>>
  BY <1>2, StmKind DEF Statement, NoEmptyBody
<1>4. PICK p, q \in Int : p = Last(D[cb]) /\ Leads(Node, p, q, D) /\ Chain(Tail(todo), q, D)
  BY <1>1, HeadGraded
<1>5. p >= 2 /\ q = p - 1 /\ a \in 1..Len(D) /\ D[a][1] = p - 2
  BY <1>1, <1>4 DEF Leads
<1>6. /\ Len(blks) \in Nat /\ BlocksGraded(blks, D) /\ blks \in Seq(CodeBlock) /\ Opened(Node) = {}
  BY <1>1, <1>4, HeadGraded DEF Opened
<1>7. PICK r \in Int : r = p - 2
  BY <1>5
<1>8. PICK G : OneMore(blks, D, G, q)
  BY <1>6, GradedOne
<1>9. b \in 1..Len(G) /\ Len(G[b]) = 1 /\ G[b][1] = q
  <2>1. Len(G) = Len(blks) + 1 /\ G[Len(blks) + 1] = <<q>>
    BY <1>8 DEF OneMore
  <2>2. b \in 1..Len(G) /\ G[b] = <<q>>
    BY <1>6, <2>1 DEF FirstNew
  <2> QED
    BY <2>2, OneIs
<1>10. a \in 1..Len(G) /\ G[a][1] = r
  <2>1. Extends(D, G, cb)
    BY <1>8 DEF OneMore
  <2> QED
    BY <1>5, <1>7, <2>1, ExtendsIn
<1> HIDE DEF f, a, b
<1>11. IsSeq(x) /\ Len(x) = 8
  BY Tuple8
<1>12. /\ x[1] = EMIT_JMP("JUMP_TRUE", b) /\ x[2] = EMIT("POP") /\ x[3] = LIST(f.body) /\ x[4] = EMIT("POP")
       /\ x[5] = f.step /\ x[6] = EMIT("POP") /\ x[7] = EMIT_JMP("JUMP", a) /\ x[8] = NEXT_BLOCK(b)
  BY Tuple8
<1> HIDE DEF x
<1> DEFINE ks == <<p, q, r, q, r, q, r, Dead, q>>
<1>13. /\ ks \in Seq(Int) /\ Len(ks) = 9 /\ ks[1] = p /\ ks[2] = q /\ ks[3] = r /\ ks[4] = q
       /\ ks[5] = r /\ ks[6] = q /\ ks[7] = r /\ ks[8] = Dead /\ ks[9] = q
  BY DEF Dead
<1> HIDE DEF ks
<1>15. /\ Opened(x[1]) = {} /\ Opened(x[2]) = {} /\ Opened(x[3]) = {} /\ Opened(x[4]) = {}
       /\ Opened(x[5]) = {} /\ Opened(x[6]) = {} /\ Opened(x[7]) = {} /\ Opened(x[8]) = {b}
  BY <1>3, <1>12, OpensNothing
<1>16. OpenSet(x) = {b} /\ Apart(x)
  <2>1. \A j \in 1..Len(x) : j # 8 => Opened(x[j]) = {}
    BY <1>11, <1>15
  <2>2. 8 \in 1..Len(x)
    BY <1>11
  <2>3. OpenSet(x) = Opened(x[8]) /\ Apart(x)
    BY <1>11, <2>1, <2>2, OpensOne, Zenon
  <2> QED
    BY <1>15, <2>3
<1>17. Leads(x[1], ks[1], ks[2], G)
  <2>1. ks[1] \in Int /\ ks[1] >= 1 /\ ks[2] = ks[1] - 1
    BY <1>5, <1>13
  <2>2. G[b][1] = ks[1] - 1
    BY <1>9, <1>13, <2>1
  <2> QED
    BY <1>9, <1>12, <2>1, <2>2, LeadsJump
<1>18. Leads(x[2], ks[2], ks[3], G)
  <2>1. ks[2] \in Int /\ ks[2] >= 1 /\ ks[3] = ks[2] - 1
    BY <1>5, <1>7, <1>13
  <2> QED
    BY <1>12, <2>1, LeadsOp
<1>19. Leads(x[3], ks[3], ks[4], G)
  <2>1. ks[3] \in Int /\ ks[3] >= 0 /\ ks[4] = ks[3] + 1
    BY <1>5, <1>7, <1>13
  <2> QED
    BY <1>3, <1>12, <2>1, LeadsList
<1>20. Leads(x[4], ks[4], ks[5], G)
  <2>1. ks[4] \in Int /\ ks[4] >= 1 /\ ks[5] = ks[4] - 1
    BY <1>5, <1>7, <1>13
  <2> QED
    BY <1>12, <2>1, LeadsOp
<1>21. Leads(x[5], ks[5], ks[6], G)
  <2>1. ks[5] \in Int /\ ks[5] >= 0 /\ ks[6] = ks[5] + 1
    BY <1>5, <1>7, <1>13
  <2> QED
    BY <1>3, <1>12, <2>1, LeadsStm
<1>22. Leads(x[6], ks[6], ks[7], G)
  <2>1. ks[6] \in Int /\ ks[6] >= 1 /\ ks[7] = ks[6] - 1
    BY <1>5, <1>7, <1>13
  <2> QED
    BY <1>12, <2>1, LeadsOp
<1>23. Leads(x[7], ks[7], ks[8], G)
  <2>1. ks[7] \in Int /\ ks[7] >= 0 /\ ks[8] = Dead /\ G[a][1] = ks[7]
    BY <1>5, <1>7, <1>10, <1>13
  <2> QED
    BY <1>10, <1>12, <2>1, LeadsJump
<1>24. Leads(x[8], ks[8], ks[9], G)
  <2>1. ks[8] = Dead /\ ks[9] = G[b][1]
    BY <1>9, <1>13
  <2> QED
    BY <1>9, <1>12, <2>1, LeadsNext
<1>25. Brings(x, p, q, G)
  <2>1. \A j \in 1..Len(x) : Leads(x[j], ks[j], ks[j + 1], G)
    BY <1>11, <1>17, <1>18, <1>19, <1>20, <1>21, <1>22, <1>23, <1>24
  <2>2. p = ks[1] /\ q = ks[Len(x) + 1] /\ Len(ks) = Len(x) + 1
    BY <1>11, <1>13
  <2> QED
    BY <1>11, <1>13, <2>1, <2>2, Bringing
<1>26. Brings(x, Last(D[cb]), q, G) /\ OpenSet(x) = {FirstNew}
  BY <1>4, <1>16, <1>25 DEF b
<1> QED
  BY <1>1, <1>4, <1>6, <1>8, <1>16, <1>26, NewBlockGraded, Zenon

\* The depths of a block.
LEMMA DepthsOf ==
    ASSUME NEW B \in Seq(CodeBlock), NEW D, BlocksGraded(B, D), NEW b \in 1..Len(D)
    PROVE  /\ b \in 1..Len(B) /\ Len(B[b].code) \in Nat /\ Len(D[b]) = Len(B[b].code) + 1
           /\ \A i \in 1..Len(D[b]) : D[b][i] \in Int
           /\ Last(D[b]) \in Int
<1>1. b \in 1..Len(B) /\ D[b] \in Seq(Int) /\ Len(D[b]) = Len(B[b].code) + 1
  BY ElementOfSeq DEF BlocksGraded, BlockGraded
<1>2. Len(B[b].code) \in Nat
  <2>1. B[b] \in CodeBlock
    BY <1>1, ElementOfSeq
  <2> QED
    BY <2>1, LenProperties DEF CodeBlock
<1>3. \A i \in 1..Len(D[b]) : D[b][i] \in Int
  BY <1>1, ElementOfSeq
<1>4. Last(D[b]) \in Int
  BY <1>1, <1>2, <1>3 DEF Last
<1> QED
  BY <1>1, <1>2, <1>3, <1>4

\* The body of a function starts with no object; the code around it goes on
\* where it was.
LEMMA FunctionGraded ==
    ASSUME NEW E, Compiled(E), NEW D, Graded(D), NoEmptyBody, VisitFunction
    PROVE  \E G : Graded(G)' /\ Extends(D, G, cb)
<1> DEFINE b == FirstNew
           t == Tail(todo)
           C == Append(blks, EmptyBlock)
           f == [ps |-> Node.ps, blk |-> b, cs |-> Len(lists) + 1]
           y == [k |-> "leave", cb |-> cb, cs |-> cs, f |-> f]
           x == <<LIST(Node.body), y>>
<1>1. /\ todo # <<>> /\ Node.k = "fn" /\ blks' = C /\ cb' = b /\ fns' = fns
  BY DEF VisitFunction, At, Node
<1>2. todo' = x \o t
  <2>1. b = cb' /\ Len(lists) + 1 = cs'
    BY DEF VisitFunction
  <2> QED
    BY <2>1 DEF VisitFunction, Then
<1>3. Node \in Exps
  BY <1>1, HeadFits DEF FitItem, ExpKinds
<1>4. Node.body # <<>>
  BY <1>1, <1>3 DEF NoEmptyBody
<1>5. PICK p, q \in Int : p = Last(D[cb]) /\ Leads(Node, p, q, D) /\ Chain(t, q, D)
  BY <1>1, HeadGraded
<1>6. /\ p >= 0 /\ q = p + 1 /\ cb \in 1..Len(blks) /\ blks[cb].next = NoBlock
      /\ Len(blks) \in Nat /\ Len(D) = Len(blks) /\ BlocksGraded(blks, D) /\ blks \in Seq(CodeBlock)
      /\ Opened(Node) = {} /\ IsSeq(t) /\ Apart(t) /\ OpenSet(todo) = OpenSet(t)
  BY <1>1, <1>5, HeadGraded DEF Leads, ExpKinds, Opened
<1>7. cb \notin OpenSet(t) /\ \A c \in OpenSet(t) : c \in 1..Len(blks) /\ blks[c].next = NoBlock
  BY <1>6 DEF Graded, OpenSound
<1>8. PICK G : OneMore(blks, D, G, 0)
  BY <1>6, GradedOne
<1>9. b \in 1..Len(G) /\ Len(G[b]) = 1 /\ G[b][1] = 0
  <2>1. Len(G) = Len(blks) + 1 /\ G[Len(blks) + 1] = <<0>>
    BY <1>8 DEF OneMore
  <2>2. b \in 1..Len(G) /\ G[b] = <<0>>
    BY <1>6, <2>1 DEF FirstNew
  <2> QED
    BY <2>2, OneIs
<1>10. BlocksGraded(C, G) /\ Extends(D, G, cb) /\ \A c \in 1..Len(blks) : G[c] = D[c]
  BY <1>8 DEF OneMore
<1>11. /\ Len(C) = Len(blks) + 1 /\ \A c \in 1..Len(blks) : C[c] = blks[c]
       /\ C[Len(blks) + 1] = EmptyBlock
  BY <1>6, NewBlock
<1>12. y.k = "leave" /\ y.cb = cb /\ y.f.blk = b
  OBVIOUS
<1> HIDE DEF C, y, t, b
<1>13. IsSeq(x) /\ Len(x) = 2
  BY Tuple2
<1>14. x[1] = LIST(Node.body) /\ x[2] = y
  BY Tuple2
<1> HIDE DEF x
<1>15. Brings(x, 0, q, G)
  <2> DEFINE ks == <<0, 1, q>>
  <2>1. ks \in Seq(Int) /\ Len(ks) = 3 /\ ks[1] = 0 /\ ks[2] = 1 /\ ks[3] = q
    OBVIOUS
  <2> HIDE DEF ks
  <2>2. Leads(x[1], ks[1], ks[2], G)
    <3>1. ks[1] \in Int /\ ks[1] >= 0 /\ ks[2] = ks[1] + 1
      BY <2>1
    <3> QED
      BY <1>4, <1>14, <3>1, LeadsList
  <2>3. Leads(x[2], ks[2], ks[3], G)
    <3>1. ks[2] = 1 /\ ks[3] >= 1 /\ ks[3] = p + 1
      BY <1>6, <2>1
    <3>2. cb \in 1..Len(G) /\ Last(G[cb]) = p
      BY <1>5, <1>6, <1>10, ExtendsIn
    <3> QED
      BY <1>9, <1>12, <1>14, <3>1, <3>2 DEF Leads, ExpKinds, StmKinds
  <2>4. \A j \in 1..Len(x) : Leads(x[j], ks[j], ks[j + 1], G)
    BY <1>13, <2>2, <2>3
  <2>5. 0 = ks[1] /\ q = ks[Len(x) + 1] /\ Len(ks) = Len(x) + 1
    BY <1>13, <2>1
  <2> QED
    BY <1>13, <2>1, <2>4, <2>5, Bringing
<1>16. Chain(x \o t, 0, G)
  <2>1. Chain(t, q, G)
    BY <1>5, <1>7, <1>10, ChainExtends
  <2> QED
    BY <1>15, <2>1, ChainBefore
<1>17. Opened(x[1]) = {} /\ Opened(x[2]) = {cb}
  BY <1>12, <1>14, OpensNothing DEF Opened
<1>18. OpenSet(x) = {cb} /\ Apart(x)
  <2>1. \A j \in 1..Len(x) : j # 2 => Opened(x[j]) = {}
    BY <1>13, <1>17
  <2>2. 2 \in 1..Len(x)
    BY <1>13
  <2>3. OpenSet(x) = Opened(x[2]) /\ Apart(x)
    BY <1>13, <2>1, <2>2, OpensOne, Zenon
  <2> QED
    BY <1>17, <2>3
<1>19. OpenSet(x) \cap OpenSet(t) = {}
  BY <1>7, <1>18
<1> DEFINE u == x \o t
<1>20. OpenSet(u) = {cb} \cup OpenSet(t) /\ Apart(u)
  BY <1>6, <1>13, <1>18, <1>19, OpenConcat
<1>21. todo' = u
  BY <1>2 DEF t
<1> HIDE DEF u
<1>22. b \in Nat /\ b # NoBlock /\ b \notin 1..Len(blks)
  BY <1>6 DEF b, FirstNew, NoBlock
<1>23. Chain(todo, Here(G), G)'
  <2>1. Last(G[b]) = 0
    BY <1>9 DEF Last
  <2>2. cb' = b /\ Chain(u, 0, G)
    BY <1>1, <1>16 DEF u, b
  <2> QED
    BY <1>21, <1>22, <2>1, <2>2 DEF Here
<1>24. b \in 1..Len(C) /\ C[b].next = NoBlock /\ \A c \in 1..Len(C) : c # b => c \in 1..Len(blks)
  BY <1>6, <1>11 DEF b, FirstNew, EmptyBlock
<1>25. \A c \in 1..Len(blks) : c \in 1..Len(C)
  BY <1>6, <1>11
<1>26. OpenSound(G)'
  <2>1. OpenSet(todo)' = OpenSet(u) /\ Apart(todo)'
    BY <1>20, <1>21 DEF OpenSet, Apart
  <2>2. b \notin OpenSet(u)
    BY <1>6, <1>7, <1>20, <1>22
  <2>3. ASSUME NEW c \in OpenSet(u) \cup {b} PROVE c \in 1..Len(C) /\ C[c].next = NoBlock
    <3>1. c = b \/ (c \in 1..Len(blks) /\ blks[c].next = NoBlock)
      BY <1>6, <1>7, <1>20
    <3> QED
      BY <1>11, <1>24, <1>25, <3>1
  <2>4. ASSUME NEW c \in 1..Len(C), C[c].next = NoBlock, c # b, c \notin OpenSet(u) PROVE Last(G[c]) = 1
    <3>1. c \in 1..Len(blks) /\ c # cb /\ c \notin OpenSet(t)
      BY <1>20, <1>24, <2>4
    <3>2. blks[c].next = NoBlock
      BY <1>11, <2>4, <3>1
    <3>3. Last(D[c]) = 1
      BY <1>6, <3>1, <3>2 DEF Graded, OpenSound
    <3> QED
      BY <1>10, <3>1, <3>3
  <2>5. blks' = C /\ cb' = b
    BY <1>1 DEF b, C
  <2> QED
    BY <2>1, <2>2, <2>3, <2>4, <2>5 DEF OpenSound
<1>27. \A g \in 1..Len(fns) : G[fns[g].blk][1] = 0
  BY <1>10, FnsStart
<1>28. blks' = C /\ fns' = fns
  BY <1>1 DEF C
<1>29. Graded(G)'
  BY <1>10, <1>23, <1>26, <1>27, <1>28 DEF Graded
<1> QED
  BY <1>10, <1>29

\* It has left one object, and is one for the code around it.
LEMMA LeaveGraded ==
    ASSUME NEW E, Compiled(E), NEW D, Graded(D), LeaveFunction
    PROVE  Graded(D)'
<1> DEFINE f == Node.f
           c == Node.cb
           t == Tail(todo)
           m == Len(f.ps)
           s == [i \in 1..m |-> STORE(f.ps[i])]
           u == EMIT_CONST("PUSH", FN(Len(fns) + 1))
           v == s \o <<u>>
<1>1. /\ todo # <<>> /\ Node.k = "leave" /\ cb' = c /\ fns' = Append(fns, f) /\ blks' = blks
  BY DEF LeaveFunction, At, Node
<1>2. todo' = v \o t
  BY DEF LeaveFunction, Then
<1>3. PICK p, q \in Int : p = Last(D[cb]) /\ Leads(Node, p, q, D) /\ Chain(t, q, D)
  BY <1>1, HeadGraded
<1>4. /\ p = 1 /\ q >= 1 /\ c \in 1..Len(D) /\ q = Last(D[c]) + 1 /\ Opened(Node) = {c}
      /\ f.blk \in 1..Len(D) /\ D[f.blk][1] = 0
  BY <1>1, <1>3 DEF Leads, Opened
<1>5. /\ cb \in 1..Len(blks) /\ blks[cb].next = NoBlock /\ IsSeq(t) /\ Apart(t) /\ c \notin OpenSet(t)
      /\ OpenSet(todo) = {c} \cup OpenSet(t) /\ Len(D) = Len(blks) /\ BlocksGraded(blks, D)
  BY <1>1, <1>4, HeadGraded
<1>6. m \in Nat
  <2>1. PICK d : FitItem(Node, cs, d, E) /\ Fit(t, d, E)
    BY <1>1, HeadFits
  <2>2. f.ps \in Seq(STRING)
    BY <1>1, <2>1 DEF FitItem, FnFits
  <2> QED
    BY <2>2, LenProperties
<1>7. IsSeq(s) /\ Len(s) = m /\ \A i \in 1..Len(s) : s[i] = STORE(f.ps[i])
  <2>1. s \in [1..m -> {STORE(f.ps[i]) : i \in 1..m}]
    OBVIOUS
  <2>2. s \in Seq({STORE(f.ps[i]) : i \in 1..m})
    BY <1>6, <2>1, SeqDef
  <2>3. Len(s) = m
    BY <1>6, <2>1, <2>2, LenProperties
  <2>4. \A i \in 1..Len(s) : s[i] = STORE(f.ps[i])
    BY <2>3
  <2> HIDE DEF s
  <2> QED
    BY <2>2, <2>3, <2>4, SeqIs
<1>8. PICK r \in Int : r = q - 1 /\ r >= 0
  BY <1>4
<1>9. Last(D[c]) = r
  <2>1. Last(D[c]) \in Int
    BY <1>1, <1>4, DepthsOf, HeadGraded
  <2> QED
    BY <1>4, <1>8, <2>1
<1> HIDE DEF s, u, t, c, m
<1>10. Brings(s, r, r, D)
  <2> DEFINE ks == [j \in 1..Len(s) + 1 |-> r]
  <2>1. ks \in [1..Len(s) + 1 -> Int] /\ Len(s) + 1 \in Nat
    BY <1>6, <1>7
  <2>2. \A j \in 1..Len(s) : Leads(s[j], ks[j], ks[j + 1], D)
    <3>1. ASSUME NEW j \in 1..Len(s) PROVE ks[j] = r /\ ks[j + 1] = r
      BY <1>6, <1>7
    <3>2. \A j \in 1..Len(s) : Leads(s[j], r, r, D)
      BY <1>7, LeadsStore
    <3> QED
      BY <3>1, <3>2
  <2>3. ks[1] = r /\ ks[Len(s) + 1] = r
    BY <1>6, <1>7
  <2> HIDE DEF ks
  <2> QED
    BY <1>7, <2>1, <2>2, <2>3 DEF Brings
<1>11. Brings(<<u>>, r, q, D)
  <2>1. q = r + 1
    BY <1>8
  <2>2. Leads(u, r, q, D)
    BY <1>8, <2>1, LeadsConst DEF u
  <2> QED
    BY <2>2, BringsOne
<1>12. Chain(v \o t, r, D)
  <2>1. Brings(v, r, q, D)
    BY <1>10, <1>11, BringsBoth
  <2> QED
    BY <1>3, <2>1, ChainBefore DEF t
<1>13. \A j \in 1..Len(v) : Opened(v[j]) = {}
  <2>1. IsSeq(<<u>>) /\ \A j \in 1..Len(<<u>>) : Opened(<<u>>[j]) = {}
    BY OneIs, OpensNothing DEF u
  <2>2. \A j \in 1..Len(s) : Opened(s[j]) = {}
    BY <1>7, OpensNothing
  <2> QED
    BY <1>7, <2>1, <2>2, ClosedBoth
<1>14. IsSeq(v)
  BY <1>7, OneIs, ConcatIs
<1> HIDE DEF v
<1>15. OpenSet(v) = {} /\ Apart(v)
  BY <1>13 DEF OpenSet, Apart
<1> DEFINE w == v \o t
<1>16. OpenSet(w) = OpenSet(t) /\ Apart(w)
  <2>1. IsSeq(t) /\ Apart(t) /\ OpenSet(v) \cap OpenSet(t) = {}
    BY <1>5, <1>15 DEF t
  <2> QED
    BY <1>14, <1>15, <2>1, OpenConcat
<1>17. todo' = w
  BY <1>2 DEF t
<1> HIDE DEF w
<1>18. cb' = c /\ c # NoBlock
  BY <1>1, <1>4 DEF c, NoBlock
<1>19. Chain(todo, Here(D), D)'
  <2>1. Chain(w, r, D)
    BY <1>12 DEF w
  <2> QED
    BY <1>9, <1>17, <1>18, <2>1 DEF Here
<1>20. OpenSound(D)'
  <2>1. OpenSet(todo)' = OpenSet(t) /\ Apart(todo)'
    BY <1>16, <1>17 DEF OpenSet, Apart
  <2>2. c \notin OpenSet(t) /\ OpenSet(todo) = {c} \cup OpenSet(t)
    BY <1>5 DEF c, t
  <2>3. \A b \in OpenSet(t) \cup {c} : b \in 1..Len(blks) /\ blks[b].next = NoBlock
    BY <2>2 DEF Graded, OpenSound
  <2>4. ASSUME NEW b \in 1..Len(blks), blks[b].next = NoBlock, b # c, b \notin OpenSet(t) PROVE Last(D[b]) = 1
    <3>1. CASE b = cb
      BY <1>3, <1>4, <3>1
    <3>2. CASE b # cb
      BY <2>2, <2>4, <3>2 DEF Graded, OpenSound
    <3> QED
      BY <3>1, <3>2
  <2> QED
    BY <1>1, <1>18, <2>1, <2>2, <2>3, <2>4 DEF OpenSound
<1>21. (\A g \in 1..Len(fns) : D[fns[g].blk][1] = 0)'
  <2>1. IsSeq(fns) /\ Len(fns) \in Nat
    BY IsSeqFacts DEF Compiled, Made, FnsFit
  <2>2. /\ Len(Append(fns, f)) = Len(fns) + 1 /\ Append(fns, f)[Len(fns) + 1] = f
        /\ \A g \in 1..Len(fns) : Append(fns, f)[g] = fns[g]
    BY <2>1, AppendIs
  <2>3. \A g \in 1..Len(fns) : D[fns[g].blk][1] = 0
    BY DEF Graded
  <2> DEFINE fs == Append(fns, f)
  <2> HIDE DEF fs
  <2>4. ASSUME NEW g \in 1..Len(fs) PROVE D[fs[g].blk][1] = 0
    <3>1. g \in 1..Len(fns) \/ g = Len(fns) + 1
      BY <2>1, <2>2, <2>4 DEF fs
    <3> QED
      BY <1>4, <2>2, <2>3, <3>1 DEF fs
  <2> QED
    BY <1>1, <2>4 DEF fs
<1> QED
  BY <1>1, <1>5, <1>19, <1>20, <1>21 DEF Graded

\* Each visitor.
LEMMA VisitGraded ==
    ASSUME NEW E, Compiled(E), NEW D, Graded(D), NoEmptyBody, Visit
    PROVE  \E G : Graded(G)' /\ Extends(D, G, cb)
<1>1. D \in Seq(Seq(Int))
  BY DEF Graded, BlocksGraded
<1>2. CASE UseNext \/ LeaveFunction
  <2>1. Graded(D)' /\ Extends(D, D, cb)
    BY <1>1, <1>2, UseNextGraded, LeaveGraded, ExtendsSelf
  <2> QED
    BY <2>1
<1>3. CASE ~(UseNext \/ LeaveFunction)
  BY <1>3, InsVisitorsGraded, StoreGraded, CallVisitorsGraded, FunctionGraded, IfGraded,
     ForToGraded, ForBodyGraded DEF Visit
<1> QED
  BY <1>2, <1>3

\* When nothing is left to do, every block without a next one ends with one
\* object.
LEMMA AllEnd ==
    ASSUME NEW D, Graded(D), todo = <<>>
    PROVE  \A d \in 1..Len(blks) : blks[d].next = NoBlock => Last(D[d]) = 1
<1>1. Here(D) = 1
  <2>1. IsSeq(<<>>) /\ Len(<<>>) = 0
    BY EmptyIs
  <2> QED
    BY <2>1 DEF Graded, Chain, Brings
<1>2. OpenSet(<<>>) = {}
  BY EmptyIs DEF OpenSet
<1>3. ASSUME NEW d \in 1..Len(blks), blks[d].next = NoBlock PROVE Last(D[d]) = 1
  <2>1. CASE d = cb
    BY <1>1, <1>3, <2>1 DEF Here, NoBlock
  <2>2. CASE d # cb
    BY <1>2, <1>3, <2>2 DEF Graded, OpenSound
  <2> QED
    BY <2>1, <2>2
<1> QED
  BY <1>3

\* An input begins, when nothing is left of the one before.
LEMMA GenerateGraded ==
    ASSUME NEW E, Compiled(E), NEW D, Graded(D), todo = <<>>,
           NEW body, body # <<>>, NEW c, Generate(body, c)
    PROVE  \E G : /\ Graded(G)' /\ Extends(D, G, cb)
                  /\ FirstNew \in 1..Len(G) /\ G[FirstNew][1] = 0
<1> DEFINE b == FirstNew
           C == Append(blks, EmptyBlock)
           x == <<LIST(body)>>
<1>1. blks' = C /\ cb' = b /\ fns' = fns /\ todo' = x
  BY DEF Generate
<1>2. /\ blks \in Seq(CodeBlock) /\ Len(blks) \in Nat /\ BlocksGraded(blks, D) /\ Len(D) = Len(blks)
  BY LenProperties DEF Compiled, Made, BlocksFit, Graded, BlocksGraded
<1>3. PICK G : OneMore(blks, D, G, 0)
  BY <1>2, GradedOne
<1>4. b \in 1..Len(G) /\ Len(G[b]) = 1 /\ G[b][1] = 0
  <2>1. Len(G) = Len(blks) + 1 /\ G[Len(blks) + 1] = <<0>>
    BY <1>3 DEF OneMore
  <2>2. b \in 1..Len(G) /\ G[b] = <<0>>
    BY <1>2, <2>1 DEF FirstNew
  <2> QED
    BY <2>2, OneIs
<1>5. BlocksGraded(C, G) /\ Extends(D, G, cb) /\ \A d \in 1..Len(blks) : G[d] = D[d]
  BY <1>3 DEF OneMore
<1>6. /\ Len(C) = Len(blks) + 1 /\ \A d \in 1..Len(blks) : C[d] = blks[d]
      /\ C[Len(blks) + 1] = EmptyBlock
  BY <1>2, NewBlock
<1> HIDE DEF C
<1>7. b \in 1..Len(C) /\ C[b].next = NoBlock /\ \A d \in 1..Len(C) : d # b => d \in 1..Len(blks)
  BY <1>2, <1>6 DEF FirstNew, EmptyBlock
<1>8. b # NoBlock
  BY <1>2 DEF FirstNew, NoBlock
<1> HIDE DEF b
<1>9. Brings(x, 0, 1, G)
  <2>1. Leads(LIST(body), 0, 1, G)
    <3>1. 0 \in Int /\ 0 >= 0 /\ 1 = 0 + 1
      OBVIOUS
    <3> QED
      BY <3>1, LeadsList, Zenon
  <2> QED
    BY <2>1, BringsOne
<1>10. OpenSet(x) = {} /\ Apart(x)
  <2>1. \A j \in 1..Len(x) : Opened(x[j]) = {}
    BY OneIs, OpensNothing
  <2> QED
    BY <2>1 DEF OpenSet, Apart
<1> HIDE DEF x
<1>12. \A d \in 1..Len(blks) : blks[d].next = NoBlock => Last(D[d]) = 1
  BY AllEnd
<1>13. Chain(todo, Here(G), G)'
  <2>1. Last(G[b]) = 0
    BY <1>4 DEF Last
  <2>2. cb' = b
    BY <1>1 DEF b
  <2> QED
    BY <1>1, <1>8, <1>9, <2>1, <2>2 DEF Here, Chain
<1>14. OpenSound(G)'
  <2>1. OpenSet(todo)' = {} /\ Apart(todo)'
    BY <1>1, <1>10 DEF OpenSet, Apart
  <2>2. ASSUME NEW d \in 1..Len(C), C[d].next = NoBlock, d # b PROVE Last(G[d]) = 1
    <3>1. d \in 1..Len(blks)
      BY <1>7, <2>2
    <3>2. blks[d].next = NoBlock
      BY <1>6, <2>2, <3>1
    <3> QED
      BY <1>5, <1>12, <3>1, <3>2
  <2>3. blks' = C /\ cb' = b
    BY <1>1 DEF C, b
  <2> QED
    BY <1>7, <2>1, <2>2, <2>3 DEF OpenSound
<1>15. \A g \in 1..Len(fns) : G[fns[g].blk][1] = 0
  BY <1>5, FnsStart
<1>16. Graded(G)'
  <2>1. blks' = C
    BY <1>1 DEF C
  <2> QED
    BY <1>1, <1>5, <1>13, <1>14, <1>15, <2>1 DEF Graded
<1> QED
  BY <1>4, <1>5, <1>16 DEF b

-----------------------------------------------------------------------------
(* The control flow follows the depths.                                    *)

Live(D) ==
    {p \in Nat \X Nat \X Int :
        /\ p[1] \in 1..Len(blks) /\ p[2] \in 1..Len(D[p[1]])
        /\ p[3] = D[p[1]][p[2]] /\ p[3] >= 0}

LEMMA LivePoint ==
    ASSUME NEW D, blks \in Seq(CodeBlock), BlocksGraded(blks, D),
           NEW b \in 1..Len(D), NEW i \in 1..Len(D[b]), NEW d, d = D[b][i], d >= 0
    PROVE  <<b, i, d>> \in Live(D)
<1>1. b \in 1..Len(blks) /\ d \in Int /\ Len(D[b]) \in Nat /\ Len(blks) \in Nat
  <2>1. b \in 1..Len(blks) /\ Len(blks[b].code) \in Nat /\ Len(D[b]) = Len(blks[b].code) + 1 /\ d \in Int
    BY DepthsOf
  <2> QED
    BY <2>1, LenProperties
<1>2. b \in Nat /\ i \in Nat
  BY <1>1
<1> QED
  BY <1>1, <1>2 DEF Live

LEMMA PopsType ==
    ASSUME NEW ins \in Instruction
    PROVE  Pops(ins) \in Nat /\ Looks(ins) \in {0, 1} /\ Pushes(ins) \in {0, 1}
<1>1. ins.op = "INVOKE" => ins.arg \in Nat
  BY DEF Instruction, Plain, Binary, OnConst, Jumping
<1>2. ins.op = "INVOKE" => Pops(ins) = ins.arg + 1
  BY DEF Pops
<1>3. ins.op # "INVOKE" => Pops(ins) \in {0, 1, 2}
  BY DEF Pops
<1> QED
  BY <1>1, <1>2, <1>3 DEF Looks, Pushes

LEMMA AfterLive ==
    ASSUME NEW D, blks \in Seq(CodeBlock), BlocksGraded(blks, D), NEW p \in Live(D)
    PROVE  After(p) \subseteq Live(D)
<1> DEFINE b == p[1]
           i == p[2]
           d == p[3]
           ins == Code(b)[i]
           left == d - Pops(ins) + Pushes(ins)
<1>1. /\ b \in 1..Len(blks) /\ i \in 1..Len(D[b]) /\ d = D[b][i] /\ d >= 0 /\ d \in Int /\ Len(D) = Len(blks)
  BY DEF Live, BlocksGraded
<1>2. Len(Code(b)) \in Nat /\ Len(D[b]) = Len(Code(b)) + 1 /\ BlockGraded(blks[b], D[b], D)
  <2>1. Len(blks[b].code) \in Nat /\ Len(D[b]) = Len(blks[b].code) + 1
    BY <1>1, DepthsOf
  <2> QED
    BY <1>1, <2>1 DEF Code, BlocksGraded
<1>3. CASE i > Len(Code(b))
  <2>1. i = Len(D[b])
    BY <1>1, <1>2, <1>3
  <2>2. After(p) = IF blks[b].next = 0 THEN {} ELSE {<<blks[b].next, 1, d>>}
    BY <1>3 DEF After
  <2>3. CASE blks[b].next = 0
    BY <2>2, <2>3
  <2>4. CASE blks[b].next # 0
    <3> DEFINE n == blks[b].next
    <3>1. n \in 1..Len(D) /\ Last(D[b]) \in {Dead, D[n][1]}
      BY <1>2, <2>4 DEF BlockGraded, NoBlock
    <3>2. Last(D[b]) = d
      BY <1>1, <2>1 DEF Last
    <3>3. d = D[n][1]
      BY <1>1, <3>1, <3>2 DEF Dead
    <3>4. 1 \in 1..Len(D[n])
      BY <3>1, DepthsOf
    <3> HIDE DEF n, d
    <3>5. <<n, 1, d>> \in Live(D)
      BY <1>1, <3>1, <3>3, <3>4, LivePoint
    <3> QED
      BY <2>2, <2>4, <3>5 DEF n
  <2> QED
    BY <2>3, <2>4
<1>4. CASE ~(i > Len(Code(b)))
  <2>1. i \in 1..Len(Code(b)) /\ i + 1 \in 1..Len(D[b])
    BY <1>1, <1>2, <1>4
  <2>2. Effect(ins, d, D[b][i + 1], D)
    BY <1>1, <1>2, <2>1 DEF BlockGraded, Code
  <2>3. After(p) = (IF ins.op = "JUMP" THEN {} ELSE {<<b, i + 1, left>>})
                   \cup (IF ins.op \in Jumping THEN {<<ins.to, 1, left>>} ELSE {})
    BY <1>4 DEF After, Jumping
  <2>4. Pops(ins) \in Int /\ Looks(ins) \in {0, 1} /\ Pushes(ins) \in {0, 1}
    <3>1. blks[b] \in CodeBlock
      BY <1>1, ElementOfSeq
    <3>3. blks[b].code \in Seq(Instruction)
      BY <3>1 DEF CodeBlock
    <3>2. ins \in Instruction
      BY <2>1, <3>3, ElementOfSeq DEF Code
    <3> HIDE DEF ins
    <3> QED
      BY <3>2, PopsType
  <2> HIDE DEF ins, b, i, d
  <2>5. left \in Int /\ left >= 0
    BY <1>1, <2>2, <2>4 DEF Effect
  <2>6. ins.op # "JUMP" => <<b, i + 1, left>> \in Live(D)
    <3>1. SUFFICES ASSUME ins.op # "JUMP" PROVE <<b, i + 1, left>> \in Live(D)
      OBVIOUS
    <3>2. left = D[b][i + 1]
      BY <2>2, <3>1 DEF Effect
    <3> HIDE DEF left
    <3> QED
      BY <1>1, <2>1, <2>5, <3>2, LivePoint
  <2>7. ins.op \in Jumping => <<ins.to, 1, left>> \in Live(D)
    <3>1. SUFFICES ASSUME ins.op \in Jumping PROVE <<ins.to, 1, left>> \in Live(D)
      OBVIOUS
    <3> DEFINE c == ins.to
    <3>2. Pushes(ins) = 0
      BY <3>1 DEF Pushes, Jumping
    <3>3. c \in 1..Len(D) /\ D[c][1] = left
      BY <1>1, <2>2, <2>4, <3>1, <3>2 DEF Effect
    <3>4. 1 \in 1..Len(D[c])
      BY <3>3, DepthsOf
    <3> HIDE DEF c, left
    <3>5. <<c, 1, left>> \in Live(D)
      BY <2>5, <3>3, <3>4, LivePoint
    <3> QED
      BY <3>5 DEF c
  <2> QED
    BY <2>3, <2>6, <2>7
<1> QED
  BY <1>3, <1>4

\* There are finitely many positions, and at each one depth.
LEMMA PositionsFinite ==
    ASSUME blks \in Seq(CodeBlock)
    PROVE  IsFiniteSet(Positions) /\ Cardinality(Positions) \in Nat
<1> DEFINE n == Len(blks)
           f == [b \in 1..n |-> {b} \X (1..Len(Code(b)) + 1)]
           T == {{b} \X (1..Len(Code(b)) + 1) : b \in 1..n}
<1>1. n \in Nat /\ IsFiniteSet(1..n)
  BY LenProperties, FS_Interval
<1>2. f \in Surjection(1..n, T)
  BY DEF Surjection
<1>3. IsFiniteSet(T)
  BY <1>1, <1>2, FS_Surjection
<1>4. \A t \in T : IsFiniteSet(t)
  <2>1. ASSUME NEW b \in 1..n PROVE IsFiniteSet({b} \X (1..Len(Code(b)) + 1))
    <3>1. blks[b] \in CodeBlock
      BY ElementOfSeq
    <3>2. Len(Code(b)) \in Nat
      BY <3>1, LenProperties DEF CodeBlock, Code
    <3>3. IsFiniteSet({b})
      BY FS_Singleton
    <3>4. IsFiniteSet(1..Len(Code(b)) + 1)
      <4>1. 1 \in Int /\ Len(Code(b)) + 1 \in Int
        BY <3>2
      <4> QED
        BY <4>1, FS_Interval
    <3> QED
      BY <3>3, <3>4, FS_Product
  <2> QED
    BY <2>1
<1>5. IsFiniteSet(UNION T)
  BY <1>3, <1>4, FS_UNION
<1>6. IsFiniteSet(Positions)
  BY <1>5 DEF Positions
<1> QED
  BY <1>6, FS_CardinalityType

LEMMA LiveFinite ==
    ASSUME NEW D, blks \in Seq(CodeBlock), BlocksGraded(blks, D)
    PROVE  IsFiniteSet(Live(D)) /\ Cardinality(Live(D)) <= Cardinality(Positions)
<1> DEFINE f == [p \in Live(D) |-> <<p[1], p[2]>>]
<1>1. ASSUME NEW p \in Live(D) PROVE <<p[1], p[2]>> \in Positions
  <2>1. p[1] \in 1..Len(blks) /\ p[2] \in 1..Len(D[p[1]]) /\ Len(D) = Len(blks)
    BY DEF Live, BlocksGraded
  <2>2. Len(D[p[1]]) = Len(Code(p[1])) + 1
    BY <2>1, DepthsOf DEF Code
  <2> QED
    BY <2>1, <2>2 DEF Positions
<1>2. f \in [Live(D) -> Positions]
  BY <1>1
<1>3. \A p, q \in Live(D) : f[p] = f[q] => p = q
  BY DEF Live
<1>4. f \in Injection(Live(D), Positions)
  BY <1>2, <1>3 DEF Injection, IsInjective
<1> QED
  BY <1>4, PositionsFinite, FS_Injection

\* The points after n steps, for each n.
LEMMA FlowChain ==
    ASSUME NEW D, blks \in Seq(CodeBlock), BlocksGraded(blks, D), NEW b, <<b, 1, 0>> \in Live(D)
    PROVE  \E g \in [0..Cardinality(Positions) -> SUBSET Live(D)] :
               /\ g[0] = {<<b, 1, 0>>} /\ g[Cardinality(Positions)] = FlowFrom(b)
               /\ \A i \in 1..Cardinality(Positions) : g[i] = Onwards(g[i - 1])
<1> DEFINE n == Cardinality(Positions)
           V == SUBSET Live(D)
           S == {<<b, 1, 0>>}
           s == [i \in Nat |-> [T \in V |-> Onwards(T)]]
           P(g) == g = [i \in 0..n |-> IF i = 0 THEN S ELSE Onwards(g[i - 1])]
<1>1. n \in Nat
  BY PositionsFinite
<1>2. S \in V /\ \A T \in V : Onwards(T) \in V
  BY AfterLive DEF Onwards
<1>3. s \in [Nat -> [V -> V]] /\ \A i \in Nat, T \in V : s[i][T] = Onwards(T)
  BY <1>2
<1>4. FlowFrom(b) = (CHOOSE g : P(g))[n]
  BY Zenon DEF FlowFrom
<1> DEFINE g == CHOOSE g : P(g)
<1> HIDE DEF V, s, n, S
<1>5. PICK f \in [0..n -> V] : Iterates(f, S, s, n)
  BY <1>1, <1>2, <1>3, IterationExists
<1>6. \A i \in 1..n : f[i] = Onwards(f[i - 1])
  <2>1. \A i \in 1..n : i - 1 \in 0..n /\ i \in Nat /\ f[i - 1] \in V
    BY <1>1, <1>5
  <2> QED
    BY <1>3, <1>5, <2>1 DEF Iterates
<1>7. P(f)
  <2>1. \A i \in 0..n : f[i] = IF i = 0 THEN S ELSE Onwards(f[i - 1])
    BY <1>1, <1>5, <1>6 DEF Iterates
  <2> QED
    BY <1>5, <2>1
<1>8. P(g)
  BY <1>7
<1> HIDE DEF g
<1>9. DOMAIN g = 0..n /\ g[0] = S /\ \A i \in 1..n : g[i] = Onwards(g[i - 1])
  <2>1. \A i \in 0..n : g[i] = IF i = 0 THEN S ELSE Onwards(g[i - 1])
    BY <1>8
  <2> QED
    BY <1>1, <1>8, <2>1
<1>10. \A i \in 0..n : g[i] \in V
  <2> DEFINE X == {i \in 0..n : g[i] \notin V}
  <2>1. SUFFICES ASSUME X # {} PROVE FALSE
    OBVIOUS
  <2>2. X \subseteq Nat
    BY <1>1
  <2>3. PICK i \in X : \A j \in X : i <= j
    BY <2>1, <2>2, Smallest
  <2>4. i # 0 /\ i \in 1..n /\ i - 1 \in 0..n /\ ~(i <= i - 1)
    BY <1>1, <1>2, <1>9, <2>3
  <2>5. g[i - 1] \in V
    BY <2>3, <2>4
  <2> QED
    BY <1>2, <1>9, <2>3, <2>4, <2>5
<1>11. g = [i \in 0..n |-> g[i]]
  BY <1>8
<1>12. g \in [0..n -> V]
  BY <1>10, <1>11
<1> QED
  BY <1>4, <1>9, <1>12 DEF V, n, g, S

\* All of them are live, and no step leads out of them: while the set grows it
\* has as many points as steps, and there are no more points than positions.
LEMMA FlowFacts ==
    ASSUME NEW D, blks \in Seq(CodeBlock), BlocksGraded(blks, D), NEW b \in 1..Len(D), D[b][1] = 0
    PROVE  /\ FlowFrom(b) \subseteq Live(D) /\ <<b, 1, 0>> \in FlowFrom(b)
           /\ \A p \in FlowFrom(b) : After(p) \subseteq FlowFrom(b)
<1> DEFINE n == Cardinality(Positions)
           L == Live(D)
           p0 == <<b, 1, 0>>
           Shut(T) == Onwards(T) = T
<1>1. n \in Nat /\ IsFiniteSet(L) /\ Cardinality(L) <= n /\ Cardinality(L) \in Nat
  BY PositionsFinite, LiveFinite, FS_CardinalityType
<1>2. p0 \in L
  <2>1. 1 \in 1..Len(D[b])
    <3>1. Len(blks[b].code) \in Nat /\ Len(D[b]) = Len(blks[b].code) + 1
      BY DepthsOf
    <3> QED
      BY <3>1
  <2>2. 0 >= 0
    OBVIOUS
  <2> QED
    BY <2>1, <2>2, LivePoint
<1>3. PICK g \in [0..n -> SUBSET L] :
         /\ g[0] = {p0} /\ g[n] = FlowFrom(b)
         /\ \A i \in 1..n : g[i] = Onwards(g[i - 1])
  BY <1>2, FlowChain
<1>4. \A T : T \subseteq Onwards(T)
  BY DEF Onwards
<1> HIDE DEF n, L, p0
<1>5. ASSUME NEW i \in 0..n
      PROVE  g[i] \subseteq L /\ IsFiniteSet(g[i]) /\ Cardinality(g[i]) \in Nat
  BY <1>1, <1>3, FS_Subset, FS_CardinalityType
<1>6. ASSUME NEW i \in 1..n
      PROVE  /\ i - 1 \in 0..n /\ i \in 0..n /\ i \in Nat /\ ~(i <= i - 1)
             /\ g[i] = Onwards(g[i - 1])
  <2>1. i - 1 \in 0..n /\ i \in 0..n /\ i \in Nat /\ ~(i <= i - 1)
    BY <1>1
  <2> QED
    BY <1>3, <2>1
<1>7. n \in 0..n /\ 0..n \subseteq Nat
  BY <1>1
<1>8. \A i \in 0..n : p0 \in g[i]
  <2> DEFINE X == {i \in 0..n : p0 \notin g[i]}
  <2>1. SUFFICES ASSUME X # {} PROVE FALSE
    OBVIOUS
  <2>2. PICK i \in X : \A j \in X : i <= j
    BY <1>7, <2>1, Smallest
  <2>3. i # 0 /\ i \in 0..n
    BY <1>3, <2>2
  <2>4. i \in 1..n
    BY <1>1, <2>3
  <2>5. p0 \in g[i - 1]
    BY <1>6, <2>2, <2>4
  <2> QED
    BY <1>4, <1>6, <2>2, <2>4, <2>5
<1>9. \A i \in 0..n : Shut(g[i]) \/ Cardinality(g[i]) >= i
  <2> DEFINE X == {i \in 0..n : ~(Shut(g[i]) \/ Cardinality(g[i]) >= i)}
  <2>1. SUFFICES ASSUME X # {} PROVE FALSE
    OBVIOUS
  <2>2. PICK i \in X : \A j \in X : i <= j
    BY <1>7, <2>1, Smallest
  <2>3. i # 0 /\ i \in 0..n /\ ~Shut(g[i]) /\ ~(Cardinality(g[i]) >= i)
    BY <1>5, <1>7, <2>2
  <2>4. i \in 1..n
    BY <1>1, <2>3
  <2> DEFINE T == g[i - 1]
             U == g[i]
             r == Cardinality(T)
             q == Cardinality(U)
  <2>5. Shut(T) \/ r >= i - 1
    BY <1>6, <2>2, <2>4
  <2>6. U = Onwards(T) /\ T \subseteq U /\ IsFiniteSet(U) /\ r \in Nat /\ q \in Nat
    BY <1>4, <1>5, <1>6, <2>4
  <2>7. T # U /\ ~Shut(T)
    BY <2>3, <2>6
  <2>8. r <= q /\ r # q
    BY <2>6, <2>7, FS_Subset
  <2>9. i \in Nat /\ ~(q >= i)
    BY <2>3, <2>4, <1>7
  <2> HIDE DEF T, U, r, q, Shut
  <2> QED
    BY <2>5, <2>6, <2>7, <2>8, <2>9
<1>10. Shut(g[n])
  <2>1. CASE Cardinality(g[n]) >= n
    <3>1. g[n] = L
      BY <1>1, <1>5, <1>7, <2>1, FS_Subset
    <3>2. \A p \in L : After(p) \subseteq L
      BY AfterLive DEF L
    <3> QED
      BY <3>1, <3>2 DEF Onwards
  <2> QED
    BY <1>7, <1>9, <2>1
<1>11. \A p \in g[n] : After(p) \subseteq g[n]
  BY <1>10 DEF Onwards
<1> QED
  BY <1>3, <1>5, <1>7, <1>8, <1>11 DEF L, p0

\* So that each position is reached at its depth only.
LEMMA FlowBalanced ==
    ASSUME NEW D, blks \in Seq(CodeBlock), BlocksGraded(blks, D), NEW b \in 1..Len(D), D[b][1] = 0,
           \A c \in 1..Len(blks) : blks[c].next = NoBlock => Last(D[c]) = 1
    PROVE  Balanced(FlowFrom(b))
<1>1. FlowFrom(b) \subseteq Live(D)
  BY FlowFacts
<1>2. \A p, q \in FlowFrom(b) : p[1] = q[1] /\ p[2] = q[2] => p[3] = q[3]
  BY <1>1 DEF Live
<1>3. ASSUME NEW p \in FlowFrom(b)
      PROVE  IF p[2] <= Len(Code(p[1]))
             THEN p[3] >= Pops(Code(p[1])[p[2]]) + Looks(Code(p[1])[p[2]])
             ELSE blks[p[1]].next = 0 => p[3] = 1
  <2> DEFINE c == p[1]
             i == p[2]
             d == p[3]
  <2>1. c \in 1..Len(blks) /\ i \in 1..Len(D[c]) /\ d = D[c][i] /\ Len(D) = Len(blks) /\ i \in Nat
    BY <1>1 DEF Live, BlocksGraded
  <2>2. Len(Code(c)) \in Nat /\ Len(D[c]) = Len(Code(c)) + 1 /\ BlockGraded(blks[c], D[c], D)
    <3>1. Len(blks[c].code) \in Nat /\ Len(D[c]) = Len(blks[c].code) + 1
      BY <2>1, DepthsOf
    <3> QED
      BY <2>1, <3>1 DEF Code, BlocksGraded
  <2>3. CASE i <= Len(Code(c))
    <3>1. i \in 1..Len(Code(c))
      BY <2>1, <2>2, <2>3
    <3> QED
      BY <2>1, <2>2, <2>3, <3>1 DEF BlockGraded, Effect, Code
  <2>4. CASE ~(i <= Len(Code(c)))
    <3>1. i = Len(D[c])
      BY <2>1, <2>2, <2>4
    <3> QED
      BY <2>1, <2>4, <3>1 DEF Last, NoBlock
  <2> QED
    BY <2>3, <2>4
<1> QED
  BY <1>2, <1>3 DEF Balanced

-----------------------------------------------------------------------------
(* The virtual machine is where the flow leads.                            *)

\* A logic block begins with no object; one that has called nothing is there
\* still or has registers that were never set.
Begins(f, D) ==
    /\ f.eb # 0 => f.eb \in 1..Len(D) /\ D[f.eb][1] = 0
    /\ f.at = NoCall /\ f.sp = 0 => f.pc = 0

FramesBegin(fs, D) ==
    /\ \A x \in 1..Len(fs) : Begins(fs[x], D)
    /\ \A x \in 1..Len(fs) - 1 : fs[x].at # NoCall

\* The register p is on a path from c, or at the end of one.
Reached(c, p, d) == IF p.b = 0 THEN d = 1 ELSE <<p.b, p.i, d>> \in FlowFrom(c)

OnPath(D) == \E c \in 1..Len(D) : c = Top.eb /\ Reached(c, ip, Len(Stack))

TooDeep(D) == \E c \in 1..Len(D) : c = Top.eb /\ \E p \in FlowFrom(c) : p[3] > StackSize

Level(D) ==
    /\ Graded(D)
    /\ FramesBegin(frames, D)
    /\ mode = "run" /\ Len(frames) < base => Begins(kept, D)
    /\ mode \in {"idle", "run"} => todo = <<>>
    /\ mode = "visit" => Top.eb # 0
    /\ mode = "run" /\ Top.at = NoCall => OnPath(D)
    /\ mode = "fatal" /\ Top.at = NoCall => TooDeep(D)

SafeAndLevel == \E E, D : Sound(E) /\ Level(D)

LEMMA FlowStays ==
    ASSUME blks' = blks
    PROVE  \A b : FlowFrom(b)' = FlowFrom(b)
  BY DEF FlowFrom, Positions, Onwards, After, Code

LEMMA GradedStays ==
    ASSUME UNCHANGED gen, NEW D, Graded(D)
    PROVE  Graded(D)'
<1>1. blks' = blks /\ todo' = todo /\ fns' = fns /\ cb' = cb
  BY DEF gen
<1>2. Chain(todo, Here(D), D)'
  BY <1>1 DEF Graded, Here
<1>3. OpenSound(D)'
  BY <1>1 DEF Graded, OpenSound, Apart, OpenSet
<1> QED
  BY <1>1, <1>2, <1>3 DEF Graded

\* A sequence of blocks with another on top.
LEMMA TopBegins ==
    ASSUME NEW D, NEW fs, IsSeq(fs), Len(fs) >= 1, FramesBegin(fs, D), NEW g, Begins(g, D)
    PROVE  /\ FramesBegin([fs EXCEPT ![Len(fs)] = g], D)
           /\ Len([fs EXCEPT ![Len(fs)] = g]) = Len(fs)
           /\ Last([fs EXCEPT ![Len(fs)] = g]) = g
<1>1. Len(fs) \in Nat \ {0} /\ Len(fs) \in 1..Len(fs)
  BY IsSeqFacts
<1> DEFINE gs == [fs EXCEPT ![Len(fs)] = g]
<1>2. /\ IsSeq(gs) /\ Len(gs) = Len(fs)
      /\ \A i \in 1..Len(fs) : gs[i] = IF i = Len(fs) THEN g ELSE fs[i]
  BY <1>1, ExceptIs
<1> HIDE DEF gs
<1>3. FramesBegin(gs, D) /\ Last(gs) = g
  BY <1>1, <1>2 DEF FramesBegin, Last
<1> QED
  BY <1>2, <1>3 DEF gs

LEMMA ReplacedBegins ==
    ASSUME NEW D, NEW fs, IsSeq(fs), Len(fs) >= 1, FramesBegin(fs, D),
           NEW m \in 0..Len(fs) - 1, NEW g, Begins(g, D)
    PROVE  /\ FramesBegin(Append(SubSeq(fs, 1, m), g), D) /\ IsSeq(Append(SubSeq(fs, 1, m), g))
           /\ Len(Append(SubSeq(fs, 1, m), g)) = m + 1 /\ Last(Append(SubSeq(fs, 1, m), g)) = g
<1> DEFINE s == SubSeq(fs, 1, m)
           t == Append(s, g)
<1>1. Len(fs) \in Nat \ {0} /\ m \in 0..Len(fs) /\ m \in Nat /\ 1 \in Nat \ {0} /\ 1 <= m + 1
  BY IsSeqFacts
<1>2. IsSeq(s) /\ Len(s) = m + 1 - 1 /\ \A i \in 1..m + 1 - 1 : s[i] = fs[1 + i - 1]
  BY <1>1, SubSeqIs
<1> HIDE DEF s
<1>3. IsSeq(s) /\ Len(s) = m /\ \A i \in 1..m : s[i] = fs[i]
  BY <1>1, <1>2
<1>4. IsSeq(t) /\ Len(t) = m + 1 /\ t[m + 1] = g /\ \A i \in 1..m : t[i] = s[i]
  BY <1>3, AppendIs
<1> HIDE DEF t
<1>5. \A i \in 1..m : Begins(t[i], D) /\ t[i].at # NoCall
  <2>1. \A i \in 1..m : i \in 1..Len(fs) /\ i \in 1..Len(fs) - 1
    BY <1>1
  <2> QED
    BY <1>3, <1>4, <2>1 DEF FramesBegin
<1>6. FramesBegin(t, D) /\ Last(t) = g
  BY <1>1, <1>4, <1>5 DEF FramesBegin, Last
<1> QED
  BY <1>4, <1>6 DEF s, t

LEMMA CalledBegins ==
    ASSUME NEW D, NEW fs, IsSeq(fs), Len(fs) >= 1, FramesBegin(fs, D), Last(fs).at # NoCall,
           NEW g, Begins(g, D)
    PROVE  FramesBegin(fs \o <<g>>, D) /\ Len(fs \o <<g>>) = Len(fs) + 1 /\ Last(fs \o <<g>>) = g
<1> DEFINE t == fs \o <<g>>
<1>1. Len(fs) \in Nat \ {0}
  BY IsSeqFacts
<1>2. IsSeq(<<g>>) /\ Len(<<g>>) = 1 /\ <<g>>[1] = g
  BY OneIs
<1>3. /\ IsSeq(t) /\ Len(t) = Len(fs) + 1
      /\ \A i \in 1..Len(fs) : t[i] = fs[i]
      /\ t[Len(fs) + 1] = g
  BY <1>1, <1>2, ConcatIs
<1> HIDE DEF t
<1>4. \A i \in 1..Len(fs) : Begins(t[i], D) /\ t[i].at # NoCall
  BY <1>1, <1>3 DEF FramesBegin, Last
<1>5. FramesBegin(t, D) /\ Last(t) = g
  BY <1>1, <1>3, <1>4 DEF FramesBegin, Last
<1> QED
  BY <1>3, <1>5 DEF t

\* A step of eval that changes the block on top, or only where it is in it.
LEMMA LevelTop ==
    ASSUME NEW E, Sound(E), NEW D, Level(D), mode = "run", NEW g, Begins(g, D),
           frames' = [frames EXCEPT ![Len(frames)] = g],
           UNCHANGED <<mode, base, kept, gen>>,
           g.at = NoCall => \E c \in 1..Len(D) : c = g.eb /\ Reached(c, ip', Len(g.stk))
    PROVE  Level(D)'
<1>1. IsSeq(frames) /\ Len(frames) >= 1 /\ FramesBegin(frames, D)
  BY DEF Sound, FramesFit, Level
<1>2. FramesBegin(frames', D) /\ Len(frames') = Len(frames) /\ Last(frames') = g
  BY <1>1, TopBegins
<1>3. Graded(D)'
  BY GradedStays DEF Level
<1>4. mode' = "run" /\ todo' = <<>>
  BY DEF Level, gen
<1>5. (mode = "run" /\ Top.at = NoCall => OnPath(D))'
  <2>1. Top' = g /\ Stack' = g.stk
    BY <1>2 DEF Top, Stack
  <2>2. \A c : FlowFrom(c)' = FlowFrom(c)
    BY FlowStays DEF gen
  <2> QED
    BY <2>1, <2>2 DEF OnPath, Reached
<1>6. (mode = "run" /\ Len(frames) < base => Begins(kept, D))'
  BY <1>2 DEF Level
<1> QED
  BY <1>2, <1>3, <1>4, <1>5, <1>6 DEF Level

\* A step that stops eval.
LEMMA LevelStop ==
    ASSUME NEW D, Level(D), mode = "run", mode' \notin {"run", "visit"},
           UNCHANGED <<frames, gen>>, mode' = "fatal" /\ Top.at = NoCall => TooDeep(D)
    PROVE  Level(D)'
<1>1. Graded(D)' /\ FramesBegin(frames', D) /\ todo' = <<>>
  BY GradedStays DEF Level, gen
<1>2. (mode = "fatal" /\ Top.at = NoCall => TooDeep(D))'
  <2>1. Top' = Top
    BY DEF Top
  <2>2. \A c : FlowFrom(c)' = FlowFrom(c)
    BY FlowStays DEF gen
  <2> QED
    BY <2>1, <2>2 DEF TooDeep
<1> QED
  BY <1>1, <1>2 DEF Level

LEMMA LevelQuit ==
    ASSUME NEW D, Level(D), mode = "run", QuitVM
    PROVE  Level(D)'
  BY LevelStop DEF QuitVM, Still

LEMMA LevelDie ==
    ASSUME NEW D, Level(D), mode = "run", NEW how, how \in {"aborted", "crashed"}, Die(how)
    PROVE  Level(D)'
  BY LevelStop DEF Die, Still

LEMMA LevelFatal ==
    ASSUME NEW D, Level(D), mode = "run", Die("fatal"), Top.at = NoCall => TooDeep(D)
    PROVE  Level(D)'
  BY LevelStop DEF Die, Still

\* The paths from a beginning: they are closed, and at each point of one the
\* operands are there.
LEMMA Paths ==
    ASSUME NEW E, Compiled(E), NEW D, Graded(D), NEW c \in 1..Len(D), D[c][1] = 0
    PROVE  /\ <<c, 1, 0>> \in FlowFrom(c)
           /\ FlowFrom(c) \subseteq Live(D)
           /\ \A p \in FlowFrom(c) : After(p) \subseteq FlowFrom(c)
<1>1. blks \in Seq(CodeBlock) /\ BlocksGraded(blks, D)
  BY DEF Compiled, Made, BlocksFit, Graded
<1> QED
  BY <1>1, FlowFacts

\* The instruction at a point, and where it leads.
LEMMA AfterIns ==
    ASSUME NEW E, Sound(E), Running
    PROVE  /\ Ins.op # "JUMP" =>
                  <<ip.b, ip.i + 1, Len(Stack) - Pops(Ins) + Pushes(Ins)>> \in After(<<ip.b, ip.i, Len(Stack)>>)
           /\ Ins.op \in Jumping =>
                  <<Ins.to, 1, Len(Stack) - Pops(Ins) + Pushes(Ins)>> \in After(<<ip.b, ip.i, Len(Stack)>>)
<1> DEFINE p == <<ip.b, ip.i, Len(Stack)>>
           b == ip.b
           i == ip.i
           d == Len(Stack)
<1>1. p[1] = b /\ p[2] = i /\ p[3] = d
  OBVIOUS
<1>2. ~(i > Len(Code(b))) /\ Ins = Code(b)[i]
  <2>1. b \in 1..Len(blks) /\ blks \in Seq(CodeBlock) /\ i \in Nat
    BY InsFits DEF BlocksFit
  <2>2. Len(Code(b)) \in Nat
    <3>1. blks[b] \in CodeBlock
      BY <2>1, ElementOfSeq
    <3>2. blks[b].code \in Seq(Instruction)
      BY <3>1 DEF CodeBlock
    <3> QED
      BY <3>2, LenProperties DEF Code
  <2> QED
    BY <2>1, <2>2 DEF Running, Ins
<1> HIDE DEF p, b, i, d
<1>3. /\ Ins.op # "JUMP" => <<b, i + 1, d - Pops(Ins) + Pushes(Ins)>> \in After(p)
      /\ Ins.op \in Jumping => <<Ins.to, 1, d - Pops(Ins) + Pushes(Ins)>> \in After(p)
  BY <1>1, <1>2 DEF After, Jumping
<1> QED
  BY <1>3 DEF p, b, i, d

\* Past the last instruction of a block the path goes on in the next, or it is
\* at its end, and there with one object.
LEMMA LandOnPath ==
    ASSUME NEW E, Compiled(E), NEW D, Graded(D), todo = <<>>, NEW c \in 1..Len(D), D[c][1] = 0,
           NEW b, NEW i, NEW d, <<b, i, d>> \in FlowFrom(c)
    PROVE  Reached(c, Land(b, i), d)
<1> DEFINE p == <<b, i, d>>
           q == <<blks[b].next, 1, d>>
<1>1. p[1] = b /\ p[2] = i /\ p[3] = d
  OBVIOUS
<1>2. p \in Live(D) /\ p \in FlowFrom(c) /\ \A r \in FlowFrom(c) : After(r) \subseteq FlowFrom(c)
  BY Paths
<1> HIDE DEF p
<1>3. b \in 1..Len(blks) /\ blks \in Seq(CodeBlock) /\ b # 0 /\ d = D[b][i]
  BY <1>1, <1>2 DEF Live, Compiled, Made, BlocksFit
<1>4. Len(Code(b)) \in Nat
  <2>1. blks[b] \in CodeBlock
    BY <1>3, ElementOfSeq
  <2> QED
    BY <2>1, LenProperties DEF CodeBlock, Code
<1>5. CASE i = Len(Code(b)) + 1
  <2>1. Land(b, i) = [b |-> blks[b].next, i |-> 1] /\ i > Len(Code(b))
    BY <1>4, <1>5 DEF Land
  <2>2. CASE blks[b].next # 0
    <3>1. q \in After(p)
      BY <1>1, <2>1, <2>2 DEF After
    <3> QED
      BY <1>2, <2>1, <2>2, <3>1 DEF Reached
  <2>3. CASE blks[b].next = 0
    <3>1. Last(D[b]) = 1
      BY <1>3, <2>3, AllEnd DEF NoBlock
    <3>2. BlockGraded(blks[b], D[b], D)
      BY <1>3 DEF Graded, BlocksGraded
    <3>3. d = 1
      BY <1>3, <1>5, <3>1, <3>2 DEF BlockGraded, Last, Code
    <3> QED
      BY <2>1, <2>3, <3>3 DEF Reached
  <2> QED
    BY <2>2, <2>3
<1>6. CASE i # Len(Code(b)) + 1
  <2>1. Land(b, i) = [b |-> b, i |-> i]
    BY <1>6 DEF Land
  <2> QED
    BY <1>2, <1>3, <2>1 DEF Reached, p
<1> QED
  BY <1>5, <1>6

\* The path on which the block on top is, if it has called nothing.
LEMMA TopOnPath ==
    ASSUME NEW E, Sound(E), NEW D, Level(D), Running, Top.at = NoCall
    PROVE  \E c \in 1..Len(D) :
               /\ c = Top.eb /\ D[c][1] = 0 /\ <<ip.b, ip.i, Len(Stack)>> \in FlowFrom(c)
               /\ After(<<ip.b, ip.i, Len(Stack)>>) \subseteq FlowFrom(c)
               /\ Len(Stack) >= Pops(Ins) + Looks(Ins)
<1>1. PICK c \in 1..Len(D) : c = Top.eb /\ <<ip.b, ip.i, Len(Stack)>> \in FlowFrom(c)
  BY DEF Level, OnPath, Running, Reached
<1>2. D[c][1] = 0
  <2>1. Begins(Top, D)
    <3>1. Top = frames[Len(frames)] /\ Len(frames) \in 1..Len(frames)
      BY TopFits DEF Sound
    <3> QED
      BY <3>1 DEF Level, FramesBegin
  <2>2. D \in Seq(Seq(Int))
    BY DEF Level, Graded, BlocksGraded
  <2>3. c # 0
    OBVIOUS
  <2> QED
    BY <1>1, <2>1, <2>3 DEF Begins
<1>3. Graded(D) /\ Compiled(E)
  BY DEF Level, Sound
<1>4. After(<<ip.b, ip.i, Len(Stack)>>) \subseteq FlowFrom(c) /\ <<ip.b, ip.i, Len(Stack)>> \in Live(D)
  BY <1>1, <1>2, <1>3, Paths
<1>5. Len(Stack) >= Pops(Ins) + Looks(Ins)
  <2> DEFINE b == ip.b
             i == ip.i
             d == Len(Stack)
  <2>1. b \in 1..Len(blks) /\ i \in 1..Len(D[b]) /\ d = D[b][i]
    BY <1>4 DEF Live
  <2>2. BlockGraded(blks[b], D[b], D)
    BY <1>3, <2>1 DEF Graded, BlocksGraded
  <2>3. i \in 1..Len(blks[b].code) /\ Ins = blks[b].code[i]
    <3>1. i \in Nat \ {0} /\ i <= Len(blks[b].code) /\ blks \in Seq(CodeBlock)
      BY InsFits DEF Running, Code, BlocksFit
    <3>2. blks[b] \in CodeBlock
      BY <2>1, <3>1, ElementOfSeq
    <3>3. Len(blks[b].code) \in Nat
      BY <3>2, LenProperties DEF CodeBlock
    <3> QED
      BY <3>1, <3>3 DEF Ins, Code
  <2> HIDE DEF b, i, d
  <2>4. Effect(Ins, d, D[b][i + 1], D)
    BY <2>1, <2>2, <2>3 DEF BlockGraded
  <2> QED
    BY <2>4 DEF Effect, d
<1> QED
  BY <1>1, <1>2, <1>4, <1>5

LEMMA LevelGoto ==
    ASSUME NEW E, Sound(E), NEW D, Level(D), Running, NEW b, NEW i, NEW s, Goto(b, i, s),
           <<b, i, Len(s)>> \in After(<<ip.b, ip.i, Len(Stack)>>)
    PROVE  Level(D)'
<1> DEFINE g == [Top EXCEPT !.stk = s]
<1>1. FrameFits(Top, E) /\ Top = frames[Len(frames)] /\ Len(frames) \in 1..Len(frames)
  BY TopFits DEF Sound
<1>2. /\ frames' = [frames EXCEPT ![Len(frames)] = g]
      /\ ip' = Land(b, i) /\ UNCHANGED <<mode, base, kept, gen>> /\ mode = "run"
  BY <1>1 DEF Goto, Still, Running
<1>3. Begins(Top, D)
  BY <1>1 DEF Level, FramesBegin
<1>4. Top.at = NoCall => \E c \in 1..Len(D) : c = Top.eb /\ Reached(c, ip', Len(s))
  <2> SUFFICES ASSUME Top.at = NoCall
               PROVE  \E c \in 1..Len(D) : c = Top.eb /\ Reached(c, ip', Len(s))
    OBVIOUS
  <2>1. PICK c \in 1..Len(D) :
               /\ c = Top.eb /\ D[c][1] = 0
               /\ After(<<ip.b, ip.i, Len(Stack)>>) \subseteq FlowFrom(c)
    BY TopOnPath
  <2>2. <<b, i, Len(s)>> \in FlowFrom(c)
    BY <2>1
  <2>3. Graded(D) /\ Compiled(E) /\ todo = <<>>
    BY <1>2 DEF Level, Sound
  <2>4. Reached(c, ip', Len(s))
    BY <1>2, <2>1, <2>2, <2>3, LandOnPath
  <2> QED
    BY <2>1, <2>4
<1> HIDE DEF Top
<1>5. g.stk = s /\ g.eb = Top.eb /\ g.at = Top.at /\ g.sp = Top.sp /\ g.pc = Top.pc
  BY <1>1 DEF FrameFits, Frame
<1> HIDE DEF g
<1>6. Begins(g, D)
  BY <1>3, <1>5 DEF Begins
<1>7. g.at = NoCall => \E c \in 1..Len(D) : c = g.eb /\ Reached(c, ip', Len(g.stk))
  BY <1>4, <1>5
<1> QED
  BY <1>2, <1>6, <1>7, LevelTop

LEMMA LevelContinue ==
    ASSUME NEW E, Sound(E), NEW D, Level(D), Running, Ins.op # "JUMP",
           NEW s, Continue(s), Len(s) = Len(Stack) - Pops(Ins) + Pushes(Ins)
    PROVE  Level(D)'
<1>1. <<ip.b, ip.i + 1, Len(s)>> \in After(<<ip.b, ip.i, Len(Stack)>>)
  BY AfterIns
<1> QED
  BY <1>1, LevelGoto DEF Continue

LEMMA LevelPush ==
    ASSUME NEW E, Sound(E), NEW D, Level(D), Running, Ins.op # "JUMP", Pushes(Ins) = 1,
           NEW s, IsSeq(s), Len(s) = Len(Stack) - Pops(Ins), NEW v, PushAndContinue(s, v)
    PROVE  Level(D)'
<1>1. Len(s) \in Nat /\ mode = "run"
  BY IsSeqFacts DEF Running
<1>2. CASE Len(s) < StackSize
  <2>1. Len(Append(s, v)) = Len(s) + 1
    BY AppendIs
  <2>2. Continue(Append(s, v))
    BY <1>2 DEF PushAndContinue
  <2> DEFINE t == Append(s, v)
  <2> HIDE DEF t
  <2>3. Len(t) = Len(Stack) - Pops(Ins) + Pushes(Ins)
    BY <2>1 DEF t
  <2> QED
    BY <2>2, <2>3, LevelContinue DEF t
<1>3. CASE ~(Len(s) < StackSize)
  <2>1. ASSUME Top.at = NoCall PROVE TooDeep(D)
    <3>1. PICK c \in 1..Len(D) :
                 c = Top.eb /\ After(<<ip.b, ip.i, Len(Stack)>>) \subseteq FlowFrom(c)
      BY <2>1, TopOnPath
    <3> DEFINE d == Len(Stack) - Pops(Ins) + Pushes(Ins)
    <3>2. d > StackSize
      BY <1>1, <1>3, StackSizeAssumption
    <3> HIDE DEF d
    <3>3. <<ip.b, ip.i + 1, d>> \in After(<<ip.b, ip.i, Len(Stack)>>)
      BY AfterIns DEF d
    <3>4. <<ip.b, ip.i + 1, d>>[3] > StackSize
      BY <3>2
    <3>5. \E p \in FlowFrom(c) : p[3] > StackSize
      BY <3>1, <3>3, <3>4
    <3> QED
      BY <3>1, <3>5 DEF TooDeep
  <2> QED
    BY <1>1, <1>3, <2>1, LevelFatal DEF PushAndContinue
<1> QED
  BY <1>2, <1>3

LEMMA StackLevel ==
    ASSUME NEW E, Sound(E), NEW D, Level(D), Push \/ Dup \/ PopTop \/ PrintTop
    PROVE  Level(D)'
<1>1. Running /\ Ins.op \in {"PUSH", "DUP", "POP", "PRINT"} /\ Len(Stack) >= Pops(Ins) + Looks(Ins)
  BY DEF Push, Dup, PopTop, PrintTop, Exec
<1>2. IsSeq(Stack) /\ Len(Stack) \in Nat
  BY TopFits DEF Sound
<1>3. Ins.op # "JUMP" /\ mode = "run"
  BY <1>1 DEF Running
<1>4. CASE Push \/ Dup
  <2>1. Ins.op \in {"PUSH", "DUP"} /\ \E v : PushAndContinue(Stack, v)
    BY <1>4 DEF Push, Dup, Exec
  <2>2. Pops(Ins) = 0 /\ Pushes(Ins) = 1
    BY <2>1 DEF Pops, Pushes
  <2> QED
    BY <1>1, <1>2, <1>3, <2>1, <2>2, LevelPush
<1>5. CASE PopTop \/ PrintTop
  <2>1. Ins.op \in {"POP", "PRINT"} /\ Continue(Below(1))
    BY <1>5 DEF PopTop, PrintTop, Exec
  <2>2. Pops(Ins) = 1 /\ Pushes(Ins) = 0 /\ Looks(Ins) = 0
    BY <2>1 DEF Pops, Pushes, Looks
  <2>3. Len(Below(1)) = Len(Stack) - 1
    BY <1>1, <1>2, <2>2, Operands
  <2> DEFINE s == Below(1)
  <2> HIDE DEF s
  <2>4. Len(s) = Len(Stack) - Pops(Ins) + Pushes(Ins)
    BY <1>2, <2>2, <2>3 DEF s
  <2> QED
    BY <1>1, <1>3, <2>1, <2>4, LevelContinue DEF s
<1> QED
  BY <1>4, <1>5

LEMMA LoadLevel ==
    ASSUME NEW E, Sound(E), NEW D, Level(D), LoadName
    PROVE  Level(D)'
<1>1. Running /\ Ins.op = "LOAD_NAME" /\ (QuitVM \/ \E v : PushAndContinue(Stack, v))
  BY DEF LoadName, Exec
<1>2. Pops(Ins) = 0 /\ Pushes(Ins) = 1
  BY <1>1 DEF Pops, Pushes
<1>3. IsSeq(Stack) /\ Len(Stack) \in Nat /\ mode = "run"
  BY <1>1, TopFits DEF Sound, Running
<1> QED
  BY <1>1, <1>2, <1>3, LevelPush, LevelQuit

LEMMA StoreLevel ==
    ASSUME NEW E, Sound(E), NEW D, Level(D), StoreName
    PROVE  Level(D)'
<1> DEFINE g == IF Top.own THEN [Top EXCEPT !.locals = Put(@, Const(Ins.arg).v, FromTop(1))] ELSE Top
<1>1. Running /\ Ins.op = "STORE_NAME"
  BY DEF StoreName, Exec
<1>2. /\ frames' = IF Top.own
                   THEN [frames EXCEPT ![Len(frames)].locals = Put(@, Const(Ins.arg).v, FromTop(1))]
                   ELSE frames
      /\ ip' = Land(ip.b, ip.i + 1) /\ UNCHANGED <<mode, base, kept, gen>> /\ mode = "run"
  BY <1>1 DEF StoreName, Still, Running
<1>3. FrameFits(Top, E) /\ Top = frames[Len(frames)] /\ Len(frames) \in 1..Len(frames) /\ IsSeq(frames)
      /\ Len(Stack) \in Nat /\ Stack = Top.stk
  BY TopFits DEF Sound, FramesFit, Stack
<1>4. frames' = [frames EXCEPT ![Len(frames)] = g]
  <2>1. [frames EXCEPT ![Len(frames)] = frames[Len(frames)]] = frames
    <3>1. frames \in [DOMAIN frames -> {frames[x] : x \in DOMAIN frames}]
      BY <1>3, LenProperties DEF IsSeq
    <3> QED
      BY <3>1
  <2> QED
    BY <1>2, <1>3, <2>1
<1>5. Pops(Ins) = 0 /\ Pushes(Ins) = 0
  BY <1>1 DEF Pops, Pushes
<1>6. Top.at = NoCall => \E c \in 1..Len(D) : c = Top.eb /\ Reached(c, ip', Len(Stack))
  <2> SUFFICES ASSUME Top.at = NoCall
               PROVE  \E c \in 1..Len(D) : c = Top.eb /\ Reached(c, ip', Len(Stack))
    OBVIOUS
  <2>1. PICK c \in 1..Len(D) :
               /\ c = Top.eb /\ D[c][1] = 0
               /\ After(<<ip.b, ip.i, Len(Stack)>>) \subseteq FlowFrom(c)
    BY <1>1, TopOnPath
  <2>2. <<ip.b, ip.i + 1, Len(Stack)>> \in FlowFrom(c)
    <3>1. Len(Stack) - Pops(Ins) + Pushes(Ins) = Len(Stack)
      BY <1>3, <1>5
    <3>2. <<ip.b, ip.i + 1, Len(Stack) - Pops(Ins) + Pushes(Ins)>> \in After(<<ip.b, ip.i, Len(Stack)>>)
      BY <1>1, AfterIns
    <3> QED
      BY <2>1, <3>1, <3>2
  <2>3. Graded(D) /\ Compiled(E) /\ todo = <<>>
    BY <1>2 DEF Level, Sound
  <2>4. Reached(c, ip', Len(Stack))
    BY <1>2, <2>1, <2>2, <2>3, LandOnPath
  <2> QED
    BY <2>1, <2>4
<1>7. Begins(Top, D)
  BY <1>3 DEF Level, FramesBegin
<1> DEFINE m == Put(Top.locals, Const(Ins.arg).v, FromTop(1))
<1>8. g = IF Top.own THEN [Top EXCEPT !.locals = m] ELSE Top
  BY <1>3 DEF FrameFits, Frame
<1> HIDE DEF g, m, Top
<1>9. g.stk = Stack /\ g.eb = Top.eb /\ g.at = Top.at /\ g.sp = Top.sp /\ g.pc = Top.pc
  BY <1>3, <1>8 DEF FrameFits, Frame
<1>10. Begins(g, D)
  BY <1>7, <1>9 DEF Begins
<1>11. g.at = NoCall => \E c \in 1..Len(D) : c = g.eb /\ Reached(c, ip', Len(g.stk))
  BY <1>6, <1>9
<1> QED
  BY <1>2, <1>4, <1>10, <1>11, LevelTop

LEMMA ArithLevel ==
    ASSUME NEW E, Sound(E), NEW D, Level(D), Arithmetic \/ Comparison
    PROVE  Level(D)'
<1>1. Running /\ Ins.op \in Binary /\ Len(Stack) >= Pops(Ins) + Looks(Ins)
      /\ (QuitVM \/ \E v : PushAndContinue(Below(2), v))
  BY DEF Arithmetic, Comparison, Exec, Binary
<1>2. Pops(Ins) = 2 /\ Pushes(Ins) = 1 /\ Looks(Ins) = 0 /\ Ins.op # "JUMP"
  BY <1>1 DEF Pops, Pushes, Looks, Binary
<1>3. Len(Stack) \in Nat /\ mode = "run"
  BY <1>1, TopFits DEF Sound, Running
<1>4. IsSeq(Below(2)) /\ Len(Below(2)) = Len(Stack) - 2
  <2>1. 2 \in 0..Len(Stack)
    BY <1>1, <1>2, <1>3
  <2> QED
    BY <2>1, Operands DEF Vals
<1> DEFINE s == Below(2)
<1> HIDE DEF s
<1>5. IsSeq(s) /\ Len(s) = Len(Stack) - Pops(Ins)
  BY <1>2, <1>4 DEF s
<1>6. CASE QuitVM
  BY <1>3, <1>6, LevelQuit
<1>7. CASE \E v : PushAndContinue(s, v)
  BY <1>1, <1>2, <1>5, <1>7, LevelPush
<1> QED
  BY <1>1, <1>6, <1>7 DEF s

LEMMA JumpLevel ==
    ASSUME NEW E, Sound(E), NEW D, Level(D), Jump \/ JumpTrue \/ JumpFalse
    PROVE  Level(D)'
<1>1. Running /\ Ins.op \in Jumping /\ Len(Stack) >= Pops(Ins) + Looks(Ins)
  BY DEF Jump, JumpTrue, JumpFalse, Exec, Jumping
<1>2. Len(Stack) \in Nat /\ mode = "run" /\ Pushes(Ins) = 0
  BY <1>1, TopFits DEF Sound, Running, Pushes, Jumping
<1>3. <<Ins.to, 1, Len(Stack) - Pops(Ins) + Pushes(Ins)>> \in After(<<ip.b, ip.i, Len(Stack)>>)
  BY <1>1, AfterIns
<1>4. CASE Jump
  <2>1. Goto(Ins.to, 1, Stack) /\ Ins.op = "JUMP"
    BY <1>4 DEF Jump, Exec
  <2>2. Len(Stack) - Pops(Ins) + Pushes(Ins) = Len(Stack)
    BY <1>2, <2>1 DEF Pops
  <2>3. <<Ins.to, 1, Len(Stack)>> \in After(<<ip.b, ip.i, Len(Stack)>>)
    BY <1>3, <2>2
  <2> QED
    BY <1>1, <2>1, <2>3, LevelGoto
<1>5. CASE JumpTrue \/ JumpFalse
  <2>1. Ins.op \in {"JUMP_TRUE", "JUMP_FALSE"}
    BY <1>5 DEF JumpTrue, JumpFalse, Exec
  <2>2. Pops(Ins) = 1 /\ Looks(Ins) = 0 /\ Ins.op # "JUMP"
    BY <2>1 DEF Pops, Looks
  <2>3. Len(Below(1)) = Len(Stack) - 1
    BY <1>1, <1>2, <2>2, Operands
  <2> DEFINE s == Below(1)
  <2>4. QuitVM \/ Goto(Ins.to, 1, s) \/ Continue(s)
    BY <1>5 DEF JumpTrue, JumpFalse
  <2> HIDE DEF s
  <2>5. Len(s) = Len(Stack) - Pops(Ins) + Pushes(Ins)
    BY <1>2, <2>2, <2>3 DEF s
  <2>6. <<Ins.to, 1, Len(s)>> \in After(<<ip.b, ip.i, Len(Stack)>>)
    BY <1>3, <2>5
  <2>7. CASE QuitVM
    BY <1>2, <2>7, LevelQuit
  <2>8. CASE Goto(Ins.to, 1, s)
    BY <1>1, <2>6, <2>8, LevelGoto
  <2>9. CASE Continue(s)
    BY <1>1, <2>2, <2>5, <2>9, LevelContinue
  <2> QED
    BY <2>4, <2>7, <2>8, <2>9
<1> QED
  BY <1>4, <1>5

\* With its operands there, an instruction does not find the stack empty.
LEMMA EmptyLevel ==
    ASSUME NEW E, Sound(E), NEW D, Level(D), StackEmpty
    PROVE  Level(D)'
<1>1. Running /\ Len(Stack) < Pops(Ins) + Looks(Ins) /\ (Die("fatal") \/ QuitVM) /\ mode = "run"
  BY DEF StackEmpty, Running
<1>2. Top.at # NoCall
  <2> SUFFICES ASSUME Top.at = NoCall PROVE FALSE
    OBVIOUS
  <2>1. Len(Stack) >= Pops(Ins) + Looks(Ins) /\ Len(Stack) \in Nat
    BY <1>1, TopOnPath, TopFits DEF Sound
  <2>2. Pops(Ins) \in Nat /\ Looks(Ins) \in {0, 1}
    BY <1>1, InsFits, PopsType DEF Fitting
  <2> QED
    BY <1>1, <2>1, <2>2
<1> QED
  BY <1>1, <1>2, LevelFatal, LevelQuit

LEMMA InvokeLevel ==
    ASSUME NEW E, Sound(E), NEW D, Level(D), Invoke
    PROVE  Level(D)'
<1> DEFINE n == Ins.arg
<1>1. Running /\ Ins.op = "INVOKE" /\ Len(Stack) >= n + 1 /\ n \in Nat /\ mode = "run" /\ ip.b # 0
  <2>1. Running /\ Ins.op = "INVOKE" /\ Len(Stack) >= Pops(Ins) + Looks(Ins)
    BY DEF Invoke, Exec
  <2>2. Ins \in Instruction
    BY <2>1, InsFits DEF Fitting
  <2>3. n \in Nat
    BY <2>1, <2>2 DEF Instruction, Plain, Binary, Jumping
  <2>4. Pops(Ins) = n + 1 /\ Looks(Ins) = 0
    BY <2>1 DEF Pops, Looks
  <2> QED
    BY <2>1, <2>3, <2>4 DEF Running
<1>2. CASE FromTop(1).t # "fn"
  BY <1>1, <1>2, LevelDie DEF Invoke
<1>3. CASE FromTop(1).t = "fn"
  <2> DEFINE f == fns[FromTop(1).v]
             given == SubSeq(Stack, Len(Stack) - n, Len(Stack) - 1)
             b == Below(n + 1)
             d == Len(Stack) - n - 1
             caller == [Top EXCEPT !.stk = b, !.pc = ip.i, !.sp = d, !.at = ip]
             callee == [eb |-> f.blk, cs |-> f.cs, pc |-> Garbage, sp |-> Garbage, at |-> NoCall,
                        stk |-> <<>>, own |-> TRUE, locals |-> Arguments(f, given)]
  <2>1. /\ frames' = Append(Front(frames), caller) \o <<callee>>
        /\ ip' = Land(f.blk, 1)
        /\ UNCHANGED <<mode, base, kept, gen>>
    BY <1>3 DEF Invoke, Still
  <2>2. f.blk \in 1..Len(D) /\ D[f.blk][1] = 0
    <3>1. Val(FromTop(1), E.n)
      <4>1. Len(Stack) \in Nat
        BY TopFits DEF Sound
      <4>2. 1 \in 0..Len(Stack)
        BY <1>1, <4>1
      <4> QED
        BY <4>2, Operands
    <3>2. FromTop(1).v \in 1..Len(fns) /\ Compiled(E) /\ Graded(D)
      BY <1>3, <3>1 DEF Val, Sound, Compiled, Made, Level
    <3>3. Extends(D, D, cb)
      BY <3>2, ExtendsSelf DEF Graded, BlocksGraded
    <3>4. fns[FromTop(1).v].blk \in 1..Len(blks) /\ D[fns[FromTop(1).v].blk][1] = 0
      BY <3>2, <3>3, FnsStart
    <3> QED
      BY <3>2, <3>4 DEF Graded, BlocksGraded
  <2>3. FrameFits(Top, E) /\ Top = frames[Len(frames)] /\ Len(frames) \in Nat \ {0} /\ Len(frames) >= 1
        /\ IsSeq(frames) /\ FramesBegin(frames, D)
    BY TopFits DEF Sound, FramesFit, Level
  <2>4. Begins(Top, D)
    BY <2>3 DEF FramesBegin
  <2> HIDE DEF Top, b, d, f
  <2>5. caller = [Top EXCEPT !.stk = b, !.pc = ip.i, !.sp = d, !.at = ip]
    OBVIOUS
  <2>6. Begins(caller, D) /\ caller.at # NoCall
    <3> HIDE DEF caller
    <3>1. caller = [eb |-> Top.eb, cs |-> Top.cs, pc |-> ip.i, sp |-> d, at |-> ip, stk |-> b,
                    own |-> Top.own, locals |-> Top.locals]
      BY <2>3, <2>5 DEF FrameFits, Frame
    <3> QED
      BY <1>1, <2>4, <3>1 DEF Begins, NoCall
  <2>7. Begins(callee, D) /\ callee.eb = f.blk /\ callee.stk = <<>> /\ callee.at = NoCall
    BY <2>2 DEF Begins, Garbage
  <2> HIDE DEF caller, callee
  <2> DEFINE fs == Append(SubSeq(frames, 1, Len(frames) - 1), caller)
  <2>8. FramesBegin(fs, D) /\ IsSeq(fs) /\ Len(fs) = Len(frames) /\ Last(fs).at # NoCall
    <3> DEFINE m == Len(frames) - 1
    <3>1. m \in 0..Len(frames) - 1 /\ m + 1 = Len(frames)
      BY <2>3
    <3> HIDE DEF m
    <3>2. /\ FramesBegin(Append(SubSeq(frames, 1, m), caller), D) /\ IsSeq(Append(SubSeq(frames, 1, m), caller))
          /\ Len(Append(SubSeq(frames, 1, m), caller)) = m + 1
          /\ Last(Append(SubSeq(frames, 1, m), caller)) = caller
      BY <2>3, <2>6, <3>1, ReplacedBegins
    <3> QED
      BY <2>6, <3>1, <3>2 DEF m
  <2>9. frames' = fs \o <<callee>>
    BY <2>1 DEF Front
  <2> HIDE DEF fs
  <2>12. FramesBegin(frames', D) /\ Len(frames') = Len(frames) + 1 /\ Last(frames') = callee
    <3>1. Len(fs) >= 1
      BY <2>3, <2>8
    <3> QED
      BY <2>7, <2>8, <2>9, <3>1, CalledBegins
  <2>13. (mode = "run" /\ Top.at = NoCall => OnPath(D))'
    <3>1. Top' = callee /\ Stack' = <<>> /\ Len(Stack') = 0
      BY <2>7, <2>12, EmptyIs DEF Top, Stack
    <3>2. \A c : FlowFrom(c)' = FlowFrom(c)
      BY <2>1, FlowStays DEF gen
    <3>3. Reached(f.blk, ip', 0)
      <4>1. Graded(D) /\ Compiled(E) /\ todo = <<>>
        BY <1>1 DEF Level, Sound
      <4>2. <<f.blk, 1, 0>> \in FlowFrom(f.blk)
        BY <2>2, <4>1, Paths
      <4> QED
        BY <2>1, <2>2, <4>1, <4>2, LandOnPath DEF f
    <3> QED
      BY <2>2, <2>7, <3>1, <3>2, <3>3 DEF OnPath, Reached
  <2>14. Graded(D)' /\ todo' = <<>> /\ mode' = "run"
    BY <1>1, <2>1, GradedStays DEF Level, gen
  <2>15. (mode = "run" /\ Len(frames) < base => Begins(kept, D))'
    <3>1. base \in Nat
      BY DEF Sound, RestFits
    <3> QED
      BY <1>1, <2>1, <2>3, <2>12, <3>1 DEF Level
  <2> QED
    BY <2>12, <2>13, <2>14, <2>15 DEF Level
<1> QED
  BY <1>2, <1>3

LEMMA ReturnLevel ==
    ASSUME NEW E, Sound(E), NEW D, Level(D), Return
    PROVE  Level(D)'
<1> DEFINE n == Len(frames)
           caller == frames[n - 1]
           s == Append(caller.stk, Stack[1])
           resumed == [caller EXCEPT !.stk = s]
           m == n - 2
<1>1. /\ mode = "run" /\ n > 1
      /\ kept' = IF n = base THEN Top ELSE kept
      /\ frames' = Append(SubSeq(frames, 1, m), resumed)
      /\ UNCHANGED <<mode, base, gen>>
  BY DEF Return, Ended
<1>2. /\ IsSeq(frames) /\ n >= 1 /\ n \in Nat \ {0} /\ FramesBegin(frames, D) /\ Top = frames[n]
      /\ base \in Nat /\ Begins(Top, D)
  <2>1. IsSeq(frames) /\ n >= 1 /\ n \in Nat \ {0} /\ FramesBegin(frames, D) /\ Top = frames[n] /\ base \in Nat
    BY TopFits DEF Sound, FramesFit, RestFits, Level
  <2>2. n \in 1..n
    BY <2>1
  <2> QED
    BY <2>1, <2>2 DEF FramesBegin
<1>3. m \in 0..n - 1 /\ m + 1 = n - 1 /\ n - 1 \in 1..n /\ n - 1 \in 1..n - 1
  BY <1>1, <1>2
<1>4. FrameFits(caller, E) /\ Begins(caller, D) /\ caller.at # NoCall
  BY <1>2, <1>3 DEF Sound, FramesFit, FramesBegin
<1> HIDE DEF s, caller, m
<1>5. resumed = [eb |-> caller.eb, cs |-> caller.cs, pc |-> caller.pc, sp |-> caller.sp, at |-> caller.at,
                 stk |-> s, own |-> caller.own, locals |-> caller.locals]
  BY <1>4 DEF FrameFits, Frame
<1> HIDE DEF resumed
<1>6. Begins(resumed, D) /\ resumed.at # NoCall
  BY <1>4, <1>5 DEF Begins
<1>8. FramesBegin(frames', D) /\ Len(frames') = n - 1 /\ Last(frames') = resumed
  BY <1>1, <1>2, <1>3, <1>6, ReplacedBegins
<1>9. Top'.at # NoCall
  BY <1>6, <1>8 DEF Top
<1>10. Graded(D)' /\ todo' = <<>> /\ mode' = "run"
  BY <1>1, GradedStays DEF Level, gen
<1>11. Len(frames') < base' => Begins(kept', D)
  <2>1. CASE n = base
    BY <1>1, <1>2, <2>1
  <2>2. CASE n < base
    BY <1>1, <1>2, <2>2 DEF Level
  <2>3. CASE n > base
    <3>1. base' = base
      BY <1>1
    <3> QED
      BY <1>2, <1>8, <2>3, <3>1
  <2> QED
    BY <1>2, <2>1, <2>2, <2>3
<1> QED
  BY <1>8, <1>9, <1>10, <1>11 DEF Level

LEMMA FinishLevel ==
    ASSUME NEW E, Sound(E), NEW D, Level(D), Finish
    PROVE  Level(D)'
<1> DEFINE f == IF base = 1 THEN Top ELSE kept
           g == [f EXCEPT !.stk = <<>>]
<1>1. /\ mode = "run" /\ Len(frames) = 1 /\ frames' = <<g>>
      /\ mode' = "idle" /\ UNCHANGED <<base, gen>>
  BY DEF Finish, Ended
<1>2. FrameFits(f, E) /\ Begins(f, D)
  <2>1. base \in Nat \ {0} /\ FrameFits(Top, E) /\ Top = frames[1]
    BY <1>1, TopFits DEF Sound, RestFits
  <2>2. base # 1 => Len(frames) < base
    BY <1>1, <2>1
  <2>3. Begins(Top, D)
    BY <1>1, <2>1 DEF Level, FramesBegin
  <2> QED
    BY <1>1, <2>1, <2>2, <2>3 DEF Sound, Level
<1> HIDE DEF f
<1>3. g = [eb |-> f.eb, cs |-> f.cs, pc |-> f.pc, sp |-> f.sp, at |-> f.at,
           stk |-> <<>>, own |-> f.own, locals |-> f.locals]
  BY <1>2 DEF FrameFits, Frame
<1> HIDE DEF g
<1>4. Begins(g, D)
  BY <1>2, <1>3 DEF Begins
<1>5. FramesBegin(frames', D)
  <2>1. Len(<<g>>) = 1 /\ <<g>>[1] = g
    BY OneIs
  <2> QED
    BY <1>1, <1>4, <2>1 DEF FramesBegin
<1>6. Graded(D)' /\ todo' = <<>>
  BY <1>1, GradedStays DEF Level, gen
<1> QED
  BY <1>1, <1>5, <1>6 DEF Level

LEMMA StartLevel ==
    ASSUME NEW E, Sound(E), NEW D, Level(D), StartEval
    PROVE  Level(D)'
<1>1. UNCHANGED <<kept, gen>> /\ mode = "visit" /\ todo = <<>>
  BY DEF StartEval
<1>2. Graded(D)' /\ todo' = <<>>
  BY <1>1, GradedStays DEF Level, gen
<1>3. /\ FrameFits(Top, E) /\ Top = frames[Len(frames)] /\ Len(frames) \in Nat \ {0} /\ Len(frames) >= 1
      /\ IsSeq(frames) /\ FramesBegin(frames, D) /\ Len(frames) \in 1..Len(frames)
  BY TopFits DEF Sound, FramesFit, Level
<1>4. Begins(Top, D) /\ Top.eb # 0
  BY <1>1, <1>3 DEF FramesBegin, Level
<1>5. CASE Top.sp # 0
  <2>1. mode' = "undefined" /\ UNCHANGED <<frames, ip, base>>
    BY <1>5 DEF StartEval
  <2> QED
    BY <1>2, <1>3, <2>1 DEF Level
<1>6. CASE Top.sp = 0
  <2> DEFINE g == [Top EXCEPT !.stk = <<>>]
  <2>1. /\ mode' = "run" /\ frames' = [frames EXCEPT ![Len(frames)] = g]
        /\ ip' = [b |-> Top.eb, i |-> Top.pc + 1] /\ base' = Len(frames)
    BY <1>3, <1>6 DEF StartEval
  <2> HIDE DEF Top
  <2>2. g = [eb |-> Top.eb, cs |-> Top.cs, pc |-> Top.pc, sp |-> Top.sp, at |-> Top.at,
             stk |-> <<>>, own |-> Top.own, locals |-> Top.locals]
    BY <1>3 DEF FrameFits, Frame
  <2> HIDE DEF g
  <2>3. Begins(g, D) /\ g.eb = Top.eb /\ g.at = Top.at /\ g.stk = <<>>
    BY <1>4, <2>2 DEF Begins
  <2>4. FramesBegin(frames', D) /\ Len(frames') = Len(frames) /\ Last(frames') = g
    BY <1>3, <2>1, <2>3, TopBegins
  <2>5. Top' = g /\ Stack' = <<>> /\ Len(Stack') = 0
    BY <2>3, <2>4, EmptyIs DEF Top, Stack
  <2>6. ASSUME Top.at = NoCall
        PROVE  \E c \in 1..Len(D) : c = Top.eb /\ Reached(c, ip', 0)
    <3>1. PICK c \in 1..Len(D) : c = Top.eb /\ D[c][1] = 0
      BY <1>4 DEF Begins
    <3>2. ip'.b = c /\ ip'.i = 1
      BY <1>4, <1>6, <2>1, <2>6, <3>1 DEF Begins
    <3>3. Graded(D) /\ Compiled(E)
      BY DEF Level, Sound
    <3>4. <<c, 1, 0>> \in FlowFrom(c)
      BY <3>1, <3>3, Paths
    <3> QED
      BY <3>1, <3>2, <3>4 DEF Reached
  <2>7. (mode = "run" /\ Top.at = NoCall => OnPath(D))'
    <3>1. \A c : FlowFrom(c)' = FlowFrom(c)
      BY <1>1, FlowStays DEF gen
    <3> QED
      BY <2>3, <2>5, <2>6, <3>1 DEF OnPath, Reached
  <2>8. ~(Len(frames') < base')
    BY <1>3, <2>1, <2>4
  <2> QED
    BY <1>2, <2>1, <2>4, <2>7, <2>8 DEF Level
<1> QED
  BY <1>5, <1>6

LEMMA FramesExtend ==
    ASSUME NEW D, NEW G, NEW c, Extends(D, G, c), NEW fs, FramesBegin(fs, D)
    PROVE  FramesBegin(fs, G)
<1>1. ASSUME NEW f, Begins(f, D) PROVE Begins(f, G)
  BY <1>1, ExtendsIn DEF Begins
<1> QED
  BY <1>1 DEF FramesBegin

LEMMA CompileLevel ==
    ASSUME NEW E, Sound(E), NEW D, Level(D), Compile
    PROVE  \E G : Level(G)'
<1>1. /\ mode = "idle" /\ mode' = "visit" /\ k < Len(session) /\ Generate(session[k + 1], Top.cs)
      /\ frames' = [frames EXCEPT ![Len(frames)].eb = FirstNew]
  BY DEF Compile
<1>2. session[k + 1] # <<>>
  <2>1. session \in Seq(Seq(Stms) \ {<<>>}) /\ k \in Nat /\ Len(session) \in Nat
    BY SessionsAssumption, LenProperties DEF Sound, RestFits
  <2>2. k + 1 \in 1..Len(session)
    <3>1. k < Len(session)
      BY <1>1
    <3> QED
      BY <2>1, <3>1
  <2>3. session[k + 1] \in Seq(Stms) \ {<<>>}
    BY <2>1, <2>2, ElementOfSeq
  <2> QED
    BY <2>3
<1>3. PICK G : /\ Graded(G)' /\ Extends(D, G, cb)
               /\ FirstNew \in 1..Len(G) /\ G[FirstNew][1] = 0
  <2>1. Compiled(E) /\ Graded(D) /\ todo = <<>>
    BY <1>1 DEF Sound, Level
  <2> QED
    BY <1>1, <1>2, <2>1, GenerateGraded
<1>4. /\ FrameFits(Top, E) /\ Top = frames[Len(frames)] /\ Len(frames) >= 1 /\ IsSeq(frames)
      /\ Len(frames) \in 1..Len(frames)
  BY TopFits DEF Sound, FramesFit
<1>5. FramesBegin(frames, G) /\ Begins(Top, G)
  <2>1. FramesBegin(frames, G)
    BY <1>3, FramesExtend DEF Level
  <2> QED
    BY <1>4, <2>1 DEF FramesBegin
<1> DEFINE b == FirstNew
           g == [Top EXCEPT !.eb = b]
<1>6. frames' = [frames EXCEPT ![Len(frames)] = g]
  BY <1>1, <1>4
<1>7. b \in 1..Len(G) /\ G[b][1] = 0 /\ b # 0
  BY <1>3
<1> HIDE DEF Top, b
<1>8. g = [eb |-> b, cs |-> Top.cs, pc |-> Top.pc, sp |-> Top.sp, at |-> Top.at, stk |-> Top.stk,
           own |-> Top.own, locals |-> Top.locals]
  BY <1>4 DEF FrameFits, Frame
<1> HIDE DEF g
<1>9. Begins(g, G) /\ g.eb # 0
  BY <1>5, <1>7, <1>8 DEF Begins
<1>10. FramesBegin(frames', G) /\ Last(frames') = g
  BY <1>4, <1>5, <1>6, <1>9, TopBegins
<1>11. Level(G)'
  BY <1>1, <1>3, <1>9, <1>10 DEF Level, Top
<1> QED
  BY <1>11

LEMMA VisitLevel ==
    ASSUME NEW E, Sound(E), NEW D, Level(D), NoEmptyBody, VisitTree
    PROVE  \E G : Level(G)'
<1>1. mode = "visit" /\ Visit /\ mode' \in {"visit", "aborted"} /\ frames' = frames
  BY DEF VisitTree, run
<1>2. PICK G : Graded(G)' /\ Extends(D, G, cb)
  BY <1>1, VisitGraded DEF Sound, Level
<1>3. FramesBegin(frames', G)
  BY <1>1, <1>2, FramesExtend DEF Level
<1>4. Top' = Top /\ Top.eb # 0
  BY <1>1 DEF Level, Top
<1>5. Level(G)'
  BY <1>1, <1>2, <1>3, <1>4 DEF Level
<1> QED
  BY <1>5

LEMMA LevelInit == Init => \E D : Level(D)
<1> SUFFICES ASSUME Init PROVE Level(<<>>)
  BY Zenon
<1>1. /\ blks = <<>> /\ fns = <<>> /\ todo = <<>> /\ cb = NoBlock
      /\ mode = "idle" /\ frames = <<MainFrame>>
  BY DEF Init, GenInit
<1>2. IsSeq(<<>>) /\ Len(<<>>) = 0
  BY EmptyIs
<1>3. BlocksGraded(blks, <<>>)
  <2>1. <<>> \in Seq(Seq(Int))
    BY EmptySeq
  <2> QED
    BY <1>1, <1>2, <2>1 DEF BlocksGraded
<1>4. Chain(todo, Here(<<>>), <<>>)
  <2>1. Here(<<>>) = 1 /\ 1 \in Int
    BY <1>1 DEF Here
  <2> QED
    BY <1>1, <2>1, BringsNothing DEF Chain
<1>5. OpenSound(<<>>)
  <2>1. OpenSet(todo) = {} /\ Apart(todo)
    BY <1>1, <1>2 DEF OpenSet, Apart
  <2> QED
    BY <1>1, <1>2, <2>1 DEF OpenSound
<1>6. Graded(<<>>)
  BY <1>1, <1>2, <1>3, <1>4, <1>5 DEF Graded
<1>7. FramesBegin(frames, <<>>)
  <2>1. Begins(MainFrame, <<>>)
    BY DEF MainFrame, Begins
  <2> HIDE DEF MainFrame
  <2>2. Len(<<MainFrame>>) = 1 /\ <<MainFrame>>[1] = MainFrame
    BY OneIs
  <2> QED
    BY <1>1, <2>1, <2>2 DEF FramesBegin
<1> QED
  BY <1>1, <1>6, <1>7 DEF Level

LEMMA SafeLevelInit == Init => SafeAndLevel
<1> SUFFICES ASSUME Init PROVE SafeAndLevel
  OBVIOUS
<1>1. PICK E : Sound(E)
  BY SafeInit DEF Safe
<1>2. PICK D : Level(D)
  BY LevelInit
<1> QED
  BY <1>1, <1>2 DEF SafeAndLevel

LEMMA LevelStep == NoEmptyBody /\ SafeAndLevel /\ [Next]_vars => SafeAndLevel'
<1> SUFFICES ASSUME NoEmptyBody, NEW E, Sound(E), NEW D, Level(D), [Next]_vars
             PROVE  SafeAndLevel'
  BY DEF SafeAndLevel
<1>1. Safe'
  BY SafeStep DEF Safe
<1>2. \E G : Level(G)'
  <2>1. CASE Compile
    BY <2>1, CompileLevel
  <2>2. CASE VisitTree
    BY <2>2, VisitLevel
  <2>3. CASE StartEval
    BY <2>3, StartLevel
  <2>4. CASE Push \/ Dup \/ PopTop \/ PrintTop
    BY <2>4, StackLevel
  <2>5. CASE LoadName \/ StoreName
    BY <2>5, LoadLevel, StoreLevel
  <2>6. CASE Arithmetic \/ Comparison \/ Jump \/ JumpTrue \/ JumpFalse
    BY <2>6, ArithLevel, JumpLevel
  <2>7. CASE Invoke \/ Return \/ Finish
    BY <2>7, InvokeLevel, ReturnLevel, FinishLevel
  <2>8. CASE StackEmpty
    BY <2>8, EmptyLevel
  <2>9. CASE AssertFails
    BY <2>9, LevelDie DEF AssertFails, Ended
  <2>10. CASE UNCHANGED vars
    <3>1. UNCHANGED <<mode, frames, base, kept, ip, gen>>
      BY <2>10 DEF vars
    <3>2. Graded(D)' /\ todo' = todo
      BY <3>1, GradedStays DEF Level, gen
    <3>3. \A c : FlowFrom(c)' = FlowFrom(c)
      BY <3>1, FlowStays DEF gen
    <3>4. Top' = Top /\ Stack' = Stack
      BY <3>1 DEF Top, Stack
    <3>5. (mode = "run" /\ Top.at = NoCall => OnPath(D))'
      BY <3>1, <3>3, <3>4 DEF Level, OnPath, Reached
    <3>6. (mode = "fatal" /\ Top.at = NoCall => TooDeep(D))'
      BY <3>1, <3>3, <3>4 DEF Level, TooDeep
    <3>7. Level(D)'
      BY <3>1, <3>2, <3>4, <3>5, <3>6 DEF Level
    <3> QED
      BY <3>7
  <2> QED
    BY <2>1, <2>2, <2>3, <2>4, <2>5, <2>6, <2>7, <2>8, <2>9, <2>10 DEF Next
<1> QED
  BY <1>1, <1>2 DEF SafeAndLevel, Safe

\* Where no body is empty, every path through the code leaves the stack at one
\* depth: no jump, loop, branch or function of a session of any length piles up
\* objects or takes one that is not there, and what eval asserts at the end of
\* a logic block (vm.c:262) holds of each path.
THEOREM Balance ==
    ASSUME NoEmptyBody
    PROVE  Spec => []CodeBalanced
<1>1. Init => SafeAndLevel
  BY SafeLevelInit
<1>2. SafeAndLevel => CodeBalanced
  <2> SUFFICES ASSUME NEW E, Sound(E), NEW D, Level(D), mode = "visit", todo = <<>>, NEW b \in Entries
               PROVE  Balanced(FlowFrom(b))
    BY DEF SafeAndLevel, CodeBalanced
  <2>1. blks \in Seq(CodeBlock) /\ BlocksGraded(blks, D) /\ Graded(D) /\ Compiled(E) /\ D \in Seq(Seq(Int))
        /\ Len(D) = Len(blks)
    BY DEF Sound, Compiled, Made, BlocksFit, Level, Graded, BlocksGraded
  <2>2. \A c \in 1..Len(blks) : blks[c].next = NoBlock => Last(D[c]) = 1
    BY <2>1, AllEnd
  <2>3. b \in 1..Len(D) /\ D[b][1] = 0
    <3>1. CASE b = Top.eb
      <4>1. Top = frames[Len(frames)] /\ Len(frames) \in 1..Len(frames)
        BY TopFits DEF Sound
      <4>2. Begins(Top, D) /\ Top.eb # 0
        BY <4>1 DEF Level, FramesBegin
      <4> QED
        BY <3>1, <4>2 DEF Begins
    <3>2. CASE \E f \in 1..Len(fns) : b = fns[f].blk
      <4>1. Extends(D, D, cb)
        BY <2>1, ExtendsSelf
      <4> QED
        BY <2>1, <3>2, <4>1, FnsStart
    <3> QED
      BY <3>1, <3>2 DEF Entries
  <2> QED
    BY <2>1, <2>2, <2>3, FlowBalanced
<1>3. SafeAndLevel /\ [Next]_vars => SafeAndLevel'
  BY LevelStep
<1> QED
  BY <1>1, <1>2, <1>3, PTL DEF Spec

\* Then "Stack overflow!" (vm.h:65) ends the process only in code that needs
\* more than STACK_SIZE slots, unless the block on top has made a call and may
\* have resumed in other code.
THEOREM Overflow ==
    ASSUME NoEmptyBody
    PROVE  Spec => []OverflowNeedsDepth
<1>1. Init => SafeAndLevel
  BY SafeLevelInit
<1>2. SafeAndLevel => OverflowNeedsDepth
  BY DEF SafeAndLevel, Level, TooDeep, OverflowNeedsDepth, Entries
<1>3. SafeAndLevel /\ [Next]_vars => SafeAndLevel'
  BY LevelStep
<1> QED
  BY <1>1, <1>2, <1>3, PTL DEF Spec

\* Then no instruction takes an object that is not on the stack, and eval's
\* assertion at the end of a logic block (vm.c:262) holds, in a logic block that
\* has made no call: the machine is always at a point of the control flow.
THEOREM StackNotEmpty ==
    ASSUME NoEmptyBody
    PROVE  Spec => []OperandsOnStack
<1>1. Init => SafeAndLevel
  BY SafeLevelInit
<1>2. SafeAndLevel => OperandsOnStack
  <2> SUFFICES ASSUME NEW E, Sound(E), NEW D, Level(D), mode = "run", Top.at = NoCall
               PROVE  /\ Running => Len(Stack) >= Pops(Ins) + Looks(Ins)
                      /\ ip.b = 0 => Len(Stack) = 1
    BY DEF SafeAndLevel, OperandsOnStack
  <2>1. Running => Len(Stack) >= Pops(Ins) + Looks(Ins)
    BY TopOnPath
  <2>2. ip.b = 0 => Len(Stack) = 1
    BY DEF Level, OnPath, Reached
  <2> QED
    BY <2>1, <2>2
<1>3. SafeAndLevel /\ [Next]_vars => SafeAndLevel'
  BY LevelStep
<1> QED
  BY <1>1, <1>2, <1>3, PTL DEF Spec
=============================================================================
