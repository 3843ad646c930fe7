--------------------------------- MODULE MCVm ---------------------------------
(***************************************************************************)
(* The sessions TLC runs the machine on.                                   *)
(***************************************************************************)
EXTENDS VmFlow

\* Trees.
Lit(v) == [k |-> "lit", v |-> v]
Num(n) == Lit(INT(n))
Id(n) == [k |-> "id", n |-> n]
Bin(o, l, r) == [k |-> "op", o |-> o, l |-> l, r |-> r]
Fn(ps, body) == [k |-> "fn", ps |-> ps, body |-> body]
CallOf(f, args) == [k |-> "call", f |-> f, args |-> args]
Ex(e) == [k |-> "exp", e |-> e]
Show(e) == [k |-> "print", e |-> e]
Block(body) == [k |-> "block", body |-> body]
Set(n, e) == [k |-> "assign", n |-> n, s |-> Ex(e)]
SetTo(n, s) == [k |-> "assign", n |-> n, s |-> s]
Incr(n) == [k |-> "inc", n |-> n]
Decr(n) == [k |-> "dec", n |-> n]
If(e, then, els) == [k |-> "if", e |-> e, then |-> then, els |-> els]
For(n, from, to, step, body) ==
    [k |-> "for", n |-> n, from |-> Ex(from), to |-> Ex(to), step |-> step,
     body |-> body]

Truth(p) == Lit(BOOL(p))

-----------------------------------------------------------------------------
(* Files without calls: every construct, alone and inside the others.  x has *)
(* no value unless a statement gives it one.                                 *)

Simple == {Ex(Num(3)), Show(Bin("ADD", Id("a"), Num(3))), Incr("a"), Decr("a"),
           Set("a", Bin("MUL", Id("a"), Num(2))), Show(Id("x")),
           Set("a", Bin("DIV", Num(7), Bin("SUB", Id("a"), Num(3)))),
           SetTo("x", Set("a", Num(5))), Block(<<Incr("a"), Show(Id("a"))>>)}
Tests == {Truth(TRUE), Bin("LT", Id("a"), Num(2)), Bin("NE", Id("a"), Num(1)),
          Bin("GE", Id("a"), Id("x"))}

Ifs == {If(t, <<s>>, els) : t \in Tests, s \in Simple,
                            els \in {<<>>} \cup {<<<<s2>>>> : s2 \in Simple}}
IfInThen == {If(t, <<Incr("a"), If(t2, <<Show(Num(7))>>, <<<<Decr("a")>>>>)>>,
                els) : t \in Tests, t2 \in Tests, els \in {<<>>, <<<<Ex(Num(4))>>>>}}
IfInElse == {If(t, <<Ex(Num(4))>>,
                <<<<If(t2, <<Show(Num(7))>>, <<<<Decr("a")>>>>), Incr("a")>>>>) :
                t \in Tests, t2 \in Tests}
ForIn(body, to) == For("i", Num(0), to, Incr("i"), body)
Fors == {ForIn(<<s, Show(Id("i"))>>, to) :
            to \in {Num(0), Num(2)}, s \in Simple}
ForInFor == {ForIn(<<For("j", Id("i"), Num(2), Incr("j"), <<s>>)>>, Num(2)) :
                s \in Simple}
IfInFor == {ForIn(<<If(Bin(o, Id("i"), Num(1)), <<Show(Id("i"))>>, els)>>, Num(3)) :
                o \in {"LT", "EQ", "NE", "GT", "LE", "GE"},
                els \in {<<>>, <<<<Show(Num(9))>>>>}}
ForInElse == {If(t, <<ForIn(<<Incr("a")>>, Num(2))>>,
                 <<<<ForIn(<<Incr("a")>>, Num(3))>>>>) : t \in Tests}

\* The statement runs after a has a value; its own value, then a, is shown.
StatementFiles ==
    {<< <<Set("a", Num(1)), SetTo("y", s), Show(Id("y")), Ex(Id("a"))>> >> :
        s \in Simple \cup Ifs \cup IfInThen \cup IfInElse \cup Fors \cup ForInFor
                  \cup IfInFor \cup ForInElse}

-----------------------------------------------------------------------------
(* Files with calls: functions that assign, branch, loop, print, fail or     *)
(* call, used where the code of a call is in the first block of its caller.  *)

Bodies == {<<Ex(Bin("ADD", Id("n"), Num(1)))>>,
           <<Set("a", Id("n")), Incr("a")>>,
           <<Incr("a"), Show(Id("a"))>>,
           <<If(Bin("LT", Id("n"), Num(2)), <<Show(Id("n"))>>, <<<<Decr("n")>>>>)>>,
           <<ForIn(<<Incr("n")>>, Num(2))>>,
           <<Set("a", Num(7)), Show(Id("x"))>>,
           <<Set("n", CallOf(Id("h"), <<Id("n"), Num(1)>>)), Ex(Bin("MUL", Id("n"), Id("n")))>>}
F(e) == CallOf(Id("f"), <<e>>)
Uses == {Ex(F(Num(1))), Ex(F(F(Num(2)))), Show(Bin("SUB", F(Num(1)), F(Id("a")))),
         Set("a", Bin("MUL", Num(2), F(Num(3)))),
         If(Bin("LT", F(Num(1)), Num(3)), <<Show(Id("a"))>>, <<<<Incr("a")>>>>),
         For("i", F(Num(0)), Num(4), Incr("i"), <<Show(Id("i"))>>),
         Ex(CallOf(Id("h"), <<F(Num(1)), Num(5)>>)),
         Ex(CallOf(Id("ap"), <<Num(2), Id("f")>>)),
         Ex(CallOf(Fn(<<"n">>, <<Ex(F(Bin("ADD", Id("n"), Id("a"))))>>), <<Num(2)>>)),
         Ex(CallOf(Id("h"), <<Num(3)>>)),
         Block(<<Set("q", Num(9)), Ex(CallOf(Id("h"), <<Num(3)>>))>>),
         Block(<<Set("p", Num(8)), Set("q", Num(9)), Show(CallOf(Id("h"), <<>>))>>)}
CallFiles ==
    {<< <<SetTo("h", Ex(Fn(<<"p", "q">>, <<Ex(Bin("SUB", Id("p"), Id("q")))>>))),
          SetTo("f", Ex(Fn(<<"n">>, body))),
          SetTo("ap", Ex(Fn(<<"n", "g">>, <<Ex(CallOf(Id("g"), <<Id("n")>>))>>))),
          Set("a", Num(1)), use, Show(Id("a")), Ex(Id("a"))>> >> :
        body \in Bodies, use \in Uses}

-----------------------------------------------------------------------------
(* Interactive sessions: inputs that work and inputs that fail half-way, the *)
(* last one with or without a call.                                          *)

Lines == {Set("a", Num(1)), Incr("a"), Show(Bin("ADD", Id("a"), Num(1))),
          Block(<<Set("a", Num(5)), Show(Id("x"))>>), Set("x", Id("a")),
          If(Bin("LT", Id("a"), Num(3)), <<Set("x", Num(2))>>, <<<<Decr("a")>>>>),
          ForIn(<<Incr("a")>>, Num(2))}
F1 == SetTo("f", Ex(Fn(<<"n">>, <<Set("x", Id("n")), Ex(Bin("ADD", Id("a"), Id("x")))>>)))
ReplSessions ==
    {<<<<l1>>, <<l2>>, <<l3>>>> : l1, l2, l3 \in Lines}
    \cup {<<<<l1>>, <<F1>>, <<l2>>, <<Ex(F(Num(4)))>>>> : l1, l2 \in Lines}

-----------------------------------------------------------------------------
(* Sessions of every kind, those included that the machine does not carry    *)
(* out: calls in a loop, in an else or before another input, ifs at the end  *)
(* of an else, conditions that are no bools, calls of what is no function.   *)

G == SetTo("g", Ex(Fn(<<"n">>, <<Ex(F(Id("n"))), Show(Id("z"))>>)))
OddLines == {Ex(F(Num(4))), Ex(Bin("ADD", Num(1), F(Num(4)))),
             ForIn(<<Ex(F(Id("i")))>>, Num(2)),
             If(Bin("LT", Id("a"), Num(0)), <<Incr("a")>>, <<<<Ex(F(Id("a")))>>>>),
             If(Truth(FALSE), <<Incr("a")>>,
                <<<<If(Truth(FALSE), <<Incr("a")>>, <<<<Ex(Num(2))>>>>)>>>>),
             If(Num(1), <<Incr("a")>>, <<>>), Ex(CallOf(Id("a"), <<>>)),
             Ex(Bin("ADD", Bin("ADD", Num(1), Num(2)), Num(3))),
             Ex(CallOf(Id("g"), <<Num(1)>>)), Block(<<Set("a", Num(6)), Ex(Num(7))>>)}
OddSessions ==
    {<<<<Set("a", Num(1)), F1, G, l1>>, <<l2>>, <<Ex(Id("a"))>>>> : l1, l2 \in OddLines}
    \cup {<<<<Set("a", Num(1))>>, <<F1>>, <<G>>, <<l1>>, <<l2>>, <<l2>>>> : l1, l2 \in OddLines}

-----------------------------------------------------------------------------
(* Expressions that need 2 to 4 slots, once and in loops.                    *)

Deep2 == Bin("ADD", Num(1), Id("a"))
Deep3 == Bin("ADD", Num(2), Deep2)
Deep4 == Bin("ADD", Num(3), Deep3)
Deeps == {Ex(Deep2), Show(Deep2), Ex(Deep3), Show(Deep3), Ex(Deep4),
          Set("b", Deep3), If(Bin("LT", Num(1), Deep2), <<Ex(Deep3)>>, <<>>)}
DeepSessions ==
    {<<<<Set("a", Num(1)), d1, d2>>>> : d1, d2 \in Deeps}
    \cup {<<<<Set("a", Num(1))>>,
              <<ForIn(<<d1, For("j", Num(0), Num(2), Incr("j"), <<d2>>)>>,
                      Num(2))>>>> : d1, d2 \in Deeps}

\* Run with a stack of three slots.
NarrowSessions == OddSessions \cup DeepSessions

-----------------------------------------------------------------------------
(* Every session that the machine carries out.                               *)

RegularSessions == StatementFiles \cup CallFiles \cup ReplSessions

-----------------------------------------------------------------------------
(* One session each, for what a comment or an assertion of the source says   *)
(* and the process does not do.                                              *)

CallThenLine ==
    {<<<<Block(<<F1, Set("a", Num(1))>>)>>, <<Ex(F(Num(4)))>>, <<Ex(Id("a"))>>>>}
CallInFor ==
    {<<<<F1, Set("a", Num(1)), ForIn(<<Ex(F(Id("i")))>>, Num(2)), Ex(Id("a"))>>>>}
NilLiterals == {<<<<Ex(Lit(NIL)), Ex(Lit(NIL)), Ex(Lit(NIL))>>>>}
ZeroThenNoElse == {<<<<Ex(Num(0)), If(Truth(FALSE), <<Ex(Num(1))>>, <<>>)>>>>}

-----------------------------------------------------------------------------
(* The trees that the sessions are made of.                                  *)

Inside(a) ==
    CASE a.k \in {"fn", "block"} -> Range(a.body)
      [] a.k = "if"  -> Range(a.then) \cup UNION {Range(b) : b \in Range(a.els)}
      [] a.k = "for" -> Range(a.body) \cup {a.from, a.to, a.step}
      [] OTHER -> {}
Children(a) ==
    Inside(a) \cup
    CASE a.k = "op"   -> {a.l, a.r}
      [] a.k = "call" -> {a.f} \cup Range(a.args)
      [] a.k = "assign" -> {a.s}
      [] a.k \in {"exp", "print", "if"} -> {a.e}
      [] OTHER -> {}
RECURSIVE Trees(_)
Trees(found) ==
    LET more == UNION {Children(a) : a \in found} \ found
    IN  IF more = {} THEN found ELSE Trees(found \cup more)
AllTrees == Trees(UNION {Range(body) : body \in UNION {Range(s) : s \in Sessions}})
AllExps == {a \in AllTrees : a.k \in {"lit", "id", "op", "fn", "call"}}
AllStms == AllTrees \ AllExps

\* What the theorems on the depth of the stack ask of the trees.
ASSUME BodiesAssumption == NoEmptyBody
=============================================================================
