-------------------------------- MODULE Meaning --------------------------------
(***************************************************************************)
(* The meaning of a rayscript session: a line for every print, in the      *)
(* order of the source, then the value of each input or one error.  It is  *)
(* given by recursion on the tree, without code blocks, constants, stack   *)
(* or saved registers.                                                     *)
(*                                                                         *)
(* It is read off the visitors of visitor.c, what each construct leaves as *)
(* its value (a for leaves its variable, a missing else nil), and off the  *)
(* checks vm.c means to make (a condition has to be a bool).               *)
(***************************************************************************)
EXTENDS Values, SequencesExt

CONSTANT Fuel  \* bound: loop iterations and calls of one session

(***************************************************************************)
(* The state of an evaluation: ok is FALSE once an error has stopped it, v *)
(* the value of what was evaluated last, g and l the global and the local  *)
(* names, fn whether a function is running, out what was printed.          *)
(***************************************************************************)
Fresh == [ok |-> TRUE, fuel |-> Fuel, v |-> NIL, g |-> <<>>, l |-> <<>>,
          fn |-> FALSE, out |-> <<>>]

Value(s, v) == [s EXCEPT !.v = v]
Fails(s) == [s EXCEPT !.ok = FALSE]
Shown(v) == IF v.t = "fn" THEN FN(0) ELSE v

Assign(s, n) ==
    IF s.fn THEN [s EXCEPT !.l = (n :> s.v) @@ @]
    ELSE [s EXCEPT !.g = (n :> s.v) @@ @]

Lookup(s, n) ==
    IF s.fn /\ n \in DOMAIN s.l THEN Value(s, s.l[n])
    ELSE IF n \in DOMAIN s.g THEN Value(s, s.g[n])
    ELSE Fails(s)

Apply(op, a, s) ==
    IF op \in {"ADD", "SUB", "MUL", "DIV"}
    THEN LET v == Arith(op, a, s.v)
         IN  IF v = NIL THEN Fails(s) ELSE Value(s, v)
    ELSE Value(s, BOOL(Compare(op, a, s.v)))

RECURSIVE Exp(_, _), Args(_, _, _), Call(_, _, _), Stm(_, _), Body(_, _),
          Loop(_, _)

\* The arguments from left to right, then what is called.
Args(s, e, given) ==
    IF ~s.ok THEN s
    ELSE IF Len(given) = Len(e.args)
         THEN LET f == Exp(s, e.f) IN IF f.ok THEN Call(f, f.v, given) ELSE f
    ELSE LET a == Exp(s, e.args[Len(given) + 1])
         IN  Args(a, e, Append(given, a.v))

Call(s, f, given) ==
    IF f.t # "fn" \/ s.fuel = 0 THEN Fails(s)
    ELSE LET names == {f.v.ps[i] : i \in 1..Len(given)}
             called == [s EXCEPT !.fuel = @ - 1, !.fn = TRUE,
                 !.l = [n \in names |->
                           given[CHOOSE i \in 1..Len(given) : f.v.ps[i] = n]]]
             done == Body(called, f.v.body)
         IN  [done EXCEPT !.fn = s.fn, !.l = s.l]

Exp(s, e) ==
    IF ~s.ok THEN s
    ELSE CASE e.k = "lit"  -> Value(s, e.v)
           [] e.k = "id"   -> Lookup(s, e.n)
           [] e.k = "op"   -> LET a == Exp(s, e.l)
                                  b == Exp(a, e.r)
                              IN  IF b.ok THEN Apply(e.o, a.v, b) ELSE b
           [] e.k = "fn"   -> Value(s, [t |-> "fn",
                                        v |-> [ps |-> e.ps, body |-> e.body]])
           [] e.k = "call" -> Args(s, e, <<>>)

\* The value of a list of statements is that of the last.
Body(s, body) ==
    IF body = <<>> THEN s ELSE Body(Stm(s, Head(body)), Tail(body))

\* The end is evaluated anew, and compared with the variable, before every
\* iteration; the value is that of the variable.
Loop(s, a) ==
    LET i == Lookup(s, a.n)
        to == Stm(i, a.to)
    IN  IF ~to.ok THEN to
        ELSE IF Compare("EQ", i.v, to.v) THEN Value(to, i.v)
        ELSE IF s.fuel = 0 THEN Fails(s)
        ELSE Loop(Stm(Body([to EXCEPT !.fuel = @ - 1], a.body), a.step), a)

Branch(s, a) ==
    CASE Same(s.v, BOOL(TRUE))  -> Body(s, a.then)
      [] Same(s.v, BOOL(FALSE)) -> IF a.els = <<>> THEN Value(s, NIL)
                              ELSE Body(s, a.els[1])
      [] OTHER -> Fails(s)

Stm(s, a) ==
    IF ~s.ok THEN s
    ELSE CASE a.k = "exp"    -> Exp(s, a.e)
           [] a.k = "print"  -> LET p == Exp(s, a.e)
                                IN  IF p.ok
                                    THEN [p EXCEPT !.out =
                                            Append(@, [e |-> "print",
                                                       v |-> Shown(p.v)])]
                                    ELSE p
           [] a.k = "block"  -> Body(s, a.body)
           [] a.k = "assign" -> LET v == Stm(s, a.s)
                                IN  IF v.ok THEN Assign(v, a.n) ELSE v
           [] a.k \in {"inc", "dec"} ->
                  LET v == Exp(s, [k |-> "op", l |-> [k |-> "id", n |-> a.n],
                                   r |-> [k |-> "lit", v |-> INT(1)],
                                   o |-> IF a.k = "inc" THEN "ADD" ELSE "SUB"])
                  IN  IF v.ok THEN Assign(v, a.n) ELSE v
           [] a.k = "if"     -> LET t == Exp(s, a.e)
                                IN  IF t.ok THEN Branch(t, a) ELSE t
           [] a.k = "for"    -> LET f == Stm(s, a.from)
                                IN  IF f.ok THEN Loop(Assign(f, a.n), a) ELSE f

\* One input after the other: an error ends its own input only, and leaves
\* what was assigned before it.
RECURSIVE Inputs(_, _)
Inputs(s, rest) ==
    IF rest = <<>> THEN s.out
    ELSE LET r == Body(s, Head(rest))
             told == IF r.ok THEN [e |-> "result", v |-> Shown(r.v)]
                     ELSE [e |-> "error", v |-> NIL]
         IN  Inputs([r EXCEPT !.ok = TRUE, !.fn = FALSE, !.l = <<>>,
                              !.out = Append(@, told)], Tail(rest))

MeaningOf(session) == Inputs(Fresh, session)
=============================================================================
