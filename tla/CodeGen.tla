------------------------------- MODULE CodeGen -------------------------------
(***************************************************************************)
(* The code generator: visitor.c walks the tree of a program and appends   *)
(* instructions to the code blocks of the current logic block.             *)
(*                                                                         *)
(* Trees.  An expression is                                                *)
(*    [k |-> "lit", v], [k |-> "id", n], [k |-> "op", o, l, r],            *)
(*    [k |-> "fn", ps, body], [k |-> "call", f, args];                     *)
(* a statement is                                                          *)
(*    [k |-> "exp", e], [k |-> "print", e], [k |-> "block", body],         *)
(*    [k |-> "assign", n, s], [k |-> "inc", n], [k |-> "dec", n],          *)
(*    [k |-> "if", e, then, els], [k |-> "for", n, from, to, step, body];  *)
(* a body (compound statement) is a sequence of statements, and els a      *)
(* sequence of at most one body.  A call by name is a call whose f is an   *)
(* identifier: both emit LOAD_NAME and INVOKE.                             *)
(*                                                                         *)
(* The visitors call each other; todo is what is left of the calls under   *)
(* way.  An action does what one visitor does before its first call, or    *)
(* between two, and puts the rest of its work in front of todo.            *)
(*                                                                         *)
(* Code blocks, constant lists and function objects are numbered in the    *)
(* order they are made; block 0 is NULL.                                   *)
(***************************************************************************)
EXTENDS Values, SequencesExt

CONSTANTS
    Exps,  \* the expressions the parser may make
    Stms   \* the statements

\* The grammar of rayscript_parser.y: the parts of a tree are trees.  A body
\* may be empty, "LB eols RB".
Literal(v) ==
    \/ v.t \in {"int", "dbl"}
    \/ v = BOOL(TRUE) \/ v = BOOL(FALSE) \/ v = NIL
Expression(e) ==
    \/ e.k = "lit" /\ Literal(e.v)
    \/ e.k = "id" /\ e.n \in STRING
    \/ /\ e.k = "op" /\ e.l \in Exps /\ e.r \in Exps
       /\ e.o \in {"ADD", "SUB", "MUL", "DIV", "EQ", "NE", "LT", "GT", "LE", "GE"}
    \/ e.k = "fn" /\ e.ps \in Seq(STRING) /\ e.body \in Seq(Stms)
    \/ e.k = "call" /\ e.f \in Exps /\ e.args \in Seq(Exps)
Statement(s) ==
    \/ s.k \in {"exp", "print"} /\ s.e \in Exps
    \/ s.k = "block" /\ s.body \in Seq(Stms)
    \/ s.k = "assign" /\ s.n \in STRING /\ s.s \in Stms
    \/ s.k \in {"inc", "dec"} /\ s.n \in STRING
    \/ /\ s.k = "if" /\ s.e \in Exps /\ s.then \in Seq(Stms)
       /\ s.els = <<>> \/ (Len(s.els) = 1 /\ s.els[1] \in Seq(Stms))
    \/ /\ s.k = "for" /\ s.n \in STRING /\ s.body \in Seq(Stms)
       /\ s.from \in Stms /\ s.to \in Stms /\ s.step \in Stms

ASSUME GrammarAssumption ==
    /\ \A e \in Exps : Expression(e)
    /\ \A s \in Stms : Statement(s)

VARIABLES
    blks,    \* the code blocks
    lists,   \* the constant lists of the logic blocks
    fns,     \* the function objects
    cb,      \* c->lb->cb
    cs,      \* c->lb->consts
    nilref,  \* the reference count of nil, as far as the compiler moves it
    failed,  \* whether the assertion of DEC_REF has failed
    todo     \* what the visitors still have to do

gen == <<blks, lists, fns, cb, cs, nilref, failed, todo>>

NoBlock == 0

GenInit ==
    /\ blks = <<>> /\ lists = <<<<>>>> /\ fns = <<>>
    /\ cb = NoBlock /\ cs = 1
    /\ nilref = 1 /\ failed = FALSE
    /\ todo = <<>>

(***************************************************************************)
(* What is left of a visitor: an instruction to append, a constant to      *)
(* store and perhaps to use in an instruction, a block to continue in.     *)
(***************************************************************************)
EMIT(op) == [k |-> "emit", ins |-> [op |-> op]]
EMIT_ARG(op, arg) == [k |-> "emit", ins |-> [op |-> op, arg |-> arg]]
EMIT_JMP(op, b) == [k |-> "emit", ins |-> [op |-> op, to |-> b]]
EMIT_CONST(op, v) == [k |-> "const", op |-> op, v |-> v]
STORE(n) == [k |-> "store", v |-> STR(n)]
NEXT_BLOCK(b) == [k |-> "next", b |-> b]
LIST(body) == [k |-> "list", body |-> body]

At(kind) == todo # <<>> /\ Head(todo).k = kind
Node == Head(todo)
Then(items) == todo' = items \o Tail(todo)

-----------------------------------------------------------------------------
(* Code blocks and constants. *)

\* new_code_block: an empty block, next of no other yet.
EmptyBlock == [code |-> <<>>, next |-> NoBlock]
FirstNew == Len(blks) + 1

\* add_op, add_op_arg and add_op_jmp append to the current block.
Append1(ins) == [blks EXCEPT ![cb].code = Append(@, ins)]

\* store_obj: the first constant that is OBJ_EQ to obj, else a new last one.
Consts == lists[cs]
Found(obj) == {x \in 1..Len(Consts) : Compare("EQ", Consts[x], obj)}
IndexOf(obj) ==
    IF Found(obj) = {} THEN Len(Consts) + 1
    ELSE CHOOSE x \in Found(obj) : \A y \in Found(obj) : x <= y
Stored(obj) ==
    IF Found(obj) = {} THEN [lists EXCEPT ![cs] = Append(@, obj)] ELSE lists

\* list_append takes a reference, counted here for nil alone.
Counted(obj) ==
    IF obj.t = "nil" /\ Found(obj) = {} THEN nilref + 1 ELSE nilref

-----------------------------------------------------------------------------
(* The common ends of the visitors. *)

AddOp ==
    /\ At("emit")
    /\ blks' = Append1(Node.ins)
    /\ Then(<<>>)
    /\ UNCHANGED <<lists, fns, cb, cs, nilref, failed>>

\* store_obj, then an instruction on the constant.
AddOpOnConst ==
    /\ At("const")
    /\ lists' = Stored(Node.v)
    /\ nilref' = Counted(Node.v)
    /\ blks' = Append1([op |-> Node.op, arg |-> IndexOf(Node.v)])
    /\ Then(<<>>)
    /\ UNCHANGED <<fns, cb, cs, failed>>

StoreObj ==
    /\ At("store")
    /\ lists' = Stored(Node.v)
    /\ Then(<<>>)
    /\ UNCHANGED <<blks, fns, cb, cs, nilref, failed>>

\* use_code_block_next.
UseNext ==
    /\ At("next")
    /\ blks' = [blks EXCEPT ![cb].next = Node.b, ![Node.b].next = NoBlock]
    /\ cb' = Node.b
    /\ Then(<<>>)
    /\ UNCHANGED <<lists, fns, cs, nilref, failed>>

Only(items) == Then(items) /\ UNCHANGED <<blks, lists, fns, cb, cs, nilref, failed>>

-----------------------------------------------------------------------------
(* Expressions. *)

\* visit_factor: the literal's own reference is dropped.  true and false got
\* one in the lexer and a number when it was made; nil got none.
VisitLiteral ==
    /\ At("lit")
    /\ lists' = Stored(Node.v)
    /\ nilref' = Counted(Node.v) - (IF Node.v.t = "nil" THEN 1 ELSE 0)
    /\ failed' = (nilref' < 0)
    /\ blks' = Append1([op |-> "PUSH", arg |-> IndexOf(Node.v)])
    /\ Then(<<>>)
    /\ UNCHANGED <<fns, cb, cs>>

VisitIdentifier ==
    At("id") /\ Only(<<EMIT_CONST("LOAD_NAME", STR(Node.n))>>)

VisitBinary == At("op") /\ Only(<<Node.l, Node.r, EMIT(Node.o)>>)

VisitCall ==
    /\ At("call")
    /\ Only(Node.args \o <<Node.f, EMIT_ARG("INVOKE", Len(Node.args))>>)

\* visit_function_def: the body goes to the first block of a new logic block
\* with constants of its own.
VisitFunction ==
    /\ At("fn")
    /\ blks' = Append(blks, EmptyBlock)
    /\ lists' = Append(lists, <<>>)
    /\ cb' = FirstNew /\ cs' = Len(lists) + 1
    /\ Then(<<LIST(Node.body),
              [k |-> "leave", cb |-> cb, cs |-> cs,
               f |-> [ps |-> Node.ps, blk |-> cb', cs |-> cs']]>>)
    /\ UNCHANGED <<fns, nilref, failed>>

\* Mutant: what follows the function uses the constants of the function.
LeaveFunctionInside ==
    /\ At("leave")
    /\ cb' = Node.cb /\ cs' = cs
    /\ fns' = Append(fns, Node.f)
    /\ Then([x \in 1..Len(Node.f.ps) |-> STORE(Node.f.ps[x])]
              \o <<EMIT_CONST("PUSH", FN(Len(fns) + 1))>>)
    /\ UNCHANGED <<blks, lists, nilref, failed>>

\* ... then the names of the parameters and the function object become
\* constants of the logic block around it.
LeaveFunction ==
    /\ At("leave")
    /\ cb' = Node.cb /\ cs' = Node.cs
    /\ fns' = Append(fns, Node.f)
    /\ Then([x \in 1..Len(Node.f.ps) |-> STORE(Node.f.ps[x])]
              \o <<EMIT_CONST("PUSH", FN(Len(fns) + 1))>>)
    /\ UNCHANGED <<blks, lists, nilref, failed>>

-----------------------------------------------------------------------------
(* Statements. *)

VisitExpStatement == At("exp") /\ Only(<<Node.e>>)

VisitPrint == At("print") /\ Only(<<Node.e, EMIT("DUP"), EMIT("PRINT")>>)

VisitBlock == At("block") /\ Only(<<LIST(Node.body)>>)

\* Mutant: no POP between statements.
VisitListUnpopped ==
    /\ At("list")
    /\ LET body == Node.body
       IN  Only(IF Len(body) < 2 THEN body
                ELSE <<Head(body), LIST(Tail(body))>>)

\* visit_compound_statement and visit_statement_list: POP between statements.
VisitList ==
    /\ At("list")
    /\ LET body == Node.body
       IN  Only(IF Len(body) < 2 THEN body
                ELSE <<Head(body), EMIT("POP"), LIST(Tail(body))>>)

\* visit_assign: the name is stored before the right side is visited.
VisitAssign ==
    /\ At("assign")
    /\ lists' = Stored(STR(Node.n))
    /\ Then(<<Node.s, EMIT_ARG("STORE_NAME", IndexOf(STR(Node.n)))>>)
    /\ UNCHANGED <<blks, fns, cb, cs, nilref, failed>>

VisitStep ==
    /\ At("inc") \/ At("dec")
    /\ lists' = Stored(STR(Node.n))
    /\ LET i == IndexOf(STR(Node.n))
       IN  Then(<<EMIT_ARG("LOAD_NAME", i), EMIT_CONST("PUSH", INT(1)),
                  EMIT(IF Node.k = "inc" THEN "ADD" ELSE "SUB"),
                  EMIT_ARG("STORE_NAME", i)>>)
    /\ UNCHANGED <<blks, fns, cb, cs, nilref, failed>>

\* Mutant: no JUMP over the else.
VisitIfFallingThrough ==
    /\ At("if")
    /\ blks' = blks \o <<EmptyBlock, EmptyBlock>>
    /\ LET next == FirstNew
       IN  Then(<<Node.e, EMIT_JMP("JUMP_FALSE", next),
                  LIST(Node.then), NEXT_BLOCK(next),
                  IF Node.els # <<>> THEN LIST(Node.els[1])
                  ELSE EMIT_CONST("PUSH", NIL),
                  NEXT_BLOCK(next + 1)>>)
    /\ UNCHANGED <<lists, fns, cb, cs, nilref, failed>>

\* visit_if: a missing else pushes the constant nil.
VisitIf ==
    /\ At("if")
    /\ blks' = blks \o <<EmptyBlock, EmptyBlock>>
    /\ LET next == FirstNew
           end  == FirstNew + 1
       IN  Then(<<Node.e, EMIT_JMP("JUMP_FALSE", next),
                  LIST(Node.then), EMIT_JMP("JUMP", end), NEXT_BLOCK(next),
                  IF Node.els # <<>> THEN LIST(Node.els[1])
                  ELSE EMIT_CONST("PUSH", NIL),
                  NEXT_BLOCK(end)>>)
    /\ UNCHANGED <<lists, fns, cb, cs, nilref, failed>>

\* visit_for_from_to, up to its test,
VisitFor == At("for") /\ Only(<<Node.from, [k |-> "to", for |-> Node]>>)

VisitForTo ==
    /\ At("to")
    /\ lists' = Stored(STR(Node.for.n))
    /\ blks' = Append(blks, EmptyBlock)
    /\ LET i == IndexOf(STR(Node.for.n))
           to_block == FirstNew
       IN  Then(<<EMIT_ARG("STORE_NAME", i), EMIT("POP"),
                  NEXT_BLOCK(to_block),
                  EMIT_ARG("LOAD_NAME", i), EMIT("DUP"), Node.for.to,
                  EMIT("EQ"),
                  [k |-> "do", for |-> Node.for, to_block |-> to_block]>>)
    /\ UNCHANGED <<fns, cb, cs, nilref, failed>>

\* Mutant: the copy of the variable that the test leaves is not popped.
VisitForBodyUnpopped ==
    /\ At("do")
    /\ blks' = Append(blks, EmptyBlock)
    /\ LET end_block == FirstNew
       IN  Then(<<EMIT_JMP("JUMP_TRUE", end_block),
                  LIST(Node.for.body), EMIT("POP"),
                  Node.for.step, EMIT("POP"),
                  EMIT_JMP("JUMP", Node.to_block), NEXT_BLOCK(end_block)>>)
    /\ UNCHANGED <<lists, fns, cb, cs, nilref, failed>>

\* its body and its step.
VisitForBody ==
    /\ At("do")
    /\ blks' = Append(blks, EmptyBlock)
    /\ LET end_block == FirstNew
       IN  Then(<<EMIT_JMP("JUMP_TRUE", end_block), EMIT("POP"),
                  LIST(Node.for.body), EMIT("POP"),
                  Node.for.step, EMIT("POP"),
                  EMIT_JMP("JUMP", Node.to_block), NEXT_BLOCK(end_block)>>)
    /\ UNCHANGED <<lists, fns, cb, cs, nilref, failed>>

Visit ==
    \/ AddOp \/ AddOpOnConst \/ StoreObj \/ UseNext
    \/ VisitLiteral \/ VisitIdentifier \/ VisitBinary \/ VisitCall
    \/ VisitFunction \/ LeaveFunction
    \/ VisitExpStatement \/ VisitPrint \/ VisitBlock \/ VisitList
    \/ VisitAssign \/ VisitStep \/ VisitIf
    \/ VisitFor \/ VisitForTo \/ VisitForBody

\* code_gen: continue_compiler opens a block for the input in the current
\* logic block, whose constants are consts.
Generate(body, consts) ==
    /\ blks' = Append(blks, EmptyBlock)
    /\ cb' = FirstNew /\ cs' = consts
    /\ todo' = <<LIST(body)>>
    /\ UNCHANGED <<lists, fns, nilref, failed>>
=============================================================================
