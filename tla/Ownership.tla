------------------------------ MODULE Ownership ------------------------------
(***************************************************************************)
(* The references between objects: INC_REF and DEC_REF of object.h as the  *)
(* compiler, eval and the destructors use them on one file, from           *)
(* new_compiler to destruct_compiler.                                      *)
(*                                                                         *)
(* Which instruction comes next is left open: eval may execute any that    *)
(* finds its operands, so every program is covered.  An instruction sets   *)
(* todo to what its code does to counts and fields, in the code's order;   *)
(* a step of its own takes each of these, because a count that reaches 0   *)
(* runs a destructor between two of them.                                  *)
(*                                                                         *)
(* Left out: the strings that name variables (map keys, f->arg_list), the  *)
(* strings that PRINT makes, the entry objects of a map (one reference     *)
(* each, MapObject has them), and what ends the process at once: a failed  *)
(* assert, a stack overflow, a call of what is no function.  true and      *)
(* false are one object.                                                   *)
(*                                                                         *)
(* A nil literal takes no reference (rayscript_parser.y:346-351) and drops *)
(* one, so that nil->refcnt, the variable nilref, falls behind the         *)
(* references there are.  The entry of nil in heap counts these instead:   *)
(* it gets the reference that the literal should have taken.               *)
(***************************************************************************)
EXTENDS Naturals, FiniteSets, Sequences, SequencesExt, Counting

CONSTANTS
    MaxObjects,  \* bound: how many objects exist at once
    StackSize,   \* STACK_SIZE
    MaxFrames,   \* bound: blocks that run at once, plus constants of the program
    MaxConsts,   \* bound: literals and functions in the program
    Names,       \* the names of variables
    Params       \* the parameter lists of functions

NULL == 0
Ids == 1..MaxObjects

ASSUME BoundsAssumption ==
    /\ MaxObjects \in Nat /\ MaxObjects > 5
    /\ StackSize \in Nat \ {0} /\ MaxFrames \in Nat \ {0} /\ MaxConsts \in Nat
ASSUME NamesAssumption == IsFiniteSet(Names) /\ Params \subseteq Seq(Names)

VARIABLES
    heap,    \* the objects, FREE where there is none
    todo,    \* what is left to do of the instruction under way
    phase,   \* where normal_mode is
    defs,    \* the local lb of every visit_function_def on the C stack
    made,    \* how many literals and functions have been compiled
    frames,  \* c->lb and its prev chain while eval runs, the newest last
    ret,     \* the local ret of eval
    lost,    \* history: references of each object that a quit abandoned
    nilref,  \* nil->refcnt
    nils     \* history: how many nil literals have been compiled

vars == <<heap, todo, phase, defs, made, frames, ret, lost, nilref, nils>>

(***************************************************************************)
(* An object: its type k, its count rc, its references f by field (list    *)
(* index, variable name, or the position in the struct) and, for a         *)
(* function, its parameters.                                               *)
(***************************************************************************)
FREE == [k |-> "free", rc |-> 0, f |-> <<>>, ps |-> <<>>]
New(k, f) == [k |-> k, rc |-> 1, f |-> f, ps |-> <<>>]
EmptyMap == [n \in Names |-> NULL]

\* The objects that a process always has: true and false, the globals, the
\* constants of the main code, its logic block, and nil.
Static == 1
Globals == 2
Main == 4
Nil == 5
Statics == {Static, Nil}

Live(o) == o \in Ids /\ heap[o].k # "free"

\* The address that malloc returns next, when those of a set are taken too.
Unused == {o \in Ids : ~Live(o)}
Fresh(taken) == Min(Unused \ taken)
Room(n) == Cardinality(Unused) >= n

Field(o, x) == heap[o].f[x]
Locals(l) == Field(l, 1)
GlobalsOf(l) == Field(l, 2)
Consts(l) == Field(l, 3)

Init ==
    /\ heap = [o \in Ids |->
                 CASE o \in Statics -> New("static", <<>>)
                   [] o = Globals -> [New("map", EmptyMap) EXCEPT !.rc = 2]
                   [] o = 3       -> New("list", <<>>)
                   [] o = Main    -> New("block", <<Globals, Globals, 3>>)
                   [] OTHER       -> FREE]
    /\ todo = <<>> /\ phase = "compile" /\ defs = <<>> /\ made = 0
    /\ frames = <<>> /\ ret = NULL
    /\ lost = [o \in Ids |-> 0]
    /\ nilref = 1 /\ nils = 0

-----------------------------------------------------------------------------
(* What an instruction does to an object, one at a time. *)

INC(o) == [op |-> "inc", o |-> o]
DEC(o) == [op |-> "dec", o |-> o]
READ(o) == [op |-> "read", o |-> o]
FREED(o) == [op |-> "free", o |-> o]
\* The type name in an error message.
NAME(o) == [op |-> "name", o |-> o]
\* map_put; a value counted and stored in a field of o; list_append and
\* list_prepend.
PUT(m, n, v) == [op |-> "put", o |-> m, x |-> n, v |-> v]
SET(o, x, v) == [op |-> "set", o |-> o, x |-> x, v |-> v]
APPEND(l, v) == [op |-> "append", o |-> l, v |-> v]
PREPEND(l, v) == [op |-> "prepend", o |-> l, v |-> v]

\* The order in which a destructor drops the fields: those of a list by index,
\* a map's by bucket, the code of a function, the three of a logic block.
Order(o) ==
    IF heap[o].k = "map" THEN SetToSeq(Names) ELSE [i \in DOMAIN heap[o].f |-> i]

\* Mutant: destruct_logic_block keeps the constants.
DestructKeepingConsts(o) ==
    LET fs == Order(o)
        kept == IF heap[o].k = "block" THEN 1..2 ELSE DOMAIN fs
    IN  [i \in kept |-> DEC(Field(o, fs[i]))] \o <<FREED(o)>>

\* The __destruct slot.
Destruct(o) ==
    LET fs == Order(o)
    IN  [i \in DOMAIN fs |-> DEC(Field(o, fs[i]))] \o <<FREED(o)>>

\* What a step leaves to do first: a count that reaches 0 runs the destructor,
\* and map_put drops the value it replaces before it counts the new one.
\* INC_REF and DEC_REF do nothing with NULL.
Then(s) ==
    CASE s.op = "dec" /\ s.o # NULL /\ heap[s.o].rc = 1 -> Destruct(s.o)
      [] s.op = "put" -> <<DEC(Field(s.o, s.x)), SET(s.o, s.x, s.v)>>
      [] OTHER -> <<>>

\* The object o after an operation.
After(s, o) ==
    CASE s.op = "dec" /\ o = s.o  -> [heap[o] EXCEPT !.rc = @ - 1]
      [] s.op = "free" /\ o = s.o -> FREE
      [] OTHER ->
           [heap[o] EXCEPT
              !.f = CASE s.op = "set" /\ o = s.o     -> [@ EXCEPT ![s.x] = s.v]
                      [] s.op = "append" /\ o = s.o  -> Append(@, s.v)
                      [] s.op = "prepend" /\ o = s.o -> <<s.v>> \o @
                      [] OTHER -> @,
              !.rc = CASE s.op = "inc" /\ o = s.o -> @ + 1
                       [] s.op \in {"set", "append", "prepend"} /\ o = s.v -> @ + 1
                       [] OTHER -> @]

\* A step.  DEC_REF of nil asserts that its count does not go below 0; at 0 the
\* destructor of nil does nothing.
Step ==
    /\ todo # <<>>
    /\ Head(todo) = DEC(Nil) => nilref > 0
    /\ heap' = [o \in Ids |-> After(Head(todo), o)]
    /\ nilref' = nilref + heap'[Nil].rc - heap[Nil].rc
    /\ todo' = Then(Head(todo)) \o Tail(todo)
    /\ UNCHANGED <<phase, defs, made, frames, ret, lost, nils>>

Ready(p) == phase = p /\ todo = <<>>

-----------------------------------------------------------------------------
(* The compiler. *)

\* c->lb of the compiler.
Compiled == IF defs = <<>> THEN Main ELSE Last(defs)
\* store_obj of an object the compiler owns, when no constant equals it.
Stored(l, o) == <<APPEND(Consts(l), o), DEC(o)>>

Constants == {Field(Consts(Compiled), x) : x \in DOMAIN heap[Consts(Compiled)].f}

\* list_find of o among the constants ends at o - of true and false it may be
\* the other -, or at a number, because number_equals compares it with anything.
Finds(o) == \E c \in Constants : c = o \/ heap[c].k = "value"
Misses(o) == o = Nil => Nil \notin Constants

\* visit_factor of a literal whose object is o: a new constant, or none.
Literal(o) ==
    /\ \/ Misses(o) /\ todo' = Stored(Compiled, o)
       \/ Finds(o) /\ todo' = <<DEC(o)>>
    /\ made' = made + 1
    /\ UNCHANGED <<phase, defs, frames, ret, lost, nilref>>

\* A number, also the 1 that visit_step counts down by.
StoreNumber ==
    /\ Ready("compile") /\ Room(1) /\ made < MaxConsts
    /\ heap' = [heap EXCEPT ![Fresh({})] = New("value", <<>>)]
    /\ Literal(Fresh({})) /\ UNCHANGED nils

\* true and false: the lexer takes the reference.
StoreBool ==
    /\ Ready("compile") /\ made < MaxConsts
    /\ heap' = [heap EXCEPT ![Static].rc = @ + 1]
    /\ Literal(Static) /\ UNCHANGED nils

\* nil: nobody takes it.
StoreNil ==
    /\ Ready("compile") /\ made < MaxConsts
    /\ heap' = [heap EXCEPT ![Nil].rc = @ + 1]
    /\ Literal(Nil) /\ nils' = nils + 1

\* The nil that visit_if stores for the missing else.
FakeElse ==
    /\ Ready("compile") /\ made < MaxConsts
    /\ \/ Misses(Nil) /\ todo' = <<APPEND(Consts(Compiled), Nil)>>
       \/ Finds(Nil) /\ todo' = <<>>
    /\ made' = made + 1
    /\ UNCHANGED <<heap, phase, defs, frames, ret, lost, nilref, nils>>

\* visit_function_def up to its body: new_logic_block with locals and constants
\* of its own, and the push.
EnterFunction ==
    /\ Ready("compile") /\ Room(4) /\ made < MaxConsts
    /\ LET locals == Fresh({})
           consts == Fresh({locals})
           l == Fresh({locals, consts})
       IN  /\ heap' = [heap EXCEPT
                         ![locals] = New("map", EmptyMap),
                         ![consts] = New("list", <<>>),
                         ![l] = New("block", <<NULL, NULL, consts>>)]
           /\ todo' = <<SET(l, 2, GlobalsOf(Compiled)), SET(l, 1, locals), DEC(locals),
                        INC(l)>>
           /\ defs' = Append(defs, l)
    /\ made' = made + 1
    /\ UNCHANGED <<phase, frames, ret, lost, nilref, nils>>

\* Mutant: new_function_object does not count its code.
LeaveFunctionUncounted ==
    /\ Ready("compile") /\ defs # <<>> /\ Room(1)
    /\ \E ps \in Params :
           heap' = [heap EXCEPT ![Fresh({})] =
                       [New("function", <<Last(defs)>>) EXCEPT !.ps = ps]]
    /\ defs' = Front(defs)
    /\ todo' = <<DEC(Last(defs)), DEC(Last(defs))>>
                 \o Stored(IF defs' = <<>> THEN Main ELSE Last(defs'), Fresh({}))
    /\ UNCHANGED <<phase, made, frames, ret, lost, nilref, nils>>

\* visit_function_def after its body: pop, new_function_object, and the
\* function becomes a constant of the code around it.
LeaveFunction ==
    /\ Ready("compile") /\ defs # <<>> /\ Room(1)
    /\ LET code == Last(defs)
           f == Fresh({})
       IN  /\ \E ps \in Params :
                  heap' = [heap EXCEPT ![f] = [New("function", <<NULL>>) EXCEPT !.ps = ps]]
           /\ defs' = Front(defs)
           /\ todo' = <<DEC(code), SET(f, 1, code), DEC(code)>>
                        \o Stored(IF Len(defs) = 1 THEN Main ELSE defs[Len(defs) - 1], f)
    /\ UNCHANGED <<phase, made, frames, ret, lost, nilref, nils>>

\* The prologue of eval.
StartEval ==
    /\ Ready("compile") /\ defs = <<>>
    /\ phase' = "eval"
    /\ todo' = <<INC(Main)>>
    /\ frames' = <<[lb |-> Main, stk |-> <<>>]>>
    /\ UNCHANGED <<heap, defs, made, ret, lost, nilref, nils>>

-----------------------------------------------------------------------------
(* One instruction. *)

Running == Ready("eval")
lb == Last(frames).lb
Stack == Last(frames).stk

FromTop(n) == Stack[Len(Stack) + 1 - n]
Below(n) == SubSeq(Stack, 1, Len(Stack) - n)

\* The stack becomes s, and the counts change as ops says.
Do(s, ops) ==
    /\ Len(s) <= StackSize
    /\ frames' = [frames EXCEPT ![Len(frames)].stk = s]
    /\ todo' = ops
    /\ UNCHANGED <<phase, defs, made, ret, lost, nilref, nils>>
Does(s, ops) == Do(s, ops) /\ UNCHANGED heap

\* How often eval holds o: on the stacks, and on the chain of blocks.
OnStacks(fs, o) == Tally([x \in DOMAIN fs |-> Places(fs[x].stk, o)])
OnChain(fs, o) == Cardinality({x \in DOMAIN fs : fs[x].lb = o})

\* QUIT_VM: eval returns with the stack s.  What is on the stacks stays
\* counted, and so do ret and the blocks on the chain.
Quit(s, ops) ==
    /\ phase' = "evaled"
    /\ todo' = ops
    /\ LET left == [frames EXCEPT ![Len(frames)].stk = s]
       IN  lost' = [o \in Ids |-> OnStacks(left, o) + OnChain(left, o) + One(o = ret)]
    /\ frames' = <<>> /\ ret' = NULL
    /\ UNCHANGED <<heap, defs, made, nilref, nils>>

Push ==
    /\ Running
    /\ \E x \in DOMAIN heap[Consts(lb)].f :
           LET v == Field(Consts(lb), x) IN Does(Append(Stack, v), <<INC(v)>>)

Value(n) ==
    IF Field(Locals(lb), n) # NULL THEN Field(Locals(lb), n)
    ELSE Field(GlobalsOf(lb), n)

LoadName ==
    /\ Running
    /\ \E n \in Names :
           IF Value(n) = NULL THEN Quit(Stack, <<>>)
           ELSE Does(Append(Stack, Value(n)), <<INC(Value(n))>>)

\* Mutant: the value is taken off the stack and dropped before map_put.
StoreNamePopping ==
    /\ Running /\ Len(Stack) > 0
    /\ \E n \in Names :
           Does(Below(1), <<DEC(FromTop(1)), PUT(Locals(lb), n, FromTop(1))>>)

\* STACK_GET and map_put.
StoreName ==
    /\ Running /\ Len(Stack) > 0
    /\ \E n \in Names :
           Does(Stack, <<PUT(Locals(lb), n, FromTop(1))>>)

Dup ==
    /\ Running /\ Len(Stack) > 0
    /\ Does(Append(Stack, FromTop(1)), <<INC(FromTop(1))>>)

\* POP and PRINT.  A read that a DEC of the same object follows is left out
\* here and below: the DEC already needs the object.
PopTop ==
    /\ Running /\ Len(Stack) > 0
    /\ Does(Below(1), <<DEC(FromTop(1))>>)

\* OP_ADD to OP_DIV.  A result that is not a number is nil: its count goes up
\* and down, and then the message reads the types of both operands.
Arithmetic ==
    /\ Running /\ Len(Stack) > 1
    /\ \E p \in {<<1, 2>>, <<2, 1>>} :
           LET op1 == FromTop(p[1])
               op2 == FromTop(p[2])
               drop == <<DEC(op1), DEC(op2)>>
           IN  IF heap[op1].k = "value" /\ heap[op2].k = "value"
               THEN /\ Room(1)
                    /\ heap' = [heap EXCEPT ![Fresh({})] = New("value", <<>>)]
                    /\ Do(Append(Below(2), Fresh({})), drop)
               ELSE Quit(Below(2), <<INC(Nil), DEC(op1), DEC(op2), DEC(Nil),
                                     NAME(op1), NAME(op2)>>)

\* VM_HANDLE_OP_BIN.
Comparison ==
    /\ Running /\ Len(Stack) > 1
    /\ Does(Append(Below(2), Static),
            <<DEC(FromTop(2)), DEC(FromTop(1)), INC(Static)>>)

\* JUMP_TRUE of what is no bool; of a bool, JUMP_TRUE and JUMP_FALSE do to
\* the references what POP does.
JumpOnNoBool ==
    /\ Running /\ Len(Stack) > 0 /\ FromTop(1) # Static
    /\ Quit(Below(1), <<DEC(FromTop(1))>>)

\* The list of the arguments, made from the last to the first: list_prepend
\* counts the item, then the reference that was on the stack is dropped.
Collect(l, args) ==
    [j \in 1..2 * Len(args) |->
        LET a == args[Len(args) + 1 - (j + 1) \div 2]
        IN  IF j % 2 = 1 THEN PREPEND(l, a) ELSE DEC(a)]

\* function_invoke: a parameter without an argument is NULL in the map.
Bind(m, ps, args) ==
    [i \in DOMAIN ps |-> PUT(m, ps[i], IF i <= Len(args) THEN args[i] ELSE NULL)]

\* The reference that the new frame keeps of its block: INVOKE drops the one
\* new_logic_block_from_exists made after the push took another.
Frame(l) == [lb |-> l, stk |-> <<>>]

\* INVOKE of a function: the list of arguments, the map of the parameters, and
\* a block that shares the globals and the constants of the function's code.
Invoke ==
    /\ Running /\ Len(Stack) > 0 /\ made + Len(frames) < MaxFrames /\ Room(3)
    /\ heap[FromTop(1)].k = "function"
    /\ \E n \in 0..Len(Stack) - 1 :
           LET f == FromTop(1)
               code == Field(f, 1)
               args == SubSeq(Stack, Len(Stack) - n, Len(Stack) - 1)
               l == Fresh({})
               m == Fresh({l})
               new_lb == Fresh({l, m})
           IN  /\ heap' = [heap EXCEPT
                             ![l] = New("list", <<>>), ![m] = New("map", EmptyMap),
                             ![new_lb] = New("block", <<NULL, NULL, NULL>>)]
               /\ todo' = Collect(l, args) \o <<READ(f)>>
                           \o Bind(m, heap[f].ps, args)
                           \o <<READ(code), SET(new_lb, 1, m),
                                SET(new_lb, 2, GlobalsOf(code)),
                                SET(new_lb, 3, Consts(code)),
                                DEC(m), DEC(f), DEC(l), INC(new_lb), DEC(new_lb)>>
               /\ frames' = [frames EXCEPT ![Len(frames)].stk = Below(n + 1)]
                             \o <<Frame(new_lb)>>
    /\ UNCHANGED <<phase, defs, made, ret, lost, nilref, nils>>

\* Mutant: the caller's stack takes the result without counting it.
EndFrameUncounted ==
    /\ Running /\ Len(Stack) = 1
    /\ LET result == Stack[1]
           drop == <<DEC(ret), DEC(lb)>>
       IN  IF Len(frames) > 1
           THEN /\ frames' = [Front(frames) EXCEPT ![Len(frames) - 1].stk =
                                 Append(@, result)]
                /\ todo' = drop
                /\ ret' = result /\ phase' = phase
           ELSE /\ frames' = <<>>
                /\ todo' = drop \o <<DEC(result)>>
                /\ ret' = NULL /\ phase' = "evaled"
    /\ UNCHANGED <<heap, defs, made, lost, nilref, nils>>

\* The end of a block with one object on its stack: ret is dropped and takes
\* it, the block is popped and dropped, and a caller gets the object counted.
\* At the end of the main block eval prints ret and drops it.
EndFrame ==
    /\ Running /\ Len(Stack) = 1
    /\ LET result == Stack[1]
           drop == <<DEC(ret), DEC(lb)>>
       IN  IF Len(frames) > 1
           THEN /\ frames' = [Front(frames) EXCEPT ![Len(frames) - 1].stk =
                                 Append(@, result)]
                /\ todo' = drop \o <<INC(result)>>
                /\ ret' = result /\ phase' = phase
           ELSE /\ frames' = <<>>
                /\ todo' = drop \o <<DEC(result)>>
                /\ ret' = NULL /\ phase' = "evaled"
    /\ UNCHANGED <<heap, defs, made, lost, nilref, nils>>

\* destruct_compiler.
DestructCompiler ==
    /\ Ready("evaled")
    /\ phase' = "done"
    /\ todo' = <<DEC(Main)>>
    /\ UNCHANGED <<heap, defs, made, frames, ret, lost, nilref, nils>>

Next ==
    \/ StoreNumber \/ StoreBool \/ StoreNil \/ FakeElse
    \/ EnterFunction \/ LeaveFunction \/ StartEval
    \/ Push \/ LoadName \/ StoreName \/ Dup \/ PopTop
    \/ Arithmetic \/ Comparison \/ JumpOnNoBool \/ Invoke \/ EndFrame
    \/ Step
    \/ DestructCompiler

Spec == Init /\ [][Next]_vars

-----------------------------------------------------------------------------
(* What the counts have to be. *)

InFields(o) == Tally([h \in Ids |-> Places(heap[h].f, o)])

\* The references there are outside of objects: on stacks, of the chain, in
\* ret, of the static objects, of the compiler (head_lb, and two of a block
\* under compilation), and those a quit abandoned.
Roots(o) ==
    OnStacks(frames, o) + OnChain(frames, o) + One(o = ret) + One(o \in Statics)
      + One(o = Main /\ phase # "done") + 2 * Occ(defs, o) + lost[o]

References(o) == InFields(o) + Roots(o)

\* No count is negative, and the shape of the heap: a field leads to an object
\* of the type that its reader expects, so that no address was reused while
\* somebody held it.
TypeOK ==
    /\ phase \in {"compile", "eval", "evaled", "done"}
    /\ nilref \in Nat /\ \A o \in Ids : heap[o].rc \in Nat
    /\ todo = <<>> =>
         \A o \in Ids : Live(o) =>
            /\ heap[o].k = "block" =>
                 /\ heap[Field(o, 1)].k = "map" /\ heap[Field(o, 2)].k = "map"
                 /\ heap[Field(o, 3)].k = "list"
            /\ heap[o].k = "function" => heap[Field(o, 1)].k = "block"
            /\ heap[o].k \in {"map", "list"} =>
                 \A x \in DOMAIN heap[o].f :
                    \/ Field(o, x) = NULL
                    \/ heap[Field(o, x)].k \in {"value", "static", "function"}

\* The count of an object.
Refcnt(o) == IF o = Nil THEN nilref ELSE heap[o].rc

\* Between two instructions the count of every object is the number of
\* references to it, whatever the program did before, but that of nil is
\* smaller by the number of nil literals: the INC_REF and DEC_REF of visitor.c,
\* vm.c, function_object.c, the containers and the destructors balance, and
\* visit_factor drops a reference to nil that nobody took (visitor.c:126).
CountsExact ==
    todo = <<>> => \A o \in Ids :
        Refcnt(o) = IF ~Live(o) THEN 0
                    ELSE References(o) - (IF o = Nil THEN nils ELSE 0)

\* The objects that an operation reads, counts or changes.
Operands(s) ==
    {s.o} \cup (IF s.op \in {"put", "set", "append", "prepend"} THEN {s.v} ELSE {})

\* Nothing reads, counts or changes an object that was freed, in the middle of
\* an instruction either, where map_put drops an old value before it stores the
\* new one (map_object.c:89) and INVOKE drops the function it called; only the
\* message of an operator without a result does (vm.c:128).
OnlyMessagesReadFreed ==
    todo # <<>> /\ Head(todo).op # "name" =>
        \A o \in Operands(Head(todo)) : o = NULL \/ Live(o)

\* The objects that can be reached from the objects of a set: the set that
\* the references of its members do not leave.
Reach(S) ==
    LET more(T) == T \cup UNION {{heap[o].f[x] : x \in DOMAIN heap[o].f} \ {NULL} :
                                    o \in T}
        from[n \in 0..MaxObjects] == IF n = 0 THEN S ELSE more(from[n - 1])
    IN  from[MaxObjects]

\* After destruct_compiler nothing is left but what a function stored in a
\* global keeps alive, which its globals keep alive in turn, and what a quit
\* abandoned: no object outlives the program for another reason.
OnlyCyclesSurvive ==
    phase = "done" /\ todo = <<>> =>
        \A o \in Ids : Live(o) =>
            \/ o \in Statics
            \/ o \in Reach({f \in Ids : heap[f].k = "function" /\ f \in Reach({Globals})
                                       /\ Globals \in Reach({f})})
            \/ o \in Reach({p \in Ids : lost[p] > 0})
=============================================================================
