---------------------------------- MODULE Vm ----------------------------------
(***************************************************************************)
(* The compiler and the virtual machine of one rayscript process: eval in  *)
(* vm.c, run on what CodeGen makes of each input.                          *)
(*                                                                         *)
(* A session is the sequence of inputs the process reads: one program for  *)
(* a file, one statement list per complete line in interactive mode.  An   *)
(* action is an instruction, or a step of eval around the instructions.    *)
(* The logic blocks are here what eval keeps in them; who owns them and    *)
(* when they are freed is in LogicBlocks.                                  *)
(***************************************************************************)
EXTENDS CodeGen

CONSTANTS
    Sessions,   \* the sessions a behaviour may start with
    StackSize   \* STACK_SIZE

\* program: at least one statement in every input.
ASSUME SessionsAssumption == Sessions \subseteq Seq(Seq(Stms) \ {<<>>})

ASSUME StackSizeAssumption == StackSize \in Nat \ {0}

VARIABLES
    session,  \* the inputs, fixed
    k,        \* how many have been read
    mode,     \* where the process is, see Modes
    frames,   \* c->lb and its prev chain, the newest last
    base,     \* Len(frames) when eval was called: the depth of lb_save
    kept,     \* lb_save once it has been popped
    ip,       \* the registers b and i of eval
    globals,  \* the map of global names
    log       \* what the process has written, in order

run == <<session, k, frames, base, kept, ip, globals, log>>
vars == <<session, k, mode, frames, base, kept, ip, globals, log, gen>>

\* visit: code_gen is under way or has returned.  The last four end the
\* process: an assert, R_FATAL, a call through a NULL slot, and a point where
\* what happens next is undefined behaviour.
Modes == {"idle", "visit", "run", "aborted", "fatal", "crashed",
          "undefined"}

(***************************************************************************)
(* A logic block as eval sees it.  stk is the part of its stack in use; pc *)
(* and sp are the saved registers, which new_logic_block_from_exists does  *)
(* not set; at is where its INVOKE was (history: eval saves no block);     *)
(* locals are those of a function (own) or else the globals.               *)
(***************************************************************************)
Garbage == -1
NoFrame == <<>>
NoCall == [b |-> 0, i |-> 1]
MainFrame == [eb |-> 0, cs |-> 1, pc |-> 0, sp |-> 0, at |-> NoCall, stk |-> <<>>,
              own |-> FALSE, locals |-> <<>>]

Top == Last(frames)
Stack == Top.stk

Init ==
    /\ session \in Sessions
    /\ k = 0
    /\ mode = "idle"
    /\ GenInit
    /\ frames = <<MainFrame>>
    /\ base = 1
    /\ kept = NoFrame
    /\ ip = [b |-> 0, i |-> 1]
    /\ globals = <<>>
    /\ log = <<>>

RESULT(v) == [e |-> "result", v |-> IF v.t = "fn" THEN FN(0) ELSE v]
OUTPUT(v) == [e |-> "print",  v |-> IF v.t = "fn" THEN FN(0) ELSE v]
ERROR     == [e |-> "error",  v |-> NIL]

-----------------------------------------------------------------------------
(* Reading an input. *)

\* Mutant: continue_compiler leaves eval_block alone.
CompileKeepingEval ==
    /\ mode = "idle" /\ k < Len(session)
    /\ mode' = "visit"
    /\ k' = k + 1
    /\ Generate(session[k + 1], Top.cs)
    /\ frames' = [frames EXCEPT ![Len(frames)].eb = IF @ = 0 THEN FirstNew ELSE @]
    /\ UNCHANGED <<session, base, kept, ip, globals, log>>

\* code_gen, or what normal_mode does in its place.
Compile ==
    /\ mode = "idle" /\ k < Len(session)
    /\ mode' = "visit"
    /\ k' = k + 1
    /\ Generate(session[k + 1], Top.cs)
    /\ frames' = [frames EXCEPT ![Len(frames)].eb = FirstNew]
    /\ UNCHANGED <<session, base, kept, ip, globals, log>>

VisitTree ==
    /\ mode = "visit" /\ Visit
    /\ mode' = IF failed' THEN "aborted" ELSE mode
    /\ UNCHANGED run

\* eval's prologue: the registers are what c->lb holds.  A saved depth other
\* than 0 counts slots whose objects have been released since.
StartEval ==
    /\ mode = "visit" /\ todo = <<>>
    /\ IF Top.sp # 0
       THEN mode' = "undefined" /\ UNCHANGED <<frames, ip, base>>
       ELSE /\ mode' = "run"
            /\ frames' = [frames EXCEPT ![Len(frames)].stk = <<>>]
            /\ ip' = [b |-> Top.eb, i |-> Top.pc + 1]
            /\ base' = Len(frames)
    /\ UNCHANGED <<session, k, kept, globals, log, gen>>

-----------------------------------------------------------------------------
(* One instruction. *)

Code(b) == blks[b].code
Running == mode = "run" /\ ip.b # 0 /\ ip.i <= Len(Code(ip.b))
Ins == Code(ip.b)[ip.i]
Const(arg) == lists[Top.cs][arg]

\* The end of the loop body: past the last instruction of a block, go to the
\* first of the next block, whatever its length.
Land(b, i) ==
    IF i = Len(Code(b)) + 1 THEN [b |-> blks[b].next, i |-> 1]
    ELSE [b |-> b, i |-> i]

Still == UNCHANGED <<session, k, base, kept, gen>>

\* The stack becomes s and control goes to instruction i of block b.
Goto(b, i, s) ==
    /\ frames' = [frames EXCEPT ![Len(frames)].stk = s]
    /\ ip' = Land(b, i)
    /\ UNCHANGED mode /\ Still
Continue(s) == Goto(ip.b, ip.i + 1, s)

\* QUIT_VM: eval returns, leaving c->lb, its registers and the stacks alone.
QuitVM ==
    /\ mode' = "idle"
    /\ log' = Append(log, ERROR)
    /\ UNCHANGED <<frames, ip, globals>> /\ Still

\* The process ends.
Die(how) ==
    /\ mode' = how
    /\ UNCHANGED <<frames, ip, globals, log>> /\ Still

\* Mutants: STACK_SIZE off by one, upwards and downwards.
PushPastEnd(s, v) ==
    IF Len(s) <= StackSize
    THEN Continue(Append(s, v)) /\ UNCHANGED <<globals, log>>
    ELSE Die("fatal")
PushBeforeEnd(s, v) ==
    IF Len(s) < StackSize - 1
    THEN Continue(Append(s, v)) /\ UNCHANGED <<globals, log>>
    ELSE Die("fatal")

\* STACK_PUSH on what the instruction left of the stack.
PushAndContinue(s, v) ==
    IF Len(s) < StackSize
    THEN Continue(Append(s, v)) /\ UNCHANGED <<globals, log>>
    ELSE Die("fatal")

\* How many objects an instruction takes from the stack, or only looks at.
Pops(ins) ==
    CASE ins.op = "INVOKE" -> ins.arg + 1
      [] ins.op \in {"ADD", "SUB", "MUL", "DIV",
                     "EQ", "NE", "LT", "GT", "LE", "GE"} -> 2
      [] ins.op \in {"PRINT", "POP", "JUMP_TRUE", "JUMP_FALSE"} -> 1
      [] OTHER -> 0
Looks(ins) == IF ins.op \in {"DUP", "STORE_NAME"} THEN 1 ELSE 0

Exec(op) == Running /\ Ins.op = op /\ Len(Stack) >= Pops(Ins) + Looks(Ins)

\* The n-th object from the top, and the stack without the n on top.
FromTop(n) == Stack[Len(Stack) + 1 - n]
Below(n) == SubSeq(Stack, 1, Len(Stack) - n)

\* STACK_POP and STACK_GET on a stack that is too short.
StackEmpty ==
    /\ Running /\ Len(Stack) < Pops(Ins) + Looks(Ins)
    /\ IF Looks(Ins) = 1 THEN Die("fatal") ELSE QuitVM

Push == Exec("PUSH") /\ PushAndContinue(Stack, Const(Ins.arg))

Dup == Exec("DUP") /\ PushAndContinue(Stack, FromTop(1))

PopTop == Exec("POP") /\ Continue(Below(1)) /\ UNCHANGED <<globals, log>>

Bound(map, n) == n \in DOMAIN map /\ map[n] # UNSET
Locals == IF Top.own THEN Top.locals ELSE globals

LoadName ==
    /\ Exec("LOAD_NAME")
    /\ LET n == Const(Ins.arg).v
       IN  IF Bound(Locals, n) THEN PushAndContinue(Stack, Locals[n])
           ELSE IF Bound(globals, n) THEN PushAndContinue(Stack, globals[n])
           ELSE QuitVM

\* map_put: what MapObject shows of it.
Put(map, n, v) == [x \in DOMAIN map \cup {n} |-> IF x = n THEN v ELSE map[x]]

StoreName ==
    /\ Exec("STORE_NAME")
    /\ LET n == Const(Ins.arg).v
           v == FromTop(1)
       IN  /\ globals' = IF Top.own THEN globals ELSE Put(globals, n, v)
           /\ frames' = IF Top.own
                        THEN [frames EXCEPT ![Len(frames)].locals = Put(@, n, v)]
                        ELSE frames
    /\ ip' = Land(ip.b, ip.i + 1)
    /\ UNCHANGED <<mode, log>> /\ Still

PrintTop ==
    /\ Exec("PRINT")
    /\ log' = Append(log, OUTPUT(FromTop(1)))
    /\ Continue(Below(1)) /\ UNCHANGED globals

\* ADD and MUL take their operands in the other order, which only the
\* reported type names show.
Arithmetic ==
    \E op \in {"ADD", "SUB", "MUL", "DIV"} :
        /\ Exec(op)
        /\ LET v == Arith(op, FromTop(2), FromTop(1))
           IN  IF v = NIL THEN QuitVM ELSE PushAndContinue(Below(2), v)

Comparison ==
    \E op \in {"EQ", "NE", "LT", "GT", "LE", "GE"} :
        /\ Exec(op)
        /\ PushAndContinue(Below(2),
                           BOOL(Compare(op, FromTop(2), FromTop(1))))

Jump == Exec("JUMP") /\ Goto(Ins.to, 1, Stack) /\ UNCHANGED <<globals, log>>

JumpTrue ==
    /\ Exec("JUMP_TRUE")
    /\ CASE FromTop(1) = BOOL(TRUE)  -> /\ Goto(Ins.to, 1, Below(1))
                                        /\ UNCHANGED <<globals, log>>
         [] FromTop(1) = BOOL(FALSE) -> /\ Continue(Below(1))
                                        /\ UNCHANGED <<globals, log>>
         [] OTHER -> QuitVM

\* BOOL_EXACT yields one of two objects, never NULL: the test for a value that
\* is not a bool always passes, and such a value jumps.
JumpFalse ==
    /\ Exec("JUMP_FALSE")
    /\ IF FromTop(1) = BOOL(TRUE) THEN Continue(Below(1))
       ELSE Goto(Ins.to, 1, Below(1))
    /\ UNCHANGED <<globals, log>>

\* Mutant: the arguments are appended as they are popped.
ArgumentsReversed(f, given) ==
    [n \in Range(f.ps) |->
        LET i == CHOOSE j \in 1..Len(f.ps) : f.ps[j] = n
        IN  IF i <= Len(given) THEN given[Len(given) + 1 - i] ELSE UNSET]

\* function_invoke: parameters get the arguments there are.
Arguments(f, given) ==
    [n \in Range(f.ps) |->
        LET i == CHOOSE j \in 1..Len(f.ps) :
                    /\ f.ps[j] = n
                    /\ \A l \in j+1..Len(f.ps) : f.ps[l] # n
        IN  IF i <= Len(given) THEN given[i] ELSE UNSET]

\* Only the depth of the stack and the index of the next instruction are
\* saved in the caller, not the block that index is in.
Invoke ==
    /\ Exec("INVOKE")
    /\ IF FromTop(1).t # "fn" THEN Die("crashed")
       ELSE LET f == fns[FromTop(1).v]
                n == Ins.arg
                given == SubSeq(Stack, Len(Stack) - n, Len(Stack) - 1)
                caller == [Top EXCEPT !.stk = Below(n + 1), !.pc = ip.i,
                                      !.sp = Len(Stack) - n - 1, !.at = ip]
                callee == [eb |-> f.blk, cs |-> f.cs, pc |-> Garbage,
                           sp |-> Garbage, at |-> NoCall, stk |-> <<>>,
                           own |-> TRUE, locals |-> Arguments(f, given)]
            IN  /\ frames' = Append(Front(frames), caller) \o <<callee>>
                /\ ip' = Land(f.blk, 1)
                /\ UNCHANGED <<mode, globals, log>> /\ Still

-----------------------------------------------------------------------------
(* No instruction is left in the block: the logic block has run. *)

Ended == mode = "run" /\ ~Running

\* assert(stack_pos == 1).
AssertFails == Ended /\ Len(Stack) # 1 /\ Die("aborted")

\* The caller resumes in its eval_block at its saved index.  Its stack has room:
\* INVOKE took the function from it.
Return ==
    /\ Ended /\ Len(Stack) = 1 /\ Len(frames) > 1
    /\ kept' = IF Len(frames) = base THEN Top ELSE kept
    /\ LET caller == frames[Len(frames) - 1]
           resumed == [caller EXCEPT !.stk = Append(@, Stack[1])]
       IN  /\ frames' = Append(SubSeq(frames, 1, Len(frames) - 2), resumed)
           /\ ip' = [b |-> caller.eb, i |-> caller.pc + 1]
    /\ UNCHANGED <<session, k, mode, base, globals, log, gen>>

\* The last one: c->lb is lb_save again, and its prev was cleared.
Finish ==
    /\ Ended /\ Len(Stack) = 1 /\ Len(frames) = 1
    /\ frames' = <<[(IF base = 1 THEN Top ELSE kept) EXCEPT !.stk = <<>>]>>
    /\ kept' = NoFrame
    /\ log' = Append(log, RESULT(Stack[1]))
    /\ mode' = "idle"
    /\ UNCHANGED <<session, k, base, ip, globals, gen>>

Next ==
    \/ Compile \/ VisitTree \/ StartEval
    \/ Push \/ Dup \/ PopTop \/ LoadName \/ StoreName \/ PrintTop
    \/ Arithmetic \/ Comparison \/ Jump \/ JumpTrue \/ JumpFalse
    \/ Invoke \/ StackEmpty
    \/ AssertFails \/ Return \/ Finish

\* eval is a loop on one thread: it does not stop between two instructions,
\* and the process reads on until the session ends.
Spec == Init /\ [][Next]_vars /\ WF_vars(Next)
=============================================================================
