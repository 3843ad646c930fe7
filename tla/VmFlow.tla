-------------------------------- MODULE VmFlow --------------------------------
(***************************************************************************)
(* What the compiler and the virtual machine do with the stack: every path *)
(* through the code leaves it at the same depth, so that it overflows only *)
(* where one expression is too deep.                                       *)
(***************************************************************************)
EXTENDS Vm, FiniteSets

\* Shape of the state.  After an error in a call, base may be the depth of
\* blocks that have been popped.
TypeOK ==
    /\ session \in Sessions /\ k \in 0..Len(session)
    /\ mode \in Modes
    /\ \A x \in 1..Len(blks) : blks[x].next \in 0..Len(blks)
    /\ frames # <<>> /\ base \in Nat \ {0}
    /\ \A x \in 1..Len(frames) :
           /\ frames[x].eb \in 0..Len(blks)
           /\ frames[x].cs \in 1..Len(lists)
           /\ Len(frames[x].stk) <= StackSize
    /\ ip.b \in 0..Len(blks) /\ ip.i \in Nat \ {0}
    /\ \A x \in 1..Len(log) : log[x].e \in {"print", "result", "error"}

\* An instruction finds its operand: its constant is one of the logic block it
\* runs in, whichever call or error came before, and its jump leads to a block.
OperandThere ==
    Running =>
        /\ Ins.op \in {"PUSH", "LOAD_NAME", "STORE_NAME"} =>
               Ins.arg \in 1..Len(lists[Top.cs])
        /\ Ins.op \in {"JUMP", "JUMP_TRUE", "JUMP_FALSE"} =>
               Ins.to \in 1..Len(blks)

-----------------------------------------------------------------------------
(* The code that visitor.c emits. *)

Pushes(ins) ==
    IF ins.op \in {"STORE_NAME", "PRINT", "POP", "JUMP", "JUMP_TRUE",
                   "JUMP_FALSE"} THEN 0 ELSE 1

\* A point <<block, index, depth>> of a control flow, and the points after it.
After(p) ==
    LET b == p[1]
        i == p[2]
        d == p[3]
    IN  IF i > Len(Code(b))
        THEN IF blks[b].next = 0 THEN {} ELSE {<<blks[b].next, 1, d>>}
        ELSE LET ins == Code(b)[i]
                 left == d - Pops(ins) + Pushes(ins)
             IN  (IF ins.op = "JUMP" THEN {} ELSE {<<b, i + 1, left>>})
                 \cup
                 (IF ins.op \in {"JUMP", "JUMP_TRUE", "JUMP_FALSE"}
                  THEN {<<ins.to, 1, left>>} ELSE {})

Onwards(points) == points \cup UNION {After(p) : p \in points}

\* The positions in the code: each instruction, and the end of each block.
Positions == UNION {{b} \X (1..Len(Code(b)) + 1) : b \in 1..Len(blks)}

\* The points that are reached from the start of b in as many steps as there
\* are positions: all of them, or two at one position.
FlowFrom(b) ==
    LET from[n \in 0..Cardinality(Positions)] ==
            IF n = 0 THEN {<<b, 1, 0>>} ELSE Onwards(from[n - 1])
    IN  from[Cardinality(Positions)]
Entries == {Top.eb} \cup {fns[f].blk : f \in 1..Len(fns)}

Balanced(flow) ==
    /\ \A p, q \in flow : p[1] = q[1] /\ p[2] = q[2] => p[3] = q[3]
    /\ \A p \in flow :
           IF p[2] <= Len(Code(p[1]))
           THEN LET ins == Code(p[1])[p[2]] IN p[3] >= Pops(ins) + Looks(ins)
           ELSE blks[p[1]].next = 0 => p[3] = 1

\* No body is empty, "LB eols RB": visit_compound_statement emits nothing for
\* one, and the code around it finds no value.
NoEmptyBody ==
    /\ \A e \in Exps : e.k = "fn" => e.body # <<>>
    /\ \A s \in Stms :
           /\ s.k \in {"block", "for"} => s.body # <<>>
           /\ s.k = "if" => s.then # <<>> /\ (s.els # <<>> => s.els[1] # <<>>)

\* Whatever branches are taken, an instruction finds the stack at one depth,
\* with its operands on it, and the code of an input or of a function ends
\* with one object: each visitor of visitor.c leaves exactly its value.
CodeBalanced == mode = "visit" /\ todo = <<>> => \A b \in Entries : Balanced(FlowFrom(b))

\* "Stack overflow!" ends the process only when some code needs more than
\* STACK_SIZE slots: no path through loops and branches piles up objects.  A
\* block that has made a call may have resumed in other code: see CallerResumes.
OverflowNeedsDepth ==
    mode = "fatal" /\ Top.at = NoCall =>
        \E b \in Entries : \E p \in FlowFrom(b) : p[3] > StackSize

\* A logic block that has made no call never finds the stack too short ("Stack
\* empty", vm.h:61 and vm.h:74), and once past the last of its code blocks it
\* holds one object, as eval asserts (vm.c:262).  Landing on an empty code block
\* ends it sooner, see vm.c:254; after a call, see CallerResumes.
OperandsOnStack ==
    mode = "run" /\ Top.at = NoCall =>
        /\ Running => Len(Stack) >= Pops(Ins) + Looks(Ins)
        /\ ip.b = 0 => Len(Stack) = 1

\* The assertion at the end of a logic block, vm.c:262.
OneValueLeft == Ended => Len(Stack) = 1

\* The assertion of DEC_REF on the nil literals, object.h:89.
CountNotNegative == nilref >= 0

-----------------------------------------------------------------------------
(* What eval does. *)

\* A call returns to the instruction after its INVOKE, in the block that it is
\* in: INVOKE says it stores the runtime (vm.c:69).  It stores an index and no
\* block, so this is false of a call outside the first block of its code.
CallerResumes ==
    [][Len(frames') < Len(frames) /\ Len(frames) > 1 =>
          LET call == frames[Len(frames) - 1].at
          IN  ip' = [call EXCEPT !.i = @ + 1]]_vars
=============================================================================
