----------------------------- MODULE LogicBlocks -----------------------------
(***************************************************************************)
(* The life of logic blocks: the activation records of rayscript.          *)
(*                                                                         *)
(* A logic_block is reference counted, linked to the block below it by     *)
(* prev, and recycled through a free list instead of being freed.  The     *)
(* same structure serves three masters: the top level of the program       *)
(* (c->head_lb), the code of a function while it is compiled and then as   *)
(* long as the function object lives, and one frame per running call.      *)
(* References are taken and dropped by hand in visitor.c, opcode.c,        *)
(* function_object.c and vm.c; the question of this module is whether they *)
(* balance, so that no block is recycled while something still uses it.    *)
(*                                                                         *)
(* Two variables are history: frames (who called whom) and leak (the       *)
(* references that no code will drop).  No guard reads them except through *)
(* the bound MaxLeak.                                                      *)
(***************************************************************************)
EXTENDS Naturals, Sequences

CONSTANTS
    LB,      \* the addresses malloc can return for a logic_block
    NULL,    \* the null pointer
    MaxLeak  \* bound: evals that may quit with one block at the top

ASSUME NullAssumption == NULL \notin LB
ASSUME MaxLeakAssumption == MaxLeak \in Nat

VARIABLES
    rc,       \* refcnt of every block
    prev,     \* lb->prev
    lb,       \* c->lb
    head,     \* c->head_lb
    interactive,  \* interactive_mode (TRUE) or normal_mode (FALSE), fixed
    cache,    \* the list hanging from lb_cache_head, next block to reuse first
    used,     \* the blocks malloc has handed out
    code,     \* the blocks function objects point to (f->code)
    defs,     \* the local lb of every visit_function_def on the C stack
    lb_save,  \* the local of eval
    phase,    \* where interactive_mode or normal_mode is
    frames,   \* history: the blocks eval runs or will return to, bottom first
    leak      \* history: references of each block nobody will drop

vars == <<rc, prev, lb, head, interactive, cache, used, code, defs, lb_save, phase,
          frames, leak>>

Phases == {"idle", "compile", "eval", "evaled", "closing", "done"}

Top(s) == s[Len(s)]
Pop(s) == SubSeq(s, 1, Len(s) - 1)
Occurs(s) == {s[i] : i \in 1..Len(s)}
Injective(s) == \A i, j \in 1..Len(s) : s[i] = s[j] => i = j

Inc(r, l) == [r EXCEPT ![l] = @ + 1]
Dec(r, l) == [r EXCEPT ![l] = @ - 1]

\* Mutant: the destructor frees the fields and forgets return_to_lb_cache.
FreedNotReturned(r, l, c) == c

\* destruct_logic_block runs when DEC_REF brings the count to 0.
Freed(r, l, c) == IF r[l] = 0 THEN <<l>> \o c ELSE c

-----------------------------------------------------------------------------
\* Mutant: the borrowed block stays linked from lb_cache_head.
BorrowStillLinked(l) ==
    IF cache = <<>>
    THEN l \in LB \ used /\ used' = used \cup {l} /\ cache' = cache
    ELSE l = Head(cache) /\ used' = used /\ cache' = cache

\* borrow_lb_from_cache: the last block returned, else one malloc never gave.
Borrow(l) ==
    IF cache = <<>>
    THEN l \in LB \ used /\ used' = used \cup {l} /\ cache' = cache
    ELSE l = Head(cache) /\ used' = used /\ cache' = Tail(cache)

\* Mutant: prev is left as new_logic_block_from_exists leaves it.
PushWithoutPrev(l) == lb' = l /\ prev' = prev

\* compiler_push_logic_block, its INC_REF apart.
Push(l) == lb' = l /\ prev' = [prev EXCEPT ![l] = lb]

Init ==
    \E h \in LB :
        /\ head = h /\ lb = h /\ used = {h} /\ interactive \in BOOLEAN
        /\ rc = [l \in LB |-> IF l = h THEN 1 ELSE 0]
        /\ prev = [l \in LB |-> NULL]
        /\ cache = <<>> /\ code = {} /\ defs = <<>>
        /\ lb_save = NULL /\ phase = "idle"
        /\ frames = <<h>> /\ leak = [l \in LB |-> 0]

\* A statement (the whole file in normal_mode) was parsed: continue_compiler.
StartCompile ==
    /\ phase = "idle"
    /\ phase' = "compile"
    /\ UNCHANGED <<rc, prev, lb, head, interactive, cache, used, code, defs,
                   lb_save,
                   frames, leak>>

\* visit_function_def up to its body: new_logic_block gives one reference to
\* the local lb, the push takes another for the chain.
EnterFunction(l) ==
    /\ phase = "compile"
    /\ Borrow(l)
    /\ Push(l)
    /\ rc' = [rc EXCEPT ![l] = 2]
    /\ defs' = Append(defs, l)
    /\ UNCHANGED <<head, interactive, code, lb_save, phase, frames, leak>>

\* Mutant: new_function_object does not count its code.
LeaveFunctionUncounted ==
    /\ phase = "compile"
    /\ defs # <<>>
    /\ LET old  == lb
           mine == Top(defs)
       IN  /\ lb' = prev[old]
           /\ prev' = [prev EXCEPT ![old] = NULL]
           /\ rc' = Dec(Dec(rc, old), mine)
           /\ cache' = Freed(rc', old, cache)
           /\ code' = code \cup {mine}
    /\ defs' = Pop(defs)
    /\ UNCHANGED <<head, interactive, used, lb_save, phase, frames, leak>>

\* Mutant: the DEC_REF(lb) after new_function_object is missing.
LeaveFunctionHolding ==
    /\ phase = "compile"
    /\ defs # <<>>
    /\ LET old  == lb
           mine == Top(defs)
       IN  /\ lb' = prev[old]
           /\ prev' = [prev EXCEPT ![old] = NULL]
           /\ rc' = Inc(Dec(rc, old), mine)
           /\ cache' = Freed(rc', old, cache)
           /\ code' = code \cup {mine}
    /\ defs' = Pop(defs)
    /\ UNCHANGED <<head, interactive, used, lb_save, phase, frames, leak>>

\* visit_function_def after its body: pop, DEC_REF(old), new_function_object
\* (INC_REF(code)), DEC_REF(lb).  old is c->lb, lb the local of this visit.
LeaveFunction ==
    /\ phase = "compile"
    /\ defs # <<>>
    /\ LET old  == lb
           mine == Top(defs)
       IN  /\ lb' = prev[old]
           /\ prev' = [prev EXCEPT ![old] = NULL]
           /\ rc' = Dec(Inc(Dec(rc, old), mine), mine)
           /\ cache' = Freed(rc', old, cache)
           /\ code' = code \cup {mine}
    /\ defs' = Pop(defs)
    /\ UNCHANGED <<head, interactive, used, lb_save, phase, frames, leak>>

\* Mutant: eval takes no reference for the pop at its end.
StartEvalUncounted ==
    /\ phase = "compile"
    /\ defs = <<>>
    /\ phase' = "eval"
    /\ lb_save' = lb
    /\ UNCHANGED <<rc, prev, lb, head, interactive, cache, used, code, defs,
                   frames, leak>>

\* eval: INC_REF(c->lb), lb_save = c->lb.
StartEval ==
    /\ phase = "compile"
    /\ defs = <<>>
    /\ phase' = "eval"
    /\ rc' = Inc(rc, lb)
    /\ lb_save' = lb
    /\ UNCHANGED <<prev, lb, head, interactive, cache, used, code, defs,
                   frames, leak>>

\* Mutant: INVOKE keeps the reference that OBJ_INVOKE returned.
InvokeHolding(l) ==
    /\ phase = "eval"
    /\ code # {}
    /\ Borrow(l)
    /\ Push(l)
    /\ rc' = [rc EXCEPT ![l] = 2]
    /\ frames' = Append(frames, l)
    /\ UNCHANGED <<head, interactive, code, defs, lb_save, phase, leak>>

\* INVOKE of a function object: new_logic_block_from_exists borrows a block
\* with one reference, the push takes one, DEC_REF(new_lb) drops one.
Invoke(l) ==
    /\ phase = "eval"
    /\ code # {}
    /\ Borrow(l)
    /\ Push(l)
    /\ rc' = [rc EXCEPT ![l] = 1]
    /\ frames' = Append(frames, l)
    /\ UNCHANGED <<head, interactive, code, defs, lb_save, phase, leak>>

\* The end of the inner loop of eval: the block on top is popped and dropped;
\* when none is left, c->lb = lb_save and eval ends.
EndFrame ==
    /\ phase = "eval"
    /\ LET old  == lb
           last == prev[old] = NULL
       IN  /\ lb' = IF last THEN lb_save ELSE prev[old]
           /\ prev' = [prev EXCEPT ![old] = NULL]
           /\ rc' = Dec(rc, old)
           /\ cache' = Freed(rc', old, cache)
           /\ phase' = IF last THEN (IF interactive THEN "idle" ELSE "evaled")
                       ELSE "eval"
           /\ frames' = IF last THEN <<lb_save>> ELSE Pop(frames)
    /\ UNCHANGED <<head, interactive, used, code, defs, lb_save, leak>>

\* QUIT_VM: goto clear.  Nothing is popped, nothing is dropped: the reference
\* eval took on lb_save stays, and so does the one that keeps the bottom of
\* the chain for its pop, unless that pop is still to come.
Quit ==
    /\ phase = "eval"
    /\ leak' = [l \in LB |-> leak[l]
                  + (IF l = lb_save /\ l # head THEN 1 ELSE 0)
                  + (IF l = head /\ frames = <<head>> THEN 1 ELSE 0)]
    /\ \A l \in LB : leak'[l] <= MaxLeak
    /\ phase' = IF interactive THEN "idle" ELSE "evaled"
    /\ UNCHANGED <<rc, prev, lb, head, interactive, cache, used, code, defs,
                   lb_save, frames>>

\* destruct_compiler: DEC_REF(head_lb); its destructor drops the globals and
\* the constants, and with them the function objects, before the block itself
\* goes to the cache.  normal_mode only, also when the file was empty.
DestructCompiler ==
    /\ ~interactive
    /\ phase \in {"idle", "evaled"}
    /\ rc' = Dec(rc, head)
    /\ phase' = IF rc'[head] = 0 THEN "closing" ELSE "done"
    /\ UNCHANGED <<prev, lb, head, interactive, cache, used, code, defs,
                   lb_save, frames,
                   leak>>

\* destruct_function_object: DEC_REF(self->code).  Not of every function: one
\* that a global still names is on a cycle (its code holds the globals, the
\* globals hold it) and outlives the process's last DEC_REF.
ReleaseFunction(l) ==
    /\ phase = "closing"
    /\ l \in code
    /\ code' = code \ {l}
    /\ rc' = Dec(rc, l)
    /\ cache' = Freed(rc', l, cache)
    /\ UNCHANGED <<prev, lb, head, interactive, used, defs, lb_save, phase,
                   frames, leak>>

\* The end of the head block's destructor: return_to_lb_cache.
ReturnHead ==
    /\ phase = "closing"
    /\ cache' = <<head>> \o cache
    /\ phase' = "done"
    /\ UNCHANGED <<rc, prev, lb, head, interactive, used, code, defs, lb_save,
                   frames, leak>>

\* exit(0) at the end of the input, or the end of main.
Exit ==
    \/ /\ interactive /\ phase = "idle" /\ phase' = "done"
       /\ UNCHANGED <<rc, prev, lb, head, interactive, cache, used, code,
                      defs, lb_save, frames, leak>>
    \/ phase = "done" /\ UNCHANGED vars

Next ==
    \/ StartCompile
    \/ \E l \in LB : EnterFunction(l) \/ Invoke(l) \/ ReleaseFunction(l)
    \/ LeaveFunction
    \/ StartEval
    \/ EndFrame
    \/ Quit
    \/ DestructCompiler
    \/ ReturnHead
    \/ Exit

Spec == Init /\ [][Next]_vars

-----------------------------------------------------------------------------
\* The variables stay in their domains (the structs of vm.h:94-117 and the
\* phases of interactive_mode and normal_mode).
TypeOK ==
    /\ rc \in [LB -> Nat]
    /\ prev \in [LB -> LB \cup {NULL}]
    /\ lb \in LB /\ head \in LB /\ interactive \in BOOLEAN
    /\ cache \in Seq(LB)
    /\ used \in SUBSET LB /\ code \in SUBSET LB
    /\ defs \in Seq(LB) /\ frames \in Seq(LB)
    /\ lb_save \in LB \cup {NULL}
    /\ phase \in Phases
    /\ leak \in [LB -> Nat]

B(b) == IF b THEN 1 ELSE 0

\* The head block has its reference from new_compiler until destruct_compiler.
HeadRef(l) == l = head /\ (interactive \/ phase \notin {"closing", "done"})

\* A chain member has the reference of its push.  The bottom block was never
\* pushed: while eval runs, the INC_REF at its start stands for the push.
AtRest == phase # "eval" /\ frames = <<head>>
ChainRef(l) == l \in Occurs(frames) /\ ~(AtRest /\ l = head)

\* eval's reference on lb_save, once it is not the one just described.
SaveRef(l) == phase = "eval" /\ l = lb_save /\ l # head

\* The references to l that some code will use and drop: one for each holder,
\* two for a function under compilation (its chain link and the visit's local).
Need(l) ==
    B(HeadRef(l)) + B(l \in code) + 2 * B(l \in Occurs(defs))
      + B(ChainRef(l)) + B(SaveRef(l))

\* The blocks whose content the program may still read or write.
Reachable ==
    {lb} \cup code \cup Occurs(defs) \cup Occurs(frames)
      \cup (IF phase = "eval" THEN {lb_save} ELSE {})

\* Every count is the number of references that exist, no more and no less,
\* apart from those a quit abandoned: the INC_REF and DEC_REF spread over
\* visit_function_def, new_function_object, INVOKE, eval and the destructors
\* balance on every path (visitor.c:27-55, vm.c:37-289, opcode.c).
RefcntExact == \A l \in LB : rc[l] = Need(l) + leak[l]

\* The free list holds each block once, and only blocks whose count is 0: a
\* block returned twice would be two frames at once (opcode.c:20-39).
CacheSound ==
    /\ Injective(cache)
    /\ \A l \in Occurs(cache) : l \in used /\ rc[l] = 0

\* No block the program still reaches (c->lb, a caller to return to, the block
\* eval restores at its end, the code of a function) is in the free list, where
\* the next INVOKE would overwrite it.
NoDangling ==
    phase \notin {"closing", "done"} => Reachable \cap Occurs(cache) = {}

\* A block with no reference is in the free list: none is lost, whatever the
\* order in which calls return and destructors run (opcode.c:49-61).
NothingLost ==
    \A l \in used : rc[l] = 0 =>
        l \in Occurs(cache) \/ (l = head /\ phase = "closing")

\* Following prev from c->lb visits exactly the functions under compilation,
\* then the running calls, innermost first: a return reaches the caller that
\* made the call, however blocks were recycled in between (opcode.c:108-123).
Chain == frames \o defs
ChainIsStack ==
    /\ Len(frames) > 0
    /\ lb = Top(Chain)
    /\ prev[Chain[1]] = NULL
    /\ \A i \in 2..Len(Chain) : prev[Chain[i]] = Chain[i - 1]
    /\ Injective(Chain)

\* A program that ran to its end gives back every block but the code of the
\* functions that outlive it (destruct_compiler and the destructors it sets
\* off, opcode.c:134-140): only a quit leaks anything else, by the reference of
\* lb_save or by the frames it leaves in the chain.
AllReturned ==
    phase = "done" /\ ~interactive /\ frames = <<head>>
      /\ (\A l \in LB : leak[l] = 0) =>
        Occurs(cache) = used \ code

\* A call never gets a block that is still needed: not a running caller, not
\* the block eval restores, not the code of a function (vm.c:65-75).
FreshFrame ==
    [][Len(frames') > Len(frames) => Need(Top(frames')) = 0 /\ rc[Top(frames')] = 0]_vars
=============================================================================
