# A verification project for rayscript

rayscript is a small scripting language: a parser builds a tree, `visitor.c`
turns the tree into instructions, `vm.c` executes them. This directory holds
TLA+ models of the parts in which state is kept by hand (reference counts, free
lists, saved registers, a hash table, a growing array), TLC configurations that
check them, and machine-checked proofs about the logic blocks, the code generator
and the virtual machine, the references of values, the maps, the lists and the
allocator.

Paths are those of the repository (`src/vm/vm.c`, ...).

## 1. Inventory

| Component | State | Operations | Hard because | What makes it correct |
|---|---|---|---|---|
| Logic blocks (`opcode.c`, `vm.c`, `function_object.c`, `visitor.c`) | `refcnt`, `prev`, `c->lb`, `c->head_lb`, `lb_cache_head`, `f->code`, `lb_save` | push, pop, borrow, return, `INVOKE`, end of block, quit, destructors | one structure serves as top level, function under compilation, function code and call frame; counts are moved by hand; freed blocks are recycled at the same address | counts exact, no block recycled while reachable, none lost, `prev` is the call stack |
| Code generator (`visitor.c`, `opcode.c`) | code blocks, constant lists, current block | one visitor per node type | blocks are linked as they are filled; constants are shared by `OBJ_EQ` | every path leaves exactly one value |
| Virtual machine (`vm.c`, `vm.h`) | registers `b`, `i`, `stack_pos`; saved `pc`, `stack_pos`; stacks; names | one instruction each, quit, end of block | registers are saved only in part; errors leave `eval` in the middle; a process outlives its errors in interactive mode | it writes what the program means |
| Values (`number_object.c`, `string_object.c`, `object.c`, ...) | immutable | equality, order, arithmetic | dispatch on the first operand; memory of another type read as a number | what the operators are used for above |
| Map (`map_object.c`, `string_object.c`) | table, chains, size | `map_put`, `map_get`, resize, destructor | the resize loop changes the links it follows; a hash may be negative | a table of names, each entry in one place |
| List (`list_object.c`) | table, size, capacity | append, insert, remove, get, find, destructor | capacity checked with the wrong factor; remove copies the wrong items | gives back what was put in; nothing written behind the table |
| References of values (`object.h`) | `refcnt` of every object | `INC_REF`, `DEC_REF` | by hand, in every file; destructors run in the middle of an instruction; rings through the globals | counts exact, nothing read after it was freed, nothing left but rings |
| Driver (`rayscript_parser.y`, 399-487) | parser state, the compiler across inputs | read, compile, eval | errors in the middle, state kept between inputs | inputs independent but for their names |
| Grammar, lexer | - | text to tree | generated | - |
| Allocator (`memory/`) | pages, offsets, free lists in the blocks | `r_malloc`, `r_free` | the list lies in memory that callers write; a page has an end and no successor | no block handed out twice, none lost |

Interactions: the driver calls `code_gen` and `eval` in turn on one `compiler`.
Both use the chain `c->lb`: `code_gen` to nest function definitions, `eval` to
nest calls. `INVOKE` calls back through the type's `__invoke` slot into
`function_object.c`, which borrows a logic block. Destructors run inside
`DEC_REF`, wherever a count reaches zero. There is one thread, and no
persistent state.

The hazards of the code, each at its line and with the properties that watch
it, are listed in `PROJECT.json`.

## 2. Modules

    LogicBlocks ──┬─ MCLogicBlocks        AbstractMap
                  └─ LogicBlocksProofs        └── MapObject ─┬─ MCMapObject
    ListObject ───┬─ MCListObject                            └─ MapObjectProofs
                  └─ ListObjectProofs     AbstractPool
    Counting ─┬─ Ownership ─┬─ MCOwnership    └── Allocator ── AllocatorProofs
              │             └─ OwnershipSteps ── OwnershipProofs
              └─ SharedLemmas (used by MapObjectProofs, ListObjectProofs,
                               OwnershipSteps and VmProofs)
    Values ──┬── CodeGen ── Vm ── VmFlow ─┬─ VmProofs
             │                            ├─ MCVm ─────────────┐
             └── Meaning ──┐              └─ VmCorrect ────────┴── MCPromise
                 Language ─┴─────────────────┘

**LogicBlocks** is the life of logic blocks and nothing else. Its actions are
the pieces of code between two points at which another piece may follow:
`EnterFunction` and `LeaveFunction` are the two halves of
`visit_function_def` around the visit of the body, so that definitions nest in
any way; `StartEval`, `Invoke`, `EndFrame` and `Quit` are the prologue of
`eval`, `INVOKE` of a function, the end of its inner loop, and `QUIT_VM`;
`DestructCompiler`, `ReleaseFunction` and `ReturnHead` are `destruct_compiler`
with the destructors it sets off. Which instruction runs is not modelled: any
number of calls may happen, and a quit at any moment, so the module covers
every program. Function objects live as constants of the logic block their
definition stands in, until the head block is destroyed. Two history variables
say what the counts should be: `frames` is the stack of calls, `leak` counts
the references a quit abandons. `interactive` is chosen in `Init`, so that one
instance has both modes.

**CodeGen** is `visitor.c`. The visitors are recursive; the model keeps what is
left to do as a list of items (`todo`), and each action is what one visitor does
before, between or after the visits it calls. Code blocks, constant lists and
function objects are numbered in the order they are made. `store_obj` shares
constants by `Compare("EQ", ...)`, as the code does. Of the reference counts
it has that of nil only, which the compiler moves. `Exps` and `Stms` are the
trees of the sessions, every subtree with its tree: `GrammarAssumption` says of each
what the grammar builds (a literal, a name, an operator of two expressions, and so
on), so that theorems can speak of all trees without an induction over them.

**Vm** is `eval` on that code: one action per instruction, `Land` for the step
to the next block, `QuitVM` and `Die` for the ways out. A frame keeps what a
logic block keeps (`eval_block`, saved `pc` and `stack_pos`, its part of the
stack, its names). `Compile` is `continue_compiler`. A process ends in one of
four modes: `aborted` (an assertion), `fatal` (`R_FATAL`), `crashed` (a NULL
function pointer), `undefined` (registers that `new_logic_block_from_exists`
never set). What follows undefined behaviour is not modelled: the behaviour
stops there, and no property says anything of what is written afterwards.
`SessionsAssumption`: every input has at least one statement, as the grammar asks.

**VmFlow** is what must hold of code and machine without looking at what a program
means: `FlowFrom` is the control flow of the emitted code, as points of block, index
and depth of the stack, followed for as many steps as there are positions in the code.
`CodeBalanced` says of it that a position is reached at one depth, with the operands of
its instruction there, and that the end is reached with one object; `OperandsOnStack`,
`OperandThere` and `OverflowNeedsDepth` say what the machine does with such code, and
`CallerResumes` what `INVOKE` says it does and does not (`VmCallInFor`). `NoEmptyBody` is the one condition on programs:
no body is `{ }`.

**Values** is the part of the operators the others need. `number_equals` reads
its second operand as a number whatever it is; what it finds behind nil and
behind any other object are two constants, `NilReads` and `FarReads`. The run
configurations take 0 and 1000, what an x86-64 build of gcc was seen to give for
nil, and a number no program of the runs has for the rest.

**Meaning** is the abstract specification of a session: a recursive evaluation of
the tree without blocks, constants, stack or registers, in which an error ends its
own input. **Language** turns it into behaviours: the promised lines are written
one after the other, and all of them are written. **VmCorrect** states that Vm
implements Language (`Promise`), and the part of it that is safety (`NothingElseWritten`).
`PromisedSpec` is Vm's specification with a variable `promised`, which is computed
once, in the initial state, and never changes; every behaviour of it is one of Vm.

**MapObject** is `map_object.c` over the hash of `string_object.c`. A dictionary is the
sequence of names in which a program puts them for the first time; between these it may
put and get what is there, in any order. A `map_put` is
a call (`CallPut`) and the steps that carry it out; the resize is one step per turn
of its two loops, and so is the destructor. A name is its character codes and
`Hash` adds up what `string_object_hash` does, which is every other character,
wrapping at `LongValues`. `Wild` is an index in front of the table; what happens
there is undefined, and nothing is said of it but when it can happen. `Tame` says
which dictionaries a map is good for, the `Few` and the `Scattered`; of the others
`MapMeets` shows one.
**AbstractMap** is what a table of names promises.

**Ownership** is the references between objects: maps, lists, logic blocks,
functions and values with their counts and fields, the stacks, and `ret`. Like
LogicBlocks it leaves open which instruction comes next, as long as its operands
are there, and so covers every program within its bounds. An instruction is a list
of operations in the order of the code (`todo`), and each is a step: an increment or a
decrement (`INC`, `DEC`, which do nothing with NULL), a value counted and stored in a
field (`SET`), `map_put`, `list_append` and `list_prepend` (`PUT`, `APPEND`, `PREPEND`),
a read, the end of a destructor (`FREED`). A count that reaches 0 puts its destructor in
front of what is left, and a `map_put` the drop of the value it replaces. An object comes
to life with its fields NULL, as the constructors of `opcode.c` and `function_object.c`
find it, and the operations fill them.
So it shows what is freed in the middle of `map_put`, of `INVOKE` or of an error.
Of `visit_factor` it has each kind of literal (`StoreNumber`, `StoreBool`, `StoreNil`),
and the nil of a missing else (`FakeElse`). A nil literal drops a reference that nobody
took: `nilref` is `nil->refcnt`, `nils` (history) the number of nil literals, and nil's
entry in `heap` the count as it should be. Where `nilref` is 0 the assertion of `DEC_REF`
stops the process. true and false are one object, `Static`.
`lost` is history: what a quit left on the stacks. Addresses are used again as soon
as they are free (`Fresh`). **Counting** is how often something stands in a function
or in several: what a count is compared with.

**ListObject** is `list_object.c`, with the cells behind the table, which belong to
other blocks (`OthersWrite`) and may or may not survive a `realloc`. `seq`, `sure`, `held`
and `removed` are history and say what the list should hold; `sure` is `seq` without the
items that have lain behind the table, in other blocks' memory.

**Allocator** is `memory/allocator.c`: one page for each of its two classes, the
request of no bytes and that of up to eight. `memory` is what lies in the blocks, so
that the free list is only as good as what its blocks hold. `held` and `freed` are
history. Callers write into what they hold and free it once; they do not pass
pointers of `malloc`, of which `r_free` would take anything. **AbstractPool** is what a
pool of equal blocks promises; `IsAPool` maps the allocator to it, with the blocks of
one byte or more that are held as `taken` and what is asked of the other class as `Other`.

The MC modules hold the constants' values; **MCVm** has the sessions, with all their
trees and the assumption that no body is empty, and **MCPromise** joins it with VmCorrect. A definition named as a mutant in a
comment (`LeaveFunctionUncounted`, `VisitIfFallingThrough`, ...) is a plausible
mistake in the code and is used by nothing else: each property has one that it
must catch.

## 3. Runs

| Run | Shows | Bounds |
|---|---|---|
| `LogicBlocks` | counts exact, free list sound, nothing dangling or lost, chain is the call stack, frames fresh, everything returned | both modes, 6 symmetric blocks; `MaxLeak` 2 |
| `VmSessions` | balanced code; Vm implements Language | 460 files with every statement form in every other (`StatementFiles`), 84 with calls (`CallFiles`: 7 bodies, 12 uses), 392 interactive sessions of 3 or 4 inputs, some of which fail (`ReplSessions`) |
| `VmOdd` | shape of the state, constants and blocks found, balanced code, operands on the stack, overflow only where one expression is too deep | `StackSize` 3; `OddSessions`: 10 lines in 3 or 6 inputs, and `DeepSessions`: 7 statements in two nested loops |
| `Map` | the map implements the abstract map, every put ends, each entry in one place and destructed once, short names stay inside | tables of 4 and 6 buckets; names in every order: three of which two collide, four that stay in their buckets while the table grows, three that all leave them (then one makes the table grow and a fifth collides), three whose hash overflows 16 bits |
| `Ownership` | counts exact between instructions, that of nil but for the nil literals, nothing freed is touched, only rings survive | 16 objects, 2 stack slots, 2 literals, missing elses or functions, one name, at most 4 of blocks and constants together |
| `ListObject` | gives back what has stayed in its table, before and after it grows; references returned, room for the default size | default size 2, sizes 1 and 3, 6 insertions, 2 objects |
| `Allocator` | no block twice, free list sound, refuses only when full; implements the abstract pool | a page of 7 units with a header of 3, 3 holders of the empty block |
| `VmCallInFor`, `VmCallThenLine`, `VmNilLiterals`, `VmZeroThenNoElse`, `MapMeets` | a disagreement between the code and what the repository says of it | one session, or one set of four names in every order, each |

Bounds. A logic block is one of three things and its neighbours on the chain
and the free list matter, no further ones: six blocks give a head, two functions
and three frames, or nested definitions of depth five. `MaxLeak` bounds how many
evals may quit on one block; every further quit adds the same to `leak` and to
`rc`. Both bounds are gone in the theorems, and so are those of lists (six
insertions overrun the table of two or three and pass its growth, with items that stay in
it) and of the
allocator (a page of four blocks can be used, freed and refused in every order).
In Ownership two constants give a function and a value, a function in a function,
or two functions that hold each other through one name; a second name or a third
slot adds references of the same kinds. A sum of three characters overflows the
sixteen bits of the run as one of thirteen overflows a `long` of 64. `Fuel` (20) bounds what Meaning
evaluates; the programs of the runs stop before it is used up. `StackSize` is 10, as in
`vm.h`, except in `VmOdd`. Numbers are small because their size is not in
question here.

What the violation runs show: a call in the body of a for returns to the first block of
its caller, since `INVOKE` saves `pc` without the block it counts in (`vm.c:71`, `271`);
the input after a call starts at a stale index and aborts; three nil literals abort the
compiler; a missing else can yield 0; a resize of the map can go round for ever.
Each is quoted in `PROJECT.json` with the assertion or comment it contradicts.

The regular sessions leave such programs out, since Promise does not hold of them:
calls stand in the first code block of their caller, an interactive session has a
call in its last input only, bodies are not empty, no else ends in an if or a for
that another statement follows, conditions are bools, and no program mixes constants
that compare equal. `VmOdd` brings most of them back under the properties that must
hold all the same. Five more were met while modelling and have no run, since nothing in
the repository says otherwise:

- an empty body leaves no value, and the program aborts at `vm.c:262`;
- `if 1` is no type error but takes the else, since the check at `vm.c:232` compares
  a pointer with NULL;
- an else whose last statement is an if ends the program there: the step to the next
  block (`vm.c:254-260`) is taken once, and the block in between is empty;
- a key whose bucket changes when the table grows is linked into its old bucket
  (`map_object.c:126`), where `map_get` does not look;
- the 17th to the 24th item of a list are written behind its table, since
  `list_ensure_size` compares with the wrong factor (`list_object.c:54`): ListObject has
  this as `overrun`, and its properties say what holds before and after.

## 4. Fairness and deadlock

LogicBlocks, Ownership, ListObject and Allocator have no fairness: their properties
are safety. Vm has `WF_vars(Next)`: `eval` is a loop on one thread, and nothing blocks
between two instructions; an input that is in the session is read. Language has the
same for its lines. MapObject has it for the steps of a `map_put` that was called and
of a destructor that runs, and not for the calls. Nothing stronger is assumed anywhere.

Deadlock is checked for LogicBlocks, whose process can always go on or has exited
(`Exit` of either mode may repeat), and for Allocator. The other models stop where
the program does: Vm at the end of a session, Ownership after `destruct_compiler` and
in front of an instruction its bounds have no room for, MapObject and ListObject
after the destructor. Whether Vm stops too early is what `Promise` decides, and
whether a `map_put` does, `PutEnds`.

## 5. Proofs

### Logic blocks

`LogicBlocksProofs` proves, for every set of addresses, either mode and every
`MaxLeak`, from the two assumptions on constants in `LogicBlocks`:

    TypeCorrect  CountsAreExact  FreeListCorrect  NoBlockLost  NothingDangles
    PrevIsTheCallStack  EverythingReturned  FramesAreFresh

All follow from one inductive invariant, `IInv` (`Invariance`). The safety
properties are not inductive one by one. That a count is exact after a pop needs
to know which block is popped, hence that the chain is `frames \o defs` without
repetitions; that a popped block may be returned needs the count to be exact; that
a borrowed block is nobody's needs the free list to hold blocks without holders
only. `IInv` joins them, together with where each phase of the program may find
`lb`, `lb_save` and `head`. The proof has one lemma per action and one step per
conjunct the action disturbs. Lemmas about the helpers (`AppendFacts`, `PopFacts`,
`ConsFacts`, `LinkedPush`, `LinkedPop`, `BorrowFacts`, `FreedFacts`, `DropFacts`) are
stated once.

### Lists

`ListObjectProofs` proves, for every set of items, default size, set of sizes and
bound on insertions:

    TypeCorrect  DefaultHasRoom  ListKeepsItems  ListReturnsReferences

The table grows only when there are half as many items again as it has room for, so
never before it was overrun. A theorem about lists without an overrun would say nothing
of growth; `KeepsItems` is about the items that have never lain behind the table
(`sure`), through overrun, `realloc` and further insertions, and adds that without
an overrun these are all. It speaks of `list_get` and `list_find` only; the invariant says
what the cells of those items hold and that they are inside the table (`Stored`), which
is why what others write behind it does not matter. `DefaultHasRoom` needs that growing never
makes the table smaller (`CapacityGrows`): `size` is at least half as large again as
`allocated` when its half is added to it. `list_find` returns the first match, which
exists because a set of indexes has a smallest element (`Smallest`).
For `ReferencesReturned` the invariant says that each object is `held` as often as it
stands in the list (`Counted`); the proof compares the places before and after an
insertion, and the cells a destructor visits with those places, by bijections
(`SpotsInserted`, `SpotsInTable`).

### Maps

`MapObjectProofs` proves, for every table size, hash width, set of values and choice of
names that `MapObject` assumes:

    TypeCorrect  OncePlaced  OnceDestructed  KeepsPromise    for Tame dictionaries
    ShortNamesFound                                          for every dictionary

`Tame` names are either `Few` (12 or fewer where `MAP_DEFAULT_SIZE` is 16, whatever their
hashes) or `Scattered` (18 or fewer: the first 12 meet each other neither in the first table
nor in the second, and the 13th, whose put makes it grow, has the same index in both; the
rest may have any). This is a condition on the program that is run, not on the code, and
the code needs it: names outside it lose entries or make the resize go round for ever
(`MapMeets`), or are put where `map_get` does not look. `MCMapObject` assumes, and TLC
evaluates, that the dictionaries of `Map.cfg` satisfy one or the other; those of
`Moving` send every entry to another bucket. `KeepsPromise` is the refinement of AbstractMap.

The invariant says that entries are made in the order of the names (`Ordered`), which is why
it is known which names are there when the table is full; that at most one growth happens
(`Sized`); and that the table and the links lead from each bucket to its newest entry and from
each entry to the next older one of its bucket (`Linked`). While the table grows the
old one has each entry alone in its bucket (`OldTable`), and the new one has those that the
loop has come past (`Passed`), each in its new bucket, and nothing else (`Copied`): since
no two of them meet in either table, the loop never follows a link it has just set. After the
growth chains form again. `Closed` says what the destructor has freed.
The hash and the chain of a bucket are recursive functions. `SharedLemmas` proves,
by the smallest counterexample, that such a function exists and obeys its
equation; with that `ShortNamesFound` bounds the sums of the hash (`SumsDef`), and the
chains of `map_get` and of the destructor are those of the invariant.

### Allocator

`AllocatorProofs` proves, for every size of a page and a header that fits in it:

    TypeCorrect  NoBlockTwice  TheListIsSound  NoBlockLost  ImplementsPool

The invariant adds to the properties where every block of the page is: below the
offset it is held by one caller or on the list, above it is neither (`Accounted`). So a
block that is cut is nobody's, a block taken from the list is not held, and a page at
its end with an empty list is held block by block. The page of the empty block is
apart (`ZeroClass`): it has one pointer, which many callers hold and which may be on
its list while they do. `ImplementsPool` is the refinement: the initial state is one of
AbstractPool (`InitMaps`), and every step from a state of the invariant is one of its steps
or leaves it alone (`NextMaps`, with a lemma for each kind of step).

### Code generator and virtual machine

`VmProofs` proves, for every set of trees that `GrammarAssumption` allows, every set of
sessions of any length over them, every `StackSize` and whatever number stands behind an object:

    TypeCorrect  OperandsThere
    Balance  StackNotEmpty  Overflow            where NoEmptyBody holds

The theorems are about Vm's `Spec`; `PromisedSpec` implies it. There is no induction
on trees anywhere: the visitors keep what is left of them in `todo`, and the invariants
say of each item in `todo` in which state it finds the compiler and in which it
leaves it. So each visitor has one lemma, which says that the items it puts in front of
the rest lead from where it was to where it promised to be.

The first invariant, `Sound(E)` (`Invariance`, for some `E`), is about names and numbers.
`E` is the table of what has been made: the logic block each code block belongs to, the
size of each constant list, the number of functions. It only grows (`Grows`), which is why
an index taken before a subtree is visited is good after it (`visitor.c:221`), and
why old code stays good in later inputs. `Fitting` says of an instruction that its constant
is in the list of its own logic block and its jump stays in that logic block, `Fit` that
`todo` emits such instructions, with each `leave` returning to the list its function was
met in. The machine keeps to the block it is in (`IpFits`), whatever call, return or error
came before; the frame that `eval` began with, and which a return may have popped, is
kept apart (`kept`).

The second, `Level(D)`, is about the depth of the stack. `D` gives each position
of each code block the depth it is reached at, or `Dead` after a `JUMP`. `Graded` says that
the emitted code agrees with it (`Effect`, instruction by instruction), that the items of
`todo` lead from the depth at the end of the current block to one object (`Chain`, where
`Leads` has what each kind of item does), and that the blocks the compiler has not
finished are those it will still continue, each by one item, while every other block
without a successor ends with one object (`OpenSound`). When a visitor creates blocks, `D` is
extended by the depth their first instruction will find, and jumps to them are held
against that before the block has any code.

From there to the machine in two steps. `FlowFrom` stays inside `Live(D)`, since each step of
the flow follows `Effect`; there is one point of `Live(D)` per position, so the flow stops
growing within as many steps as `FlowFrom` takes and is closed under `After` (`FlowFacts`). And a
logic block that has called nothing is at a point of the flow from its first block, or past
its end with one object (`OnPath`), so `STACK_POP` and `STACK_GET` find what they take, the
assertion of `vm.c:262` holds, and what overflows is a point of the flow.

Both conditions are the code's. `NoEmptyBody`: `visit_compound_statement` emits nothing for
`{ }`, which the grammar allows, and `eval` then aborts. And a logic block that has made a
call may resume in a block that its saved index does not belong to (`vm.c:71`), where nothing can
be said of the depth; `OperandThere` and `TypeOK` hold there all the same.

### References of values

`OwnershipSteps` and `OwnershipProofs` prove, for every number of objects, slots, frames
and constants and every choice of names and parameter lists that `BoundsAssumption` and
`NamesAssumption` allow (at least six objects: nil, the bools, what `new_compiler` makes,
and one more; names are finitely many):

    TypeCorrect  CountsAreExact  NilBehind  NothingFreedIsRead  OnlyRingsSurvive

so for every program, since any instruction may come next. The count of every object is the number of references to it; only that of nil is smaller, by
the number of nil literals, which the theorem says and `NilBehind` says of every state: `nilref`
and `nils` add up to the count that nil should have (`NilInv`). So no instruction, error
or destructor moves nil's count wrongly but `visit_factor`. `CountsExact` and `TypeOK` speak
of the moments between two instructions. The invariant has to hold in the middle of each,
with a destructor in front of the rest, and says what is true there (`Sound`, of a heap,
the operations left to do and the references from outside the heap):

- `Balanced`: a count plus the increments that are left is the number of fields and
  outside references plus the decrements that are left. A field counts once its object has
  references itself, and not between the drop of its old value and the store of the new one.
- `FreedOnce`: what has no references, and only that, is waiting to be freed, once.
- `Guarded`: what an operation needs is still there when its turn comes. This is the hard
  part: a decrement that comes first may set off destructors of any depth. The invariant
  gives for every operand a set of objects, with the operand in it, each of which has
  more holders that nothing takes away before (references from outside, drops that come
  later, a field of another one of the set) than increments that are still to come. No
  destructor can empty such a set, since a destructor only takes away what its own object
  held, and that object is none of them. So a list keeps its arguments, a map the
  parameters bound so far, and the function of an `INVOKE` its code, up to the
  operation that drops the holder.
- `Alone`: no two stores into one field are on the way.
- `Formed`: an object has the fields of its type, and each leads to what its reader expects.

`Holding` joins this with where each phase of the program may find its variables
(`Phased`: which of `defs`, `frames`, `ret` and `lost` are empty; `Anchored`: that they hold
blocks and values). `StepHolds` is the proof for one operation, by its kind: that of a
decrement to 0 says that the object leaves the fields it held to the decrements of its destructor,
so that nothing is counted twice or not at all. In `OwnershipProofs` each instruction has a
lemma, which builds its operations one by one (`Plus`) and moves the references from outside
along (`Begun` is the invariant of such a beginning); the arguments of `INVOKE` and its
parameters are loops, and their proofs inductions on lengths (`CollectBegun`, `BindBegun`),
by the smallest counterexample. `SharedLemmas` has what a change in one place does to a
number of places.

The instruction-level model is exact about one thing a program can notice: an operator
without a result reads the types of operands it has dropped (`NAME`, `vm.c:128`). The
theorem says that this is the only access of that kind.

`OnlyRingsSurvive` says what a finished process leaves behind. Counts are exact, so what
is left and not abandoned by a quit is in a field of something that is left too; without
rings nothing could be. Rings there are, and the theorem says that each of them goes
through the globals. For that the second invariant (`Rings`, `RingsInvariance`) has:

- `Ordered`: the references between objects other than the globals, in fields or in stores
  on the way, go down: there is a rank for each object that every one of them lowers. A new
  object, and an object nothing refers to, may be put above all others (`OrderedLevels`).
- `Private`: why a store cannot close a ring. `map_put` stores a function into the
  locals of a running block, and that function's code may have any constants. But nothing
  refers to a running block, and only it to its locals, unless they are the globals, so
  these two can be ranked above what is stored. `FrameLocals` is this fact.
- `Compiling`: the same of the blocks under compilation and their constants, where
  `store_obj` appends functions that are just made; and that such a block is nobody's constant
  yet. `Distinct` says that these are different blocks.

At the end, what is left (static object, survivors of rings and of a quit taken away) is
closed under holders; what of it the globals do not reach has no holder of highest rank, so
it is empty, and if there is any the globals are in it; going back from the globals over at
most three holders leads to a function, which the globals reach and which reaches them: a ring
(`Rankless`, `KeptByField`). `ReachFacts` shows that `Reach`, a recursion over the number of
objects, does give the least set that references do not leave: as long as it is not
closed it grows, and it cannot grow more often than there are objects.

### Only model-checked

- Liveness: `Promise`, which says that all promised lines are written, and `PutEnds`. The
  prover has no fairness and no `ENABLED`.
- That Vm writes what Meaning says, which is the safety half of `Promise`. Meaning is a
  recursion over trees (`RECURSIVE`), and comparing it with emitted code is an induction over
  data; the prover does neither.
- That a call from the first block of its caller returns to where it was made: `Promise`
  shows it for the calls of `CallFiles`. In general it is false (`VmCallInFor`).

## 6. Not modelled

Text in and out (lexer, grammar, formatting), parse errors and line editing, the
references of tree nodes and of the strings of names, the capacity of code blocks,
widths and fractions of numbers, `debug_memory`, and the memory `malloc` gives for what the allocator does not serve.

## 7. Plan

1. *Done*: LogicBlocks with its proofs; CodeGen, Vm, Meaning, Language; MapObject with
   hashes and destructor; Ownership; ListObject and Allocator with their proofs;
   AbstractPool and AbstractMap, and the proofs that Allocator and MapObject implement them.
2. CallStack: the abstract stack of activations (push, pop, abandon), shown to be
   implemented by LogicBlocks, and that refinement proved.
3. *Done*: proofs about Ownership (counts exact, shapes kept, nothing freed is read, only
   rings survive) and about CodeGen and Vm (constants and blocks found, code
   balanced, operands on the stack, overflow only where the code is too deep). Left: that
   the `next` links of code blocks are acyclic.
4. Numbers: `double` arithmetic on longs, widths, division by zero.
5. Ownership in interactive mode, where a quit leaves its frame for the next input.
6. The driver: parse errors, end of input, the states of the line prompt.
