# A TLA+ model of Acus

Acus is a C++ library with which a program assembles another program, function by
function and block by block, and gets Brainfuck text for it. This directory holds TLA+
modules that describe what Acus keeps while a program is assembled and what the
generated program does on its tape, configurations with which TLC checks the modules on
small instances, and theorems that TLAPS proves for every instance. Paths below are
those of the repository; line numbers are in `PROJECT.json` under `map`.

Contents: [the system](#the-system) · [hard behaviours](#what-is-hard-here) ·
[modules](#the-modules) · [runs](#what-the-runs-show) · [disagreements](#where-code-and-documents-disagree) ·
[proofs](#what-is-proved) · [not modelled](#what-is-not-modelled) · [left to do](#left-to-do) · [use](#running-it)

## The system

There are two times. At **assembly time** the user calls an `Assembler`; it keeps the
program, the current function, block and scope, the frame layouts and the value cache,
and appends primitives to the current block's code. At **run time** the text that comes
out is interpreted: a data pointer on a tape of bytes, and nothing else. Both are single
threaded. What makes the code intricate is that assembly-time bookkeeping is a promise
about run-time memory: a cache entry says what a cell *will* hold when the code emitted
next runs, a slot that is freed is reused by code emitted later for values that live at
the same time or another, and an index is added to a cell long before it is known.

| component | state | operations | correct when |
|---|---|---|---|
| Slot allocator (`assembler_memory.cc`, `core/frame.h`, `core/slot.h`) | the vector `FrameLayout::locals` of slots, each a local, a temporary, a cache slot or free; the open scopes | `declareLocal`, `getTemp`, `getCache`, `freeTempSlot`, `freeCacheSlot`, `freeScope`, and what `endFunction` frees | slots tile the local area; a slot in use keeps its cells; holes are found again |
| Value cache and proxies (`assembler_cache.cc`, `core/proxy*.cc`) | entries with proxy, slot, parent, dirty flag, alias mode | `materialize`, `write`, and the boundaries of labels, scopes, calls and returns | nobody can tell that there is a cache |
| Blocks and dispatch (`assembler_blocks.cc`, `assembler_program.cc`, `core/function.h`) | blocks in order of creation, their priorities; at run time `TargetBlock` of the current frame | `label`, `jump`, `jumpIf`, `endProgram` (sort, shape, switch, main loop) | the block that runs next is the one that was named |
| Calls and frames (`assembler_calls_control.cc`, `assembler_framenav.cc`) | metablocks, deferred checks; at run time the frames and their markers | `callFunction` by name and by pointer, `returnFromFunction`, `abortProgram`, `pushFrame`, `popFrame`, `fetchReturnData` | calls nest, return where they were made, with the value |
| API protocol (`api/`, `assembler_builders.cc`, `core/builder.h`) | what is expected next (a variable of the process), begun/ended flags, deferred label and call checks | every public call | a wrong sequence of calls is refused with an error |
| Runtime pointers, elements, globals (`assembler_pointers_memory.cc`, `_framenav`, `_globals`, `_algorithms.tpp`) | frame depth and offset in two macrocells; frame and seek markers, payload fields | dereference, address-of, elements at run-time indices, globals, arguments, results | the walk arrives, carries the value unharmed and cleans up behind itself |
| Arithmetic kernels (`assembler_add`, `_sub`, `_mul`, `_divmod`, `_comparisons`, `_logical`, `_unary`, `_algorithms`) and the operators over them (`_binop_general.cc`) | the scratch fields of the slots they work on | the operators on one- and two-byte, signed and unsigned integers, with a slot, a temporary or a literal | they compute the operation, end, spare operands that live on and leave the scratch fields 0 |
| Types, type rules, literals (`types/`) | interned types | promotion, result and assignment rules, folding | folded and computed results agree |
| Printing (`assembler_print.cc`) | — | decimal numbers, strings, raw output | the digits of the number come out |
| IR primitives and peephole passes (`ir/`, `assembler_codegen.cc`) | sequences of nodes, text | emit, merge, generate, simplify | merging and simplifying change no behaviour |
| bfint (`tools/bfint`) | code, code pointer, tape, data pointer, loop depth, interrupt flag | preprocess, run, signal | the text is run as Brainfuck and the run ends |
| Typed cells (`core/data.h`), diagnostics, sugar, `acs`, tests | — | — | static rules; see [not modelled](#what-is-not-modelled) |

Interactions: API calls drive everything. An assignment asks the cache for entries, the
cache asks the allocator for slots and calls back into the assignment code to flush; the
allocator, when a scope is left, calls the cache back to commit what lies in the scope,
which allocates. Calls empty the cache, schedule a metablock and end the block. At
`endProgram` the metablocks are built (using the cache and the finished frames' allocator
again), deferred checks and the flow of every function are examined, the blocks are sorted and numbered, and the numbers resolve the differences that
`setNextBlock` has left in the code. What any of these emits is made of kernels, which
share the scratch fields of the macrocells and trust each other to leave them 0; the nodes
are written out as text, which is simplified without knowing where it came from.

## What is hard here

The complete list, each item at its line, is in `PROJECT.json` under `hazards`; those
without a property say why. The main ones:

* **stale copies** — one storage under several names (`a[i]`, `a[0]`, `*p`, a whole
  struct and its field, a global set by a callee);
* **order of write-backs** — a child entry is part of its parent's value; flushing
  creates entries while the vector of entries is being walked;
* **re-entry** — freeing a scope flushes, flushing allocates in the scope being freed;
* **frames that are not cleared** — markers and indexes of frames that are gone;
* **differences instead of values** — `setNextBlock` counts on the cell to hold the
  running block's own index;
* **a switch without jumps** — every test of the nested loops is made again on the way
  out, in whatever frame the block left the pointer in;
* **checks that come late** — labels, callees and flow are checked when the program ends,
  from lists that outlive it; between a jump and a label there is no block at all;
* **borrowed cells** — a kernel promises that scratch fields are 0 which another kernel,
  emitted much earlier, was the last to use; an idiom of literal Brainfuck leaves the real
  pointer in one of several cells and has to bring the paths together;
* **walks** — the pointer is sent to a place nobody knows when the code is emitted, and is
  found again by marks; a value of several cells travels in payload fields that must not
  run over each other;
* **operands** — which are consumed in place, which are copied, and what happens when both
  are the same, or a later argument is read from a temporary that an earlier one gives up;
* **text without cells** — commands are cancelled, and clearing is left out, by passes that
  see characters;
* **limits** — the number of blocks against the shape of the switch, wrapping bytes.

There is no concurrency, no file of the program's own, no clock: interleaving appears as
control moving between caller and callee, as the order of operations a user may choose, and
in the interpreter as a signal between two instructions.

## The modules

### Slot allocator: `SlotAllocator`, `SlotAllocatorProofs`

`slots` is `frame.locals`: a function from creation ranks to slots, because the code hands
out shared objects that are only appended and erased. `area` is the sum that
`localAreaSize()` computes. Each allocating call (`DeclareLocal`, `GetTemp`, `GetCache`)
is one step with the three ways of `allocSlot` inside: take the best-fitting hole and
split it, grow the free slot at the end, append. Freeing marks and merges in one step, as
`markSlotAvailable` does; `Merged` states the result of the merge loop; `MergeLoop`
is the loop as the code runs it, round by round and in the order of its scan, and
`MergeIsLoop` says that they agree. `freeScope` is the one call that is several
steps (`EndScope` collects, cache commits may allocate in between, `FinishScope` frees),
because it really calls back. `BeginMetaBlock` returns to a finished frame as
`constructMetaBlocks` does. `AreaIsSum` compares `area` with the sum over the
vector. Left out: names and types of slots, of which only sizes matter.

### Value cache: `Proxies`, `PlainMemory`, `ValueCache`, `CachedProgram`, `MCCachedProgram`

`Proxies` has the expressions that name storage and what they say of themselves
(`dependsOn`, `enclosingProxy`, ...). `PlainMemory` is the **abstract specification**: a
memory of named storage. `ValueCache` has every method of `Assembler::Cache`, as operators
from states to states, since the methods call each other; its state is the entries *and*
the memory the emitted code works on, because the code is straight between two control
boundaries, so the two advance together. Undefined behaviour in the C++ sense (a deleted
entry, iteration over a vector that grows) clears `sound` instead of being given a meaning.

`CachedProgram` carries out every operation in both and compares. This *lockstep* is
stronger than a refinement mapping here: under a mapping a write that is silently lost is
a stuttering step and would be allowed. `Transparent` is the comparison: the memory that
would be committed, and the last value read, are what the author's memory has.

`ValueCache` is written as a pipeline: *places* are where emitted code reads or writes, a
*slot* is a state together with a place in it (what `materialize` results in), and a write is
the evaluation of the base, the source and the run-time index of a proxy, in the code's
order, followed by a store. `Assign(dest, op, operand)` is `assignImpl` for `=` and
`binOpAssignImpl` for `+=`; they differ in what they materialize before the cache's `write`
(`Prepared`) and in handing it a proxy or a callback.

A function under construction is a record of the expressions it uses (`MCCachedProgram`):
the memory it starts with, what outlives it, assignments, reads, unary operations, calls.
`Init` chooses one, and the run takes its operations in any order and any number, so a run
covers all programs that can be written with those expressions.

### Blocks and dispatch: `Dispatch`, `Dispatcher`, `DispatchProofs`, `DispatcherProofs`

`Dispatch` is arithmetic: the search of `endProgram` for the shape of the switch (`Shape`),
the index of a block as two cells (`DispatchIndex`), how many cases a row has (`Cases`) and
what the switch is meant to find (`Selected`). `Dispatcher` is one round of the main loop
on the cells: value, flag and scratch cells, and a place in the nest of loops. One step is
one test of a loop with the code up to the next test. Its inner switch keeps its flag in
the cell that was the outer value, as the code does. The body of a case (a block) is the
step `InnerCase`; that the frame it leaves the pointer in has clean cells is what
`copyTargetBlockToScratch` and the kernels leave, and is assumed.

### API protocol: `BlockBuilder`, `MCBlockBuilder`; `BlockBuilderProofs`

The client's side of blocks. The state is the assembler's: the functions with their blocks
(name, children, whether it returns, the author's mark), whether a function and a block are
open, the depth of scopes, the one call that is expected, the scheduled metablocks and the
labels to be checked. Every accepted call is an action: `Work` stands for the calls on values,
which only need a block to emit into; `BeginLabel`, `Jump`, `JumpIf` (and with a literal
condition, which leads to one label and mentions two), `Call`, `Leave` (return and abort),
`Unreachable`, scopes, functions and programs. A refused call (`Refused`) throws and ends the
behaviour; `Undefined` has the calls that nothing refuses and that have no outcome (a label
or function defined twice, `endScope` without a scope). `EndProgram` makes the metablocks and
then the checks in the order of the code (`Checks`), of which the first that fails is reported. The
lookup of a callee while the metablocks are made is one of them, and comes before the deferred check
of the same thing: `std::out_of_range` is what the code throws, `FunctionDoesNotExist` what the
documentation has for it. `Faults`, with which the outcome is compared, has the documented codes.

The history variable `text` is what the client wrote, call by call. The properties compare
the graph of blocks with the control flow of the text, which is computed without blocks:
`VerdictIsRight` (no program without a fault is refused, a fault that is named is one the text
has, and none with a fault is accepted but for the author's own mark), `BlocksFollowText` (the
blocks run the calls in the order of the text) and `RefusedWithACode` (what is thrown is an
`error::Error` with a documented code, which is violated: `missing_callee` below). A program begins where
the last one ended, so what `endProgram` forgets to clear shows in the next verdict. Blocks
without a label are numbered, in the code by a counter that is never reset; the model takes the
number of blocks the program has, so that a run stays finite however many programs it makes.

### Calls and frames: `BlockPrograms`, `Calls`, `Execution`, `MCExecution`; `FrameProofs`, `ExecutionProofs`, `CallsProofs`

A program is a record of functions and blocks as the API calls leave it (`BlockPrograms`).
A function has a type, which says of each parameter whether it is a number or a pointer to
functions of some type; `WellFormed` collects what the checks of the interface, the deferred
checks and the assertions behind them make sure of (unique names, labels that exist, callees
and arguments of the right types, an entry function without parameters), for a client that
returns a value where the type has one and takes one only from such a function.
`Calls` is the **abstract specification**: a stack of activations, each with locals of its
own; a fresh activation's locals may have any value. `Execution` is the generated program
on the tape: macro cells with two value fields and a frame marker, a data pointer, blocks
(`blocks`, fixed by `Init`) sorted by priority with the metablocks behind them and the orphan blocks that `return` and
`abort` begin, indices changed by differences. The pieces of a call are
one step: arguments are copied one after the other, but none is read from the frame that they
are copied to. `Init` refuses more than `MaxBlocks` blocks, as `endProgram` does
(`assembler_program.cc:135`). One step is one round of the main loop; that a round runs the block of `TargetBlock` is what `Dispatcher` shows. `Author == INSTANCE
Calls WITH stack <- Stack, globals <- Globals` is the refinement: the frames are read off
the tape by their markers, and `ImplementsCalls` says that what is read is a behaviour of
`Calls`. A metablock is a stuttering step of the author's: by the time it is due to run the
mapping shows the value as delivered.

### Kernels and operators: `CellCode`, `CellArithmetic`, `SlotOperators`, `SlotDivision`, `SlotComparisons`, `Expressions`; `CellMachine`, `OperatorRuns`, `MCOperators`

These modules model a *compiler*: an operator of a module is a function of the assembler,
and its value is the code that function emits, a sequence of instructions. A literal, a
type, a special case for a constant is decided when the code is made, a value when it is
run, as in the source. `CellCode` has the moves and copies of cells, constants, 16-bit
increments, sign bits and the logical kernels; `CellArithmetic` multiplication, halving,
division on cells; the three `Slot` modules choose a kernel for the types of the operands,
copy what must survive and destroy what may be; `Expressions` is what the API does around
that: promotion, folding, the swap of operands when a literal is on the left, the reuse of a
temporary, casts, pointer arithmetic.

`CellMachine` runs code on a tape. Its instructions are Brainfuck with two economies: a run
of equal commands is one instruction, and a loop that only transports a cell is its net
effect (the C++ source emits those through `moveField` and `copyField`, all the others as
loops). Literal Brainfuck (`literalBf`) is kept character by character, because the point of
those idioms is where they leave the pointer. The machine knows where the pointer *is* and
where the assembler *believes* it to be (`drift`); every `ws::promise` is an instruction
that checks the promise. One step of the model is a burst of `Stride` instructions: nothing
happens to a tape between two instructions, so only the ends matter.

`OperatorRuns` picks a job (an expression), its operands and garbage for the slots that are
free, runs the code and compares with the meaning of the operator, which is stated on
integers.

### Elements, pointers, globals, arguments, printing: `FarMemory`, `Printing`; `FrameRuns`, `MCFrameRuns`

In the same style. `FarMemory` has `seek` with and without a payload, the dynamic offset,
elements read and written, pointers followed and rebased, globals, and what a call puts into
the callee's frame and fetches out of it; `MovePointerRelative` moves the belief and not the
pointer, `Believe` is `_dp.set`. `FrameRuns` is a tape with the frames of the globals, the
entry function and a function it has called, with the area of the next callee behind them;
where an access should go is said on an abstract memory of macrocells.

### Intermediate code, text and interpreter: `Primitives`, `BrainfuckText`, `Bfint`; `GeneratedText`, `MCGeneratedText`

`Primitives` has the nodes, the text of each and the merge rules; `BrainfuckText` the passes
of `simplifyBrainfuck`; `Bfint` the preprocessing of a text and one action per instruction,
plus the signal that interrupts it. `GeneratedText` gives the nodes a meaning of their own,
on a memory, and runs their text beside it. `mergeSequence` has no caller in the present
source (`endProgram` calls only `simplifyBrainfuck`); every program is run merged and not.

## What the runs show

| run | module, configuration | distinct states | question |
|---|---|---|---|
| `slots` | `SlotAllocator` | 142,772 | does any order of allocations, frees and scopes break the frame? |
| `cache` | `MCCachedProgram`, `MCCache` | 80,620 | are arrays, indices and scopes in the frame transparent, and globals, calls, structs and pointers? |
| `dispatch` | `Dispatcher`, `MCDispatcher` | 7,608 | does a round run the block that is named? |
| `execution` | `MCExecution` | 300 | do the dispatched blocks mean what the author means? |
| `api_protocol` | `MCBlockBuilder` | 269,594 | does `endProgram` judge right, and do the blocks follow the text? |
| `operators` | `MCOperators` | 309,303 | does the code of every operator compute it, whatever its operands are and where they are? |
| `far_memory` | `MCFrameRuns` | 17,194 | does every access reach its object and leave no trace? |
| `generated_text` | `MCGeneratedText` | 318,068 | does the simplified text print what the nodes mean, and end? |

The other runs end in a violation; see [below](#where-code-and-documents-disagree).

Bounds, and why they are enough:

* `slots`: sizes 1 and 2, four cells, four objects, two scopes deep. Splitting, exact fit,
  tail growth, merging on both sides and a flush inside `freeScope` all need at most three
  neighbouring slots; every action and both sides of every choice are reached. The theorems
  below have no such bounds.
* `cache`: six functions, each explored on its own; arrays of two elements, values 0 and 1, and the memory is
  finite, so there is no bound on the number of operations. Two elements are enough to be
  the wrong one. Pointers, arrays of arrays and indices that are themselves cached are
  present; three levels of indexing are not.
* `dispatch`: a cell has 6 values instead of 256; every number of blocks up to the seed
  shape (4 rows of 5) and every index is an initial state, so all shapes occur, with last
  rows full and not. The theorems cover 256.
* `execution`: a cell has 7 values; numbers of blocks are such that rows wrap within a
  program and differences are negative. The tape has 40 macro cells, never exceeded by these
  programs (`Call`'s guard names the bound). Inputs are 0 to 3, so recursion is up to four
  deep. Programs are chosen for: frames of different sizes, results into globals and locals,
  results into the argument, function pointers passed and called, abort below a call,
  priorities of blocks and of functions that make the order of indices differ from the order
  of definition, and the entry function not defined first.
* `api_protocol`: two functions, two labels (interchangeable), one scope, four calls in the
  bodies of one program, any number of programs. A jump, its label, the return behind it and
  one call more is the shortest program in which flow, marks and labels interact.
* `operators`: a cell has 4 values, so two cells have 16: signed and unsigned values wrap,
  the most negative one exists, and *all* values of all operands are tried, with every
  operator on every pair of types its kernel accepts, and on a variable and any literal of its
  type. Three kinds of job are left out (`MCJobs`), two because they go wrong, as said
  [below](#where-code-and-documents-disagree): a sum or difference whose right operand is an `s8`
  and whose left one is of another type (`SignLost`), a signed variable divided by itself in place
  (`SignedSelfDivision`); and folds of two literals, for which no code is made. `op=` between
  variables of different types is tried for `u8` and `u16` only. The kernels are
  uniform in the width of a cell; what depends on it (powers of two, byte boundaries of
  constants, the sign bit) occurs at this width. A macrocell has its nine fields; tapes have
  twelve macrocells, and leaving them is a fault.
* `far_memory`: frames of 7 and 18 macrocells, an array of six, objects of one and of two
  macrocells (one of them a pointer), every index, every offset in every frame, depths 0 to
  2. Six elements are more than a cell has values, so the high byte of an index counts.
  Arguments: scalars, literals, pointers, a struct with a pointer in it, temporaries passed
  once and twice. Numbers are printed in base 3: two cells have three digits.
* `generated_text`: all programs of up to two nodes or loops on two cells and a scratch cell,
  after a read or not, before printing both cells or not, for two inputs. The simplifications
  look at runs of characters and at adjacent clears: two nodes next to each other, inside a
  loop and behind one are what they can get wrong. A cell has 64 values, so that a constant
  has both a product and a plain text. The signal comes in a subset of the programs.

**Time.** `EndsInTime` (in `operators` and `far_memory`) bounds the bursts a job takes. It is
termination without fairness: code is deterministic once its operands are chosen, so a job
that ends does so within a number of steps, and the bound is above the longest.

**Fairness.** `Dispatcher` and `Execution` assume `WF_vars(Next)`: a Brainfuck interpreter
executes the next instruction as long as there is one; nothing else competes for the
machine. Without it `RoundEnds` and `Terminates` could not hold. `GeneratedText` assumes it of
the interpreter's step only (`WF_vars(Run)`), not of the signal, which need not come. There is no fairness in the
assembly-time modules: nobody has to call anything. In the terminating modules the system
stops by design, so their configurations switch deadlock detection off; what may stop is
said by the liveness properties.

**Faults.** Each property has a mutant in `PROJECT.json`: a definition of the model
replaced by a plausible slip (a flag not cleared, an index counted from 0, a parent flushed
without its children, ...). The slips stand in the modules just before what they replace,
marked as a fault or as a mutant, and TLC finds the property violated under each.

## Where code and documents disagree

Four are runs that TLC ends with a counterexample, and entries under `findings`:

* `cache_index_chase` — `i = a[i]` leaves a stale entry: a read of `a[i]` that follows
  gets the link that was just followed.
* `global_address` — the address of a global is given the depth 1 in every function
  (`addressOfSlot` stores the frame *marker*): right in the entry function only.
* `mixed_widths` — a negative `s8` variable added to an `s16` one counts as positive: the
  narrow operand is copied without its sign, as it is in every sum and difference with a left
  operand of another type.
* `missing_callee` — a call of a function that is never defined ends `endProgram` in a
  `std::out_of_range` (`assembler_blocks.cc:203`): the metablock of the call is made before the
  deferred check that would report `FunctionDoesNotExist`, which is what `src/README.md:443` and
  `:788` say and `compiletime_testsuite.cc:399` expects. With one or with more calls, whatever
  else the program has, that check is never the one that fails.

More are known, and are not runs of their own:

* a pointer that is returned is fetched as it is (`fetchReturnData`): its depth is still
  counted from the callee, one too many. With `Jobs <- ReturnedPointer` in
  `MCGlobalAddress.cfg` TLC shows it; a program in which a function returns its pointer
  argument prints another cell than `*p`.
* `cache_indexed_by_global` (`assembler_cache.cc:284`) — after `a[g] = v` with a global `g`, a control boundary leaves
  an entry in the cache (an assertion in debug builds).
* `cache_unary_global` (`assembler_unary.cc:19`) — a unary operation in place on a global is lost.
* `cache_global_pointer` (`assembler_cache.cc:425`) — assigning a global pointer deletes the entry being assigned.
* `entry_recursion` (`assembler_framenav.cc:46`; `ReentrantProgram` in `MCExecution`) — if the entry function is called again, its inner return ends the
  program.
* `unreachable_mark` (`assembler_program.cc:122`; `MarkedIsAccepted`) — a label marked `unreachable()` right behind a return is left out of
  the dispatch table that the dead block before it asks for its index.
* signed `x /= x` with one variable on both sides takes its sign from an operand that is
  already consumed (`SignedSelfDivision` in `MCOperators`).
* `abs`, `signBit` and `lxor` of literals fold the *encoding* (`assembler_unary.cc:45`): the
  absolute value of -1 is 255; a literal 0 / 0 folds to 0 and a computed one does not.
* `signBit` takes the two signed types only; `x op= y` with operands of different signs
  reaches assertions of the kernels; a pointer moved by a `u8` index scales it in 8 bits.
* `CopyData` followed by `ZeroCell` merges to `MoveData`, which clears the cell it copied
  from; right only because the two are about one cell, which nothing in the rule requires.
* a pointer's depth is one cell: 256 frames wrap it.

Programs with the cache, return and mark shapes were also written against the library. An
assertion fails for `cache_indexed_by_global` and `unreachable_mark`; the others print the value
before the unary operation, the old link, the first pointee twice, nothing after the inner
return, and an unrelated cell for a returned pointer. A narrow operand's second field may
be dirty after a mixed assignment or a call, which is harmless: every kernel that reads
both fields clears or promises it first (`NothingLeftBehind`).

One disagreement is not a run of its own: 65279 blocks are accepted
(`assembler_program.cc:135`), but only 64770 fit the seed of the search for the shape
(`:157`), and no candidate is better for more; the program ends when one of the others is
due. `MCDispatcher.cfg` shows it (`RunsTheTarget`) with `MaxBlocks = 29`, which is to
`Byte = 6` what 65279 is to 256.

`MCCachedProgram` has further programs of this kind. Each shows the violation named when the
constant `Programs` is replaced by it in `MCCache.cfg`: `TwoNames` (an element at a
run-time index and the same at a constant one: `CleanIsCurrent`), `WholeIndex` (`a[b[i]]`
cached, `b` assigned as a whole: `CleanIsCurrent`), `PointeeElement` (`(*p)[i]` read:
`NothingDangles`), `ReturnsIndex` (a global array at a global index, both dirty on return:
`Transparent`), `PointeeOperand` (`g += *p`: `Transparent`), `TwoPointers` (a field copied
through two pointers to one struct: `Transparent`). The programs of the passing runs avoid
these shapes: two expressions used for the same storage depend on one another by name, or
one of them goes through a pointer.

Noticed while reading, and not modelled: call arguments that are cached after the flush are
forgotten by `_cache.reset()` with their slots still taken (`assembler_calls_control.cc:52,108`);
`beginProgramImpl` leaves metablocks and cache of an abandoned program in place.

## What is proved

TLAPS checks eight proof modules to the last leaf, from the assumptions named in the modules.

**`ListLemmas`** — what the others need of sequences: induction on the naturals by way of the
least counterexample (`LeastNatural`, `UpFromOne`, `UpFromNothing`), that a function defined by
recursion on the naturals exists and is what its definition says (`StepsExist`),
which elements `FlattenSeq` of a sequence of sequences has (`FlattenRange`), and that the ranks
of elements in an order are a permutation (`RanksPermute`).

**`SlotAllocatorProofs`** — assumptions: sizes are positive, the bounds are natural numbers
(of any size). `Spec => []TypeOK`, `[]Tiling`, `[]Coalesced`, `[]OwnersOpen`, `[]AreaIsSum`,
`[]MergeIsLoop` and the action properties `StoragePinned` and `GrowthIsForced`. The invariants
are not inductive one by one: that a hole can be split needs the tiling, that merging keeps the tiling needs that runs of free slots end
inside the area, that the slots which `FinishScope` frees are those of the scope needs the
handles collected to be live. `IInv == Layout /\ Variables /\ Ownership /\ OwnersOpen` holds
the four together. Most of the work is in the merge: `MergedDisjoint`, `MergedCovers` and
`MergedApart` say that the joined runs neither overlap nor lose a cell nor touch, for a
vector of any length. That the frame grows only for a request no hole could serve
follows from typing and the guards of the two ways of growing. `AreaIsSum` follows from the
tiling: a sum over slots that share no cell is the number of their cells, in whatever order it
is made (`SumIsCells`), and slots that tile the area have as many as the area. `MergeIsLoop` is a loop invariant of the
merge: whichever pair of touching slots a round joins, the free cells stay the same and so
does the result that `Merged` states (`JoinedMerges`); where nothing touches, that result is
the vector itself (`MergedAlready`); and every round but the last erases a slot, so there are
enough of them (`LoopMerges`). So the order of the scan, which the code chooses and the other
proofs do not know, makes no difference.

**`DispatchProofs`, `DispatcherProofs`** — assumptions: a cell has more than two values, there
is a block, and `Room`: the greatest accepted number of blocks fits the seed shape. (`Room` is
false of 0xfeff, as said above; up to 64770 blocks the theorems apply to the
real constants.) `Spec => []TypeOK`, `[]AgreesWithSelected`, `[]RunsTheTarget` and
`[]IndicesDistinct`. First the numbering, which the proofs about frames share: the best shape
exists (`ShapeIsBest`), holds the
blocks and has no empty row, since with a row fewer it would have been better
(`ShapeFits`); so every block has a row and a case that are built (`BlockIsBuilt`), is found
under its index (`BlockIsFound`), and nothing else is (`FoundIsBlock`). Then the loops: the
inductive invariant `IInv` names the phases of a round — towards the row, at it, towards the
case, at it, out of the inner and out of the outer switch — and says in each how the value
cells relate to the index. On the way out all values and flags are 0, which is why loops
that are tested again are not entered again. TLC agrees with `IInv` on the instance of `dispatch`.

**`FrameProofs`, `ExecutionProofs`** — assumptions: `Room` again, a cell has more than two
values, the tape has a length, and the programs are `WellFormed`. For every such program,
every input and every depth of calls: `Spec => []TypeOK`, `[]FramesChained` and
`[]CallersWait`. None of the three is inductive: what a return does depends on what the
caller's frame, written long ago, has in its cells. `IInv` says that the program and its table
of blocks are fixed, that the cells of the tape have their types, and that the frames form a
*chain*, of some number n of places `s` and blocks `h`:

* `Shaped`: the first is the entry function's, behind the globals; the last is where the pointer is;
* `Marked`: on the whole tape nothing is marked but the frame of the globals and the frames of
  the chain, so nothing that was left can be taken for a frame;
* `Waiting`: every frame but the last names a metablock, and ends — at a distance that its own
  function determines — where the next begins; a value is awaited only from a function that has one;
* `Called`: the frames but the first are of functions that some call can reach;
* `Pointing`: the cells that hold function pointers hold indexes of entry blocks of their type;
* `Topped`: the last frame is on the tape and names the block that runs next, or none when the
  program has ended.

The table comes first: the blocks of all functions with their orphans and metablocks, flattened
and sorted, have distinct names, so that a name determines an index and the index the block
(`CreatedBlocks`, `SortedBlocks`, `IndexFinds`). A step then changes the chain at its end only:
`ChainUpdated` (a computation, a jump, a fetched result), `ChainPushed` (a call: the markers of
the new frame stand between its caller's and nothing), `ChainPopped` (a return: walking back
from the frame's end to the next marker finds the caller, `PreviousFound`). There is a lemma
for every action (`JumpChain`, `BranchChain`, `CallChain`, `ReturnChain`, `AbortChain`,
`ResumeChain`) and one for the first frame (`FirstChain`). TLC agrees with `IInv` on the 300
states of `execution`.

**`CallsProofs`** — `CallsImplemented`: from `Room` and `EntryNotCalled`, `Spec =>
ImplementsCalls`. Blocks that are dispatched on one tape, found by indexes and differences of
indexes, returned to through markers, are for the author a stack of activations with locals of
their own. `EntryNotCalled` says that no call takes the address of the entry function; it is
needed, because a return of the entry function ends the program whoever called it
(`entry_recursion` above), and TLC finds that it holds of the programs of
`execution` and not of `ReentrantProgram`. The frames of the chain are the author's activations
(`FramesSeen`), read as they will be once a metablock that is due has run
(`ChainSettled`), so `Resume` is a stuttering step (`ResumeMeant`) and every other action is
the author's action of the same name (`JumpMeant`, `BranchMeant`, `CallMeant`, `ReturnMeant`,
`AbortMeant`). What an author's step reads — operands, places, addresses of functions — is what
the block's code reads (`ValueMeant`, `AddressMeant`, `ComputedMeant`); a callee's locals other
than its parameters are whatever the cells hold, which `Calls` allows.

**`BlockBuilderProofs`** — no assumption but that the entry is a name and the bounds are natural
numbers, of any size. `Spec => []EmitsIntoABlock`, `[]TypeOK`, `[]VerdictIsRight` (`JudgesRightly`) and
`[]BlocksFollowText`, for any number of functions, labels, calls and programs. That there is a block wherever a call that
emits is accepted needs little: by itself it says nothing about the time between programs, from
which the next one starts; `BlockInv` adds that then nothing is open, expected or deferred, and
the last of these is a theorem of its own (`NothingDeferred`): what `endProgram` resolves belongs
to the program it ends.

The verdict needs to know what the graph of blocks has to do with the text. `Told` says it for
one function: the text can be *cut* at places `s[1] <= s[2] <= ...` so that block m stands for
the calls from `s[m]` to before `s[m + 1]`, and `Tells` what such a block is. A label stands only
at its beginning and gives it its name; a jump, a call, a return or an abort only at its end, and
its children are what that call leads to, or the next block if there is none; its code is that
of the calls of the piece which emit, in their order; its mark is the author's. `InProgram` has this for every function under construction, and besides that functions
and texts come in pairs (`Paired`), that numbers given to blocks are below the count of blocks
(`Numbered`, which is why the next one is new), and that the metablocks and deferred checks are
those of the calls and jumps in the texts (`MetasKnown`, `CallsNoted`, `LabelsNoted`).
`BuilderInv`, the inductive invariant, joins it with the types, the names, and the verdict and the
order themselves.

* A call in a body changes the last piece of the cut, or adds one (`Recut`): `SameStep` has the
  calls that leave as many blocks as there were, `BehindStep` those that open one behind,
  and `LabelSteps` the label, which does either. All are steps of one form, `BodyStep`
  (`BodySteps`), which keeps the invariant (`BodyKeeps`).
* `endProgram` first makes the metablocks, by a loop: `CompletesTo` is its invariant, and
  `CompletedIs` its result.
* Its check of the flow walks from block to block and `Visited` from call to call. Both are
  closures along edges in as many steps as there are nodes, and `ClosureCloses` says that this is
  enough: the closure is the least set that is closed, since a step that finds nothing new is the
  last. From there the two agree (`VisitedIsLeast`, `ReachedIsLeast`), because what
  is reached covers what is visited (`VisitedCovered`), and begins where something is visited
  (`ReachedBegun`). So both kinds of verdict, and the labels that exist, are those of the text
  (`FlowIsFound`).
* The checks that fail are then exactly the faults of the text (`ChecksFind`): where one fails, the
  text has the fault, and where none does, it has none. The `std::out_of_range` of an undefined
  callee stands for `FunctionDoesNotExist` there. So whichever is reported first (`ProgramEnds`),
  the program has a fault; that the *code* is the documented one is not a theorem, since
  `missing_callee` refutes it for this one fault.
* The order (`FlowAgrees`) asks more: which calls come *next*. `TextFlow` goes on from a call
  through calls that emit nothing, `BlockFlow` from a block through blocks that have no code,
  generated and marked blocks and metablocks among them. Both are again least closed sets
  (`TextOnCloses`, `BlocksOnClose`), and each holds the other. The places in the blocks of a set
  closed by silent blocks, in each up to the first call that emits (`Cover`), are not left by
  silent calls (`CoverCloses`), and what emits among them begins the code of its block
  (`CoverEmits`). Conversely, places closed by silent calls hold, with the beginning of a block, the
  beginning of its code (`ComesToCode`), and so what begins the code of every block come to
  (`HeadsAreMet`). So what leaves a block is what the
  text comes to behind its last call (`LeavingAgrees`), within a block it is the next call of
  its code (`WithinAgrees`), and nothing is run from a block that no call comes to (`VisitedIsCode`).

TLC agrees with the invariant on the states of `api_protocol`.

Only model-checked:

* liveness (`RoundEnds`, `Terminates`, `RunsEnd`), which is out of the prover's reach;
* everything about the cache, whose operators are mutually recursive, over trees of entries:
  the prover has no account of them;
* the generated code: a machine that runs sequences of instructions has its loop invariants
  inside the code, and the code is made by folds over data.

The SMT translation of `Len` in this version of TLAPS takes more values for sequences than are.
So every proof module was also checked with that axiom restricted to sequences (`DOMAIN s = 1 .. n`
implies `Len(s) = n`, and the converse for members of `Seq(S)` only): all obligations hold with it.

## What is not modelled

* The straight-line mode (`constructStraightLineContext`), which has no dispatcher, no frames
  and no calls; every other part works there as in dispatch mode.
* What an assembler is good for after an error, and two assemblers in one process, which share
  the call that is expected; builders that are left unfinished; priorities set by calls.
* Composite *types*: their declaration, sizes and names are bookkeeping; the accesses to
  objects of several cells, pointers among them, are modelled on the cells.
* The C++ types of `core/data.h` that keep cells and workspaces apart at compile time; the
  promises made through them are checked at run time.
* Nodes that carry no behaviour (comments, tags, dumps), and deferred values of nodes, which
  are taken as resolved: `Execution` and `Dispatch` model what they resolve to.
* The optional remainder of a *signed* division, which has no caller.
* bfint's memory dump (`?`), curses terminal, statistics and command line; `acs`, which is files
  and processes; diagnostics, the sugar DSL, tests and examples.

Every part left out is a component in `PROJECT.json` with its reason, or is named in the note
of a component that is modelled in part.

## Left to do

The plan was: slot allocator with proofs; the cache against a memory without one; dispatcher
with proofs; calls and frames against a stack of activations; the API protocol against the
control flow of the text; kernels, pointers and printing on cells; intermediate code and
interpreter. All of it is here. What would add most next:

1. the cache: which of its operators can be said without recursion, so that `EntriesStand` and
   `Transparent` can be proved for arrays and pointers of any depth;
2. loop invariants for single kernels (16-bit increment, sign bit), with the loop as a
   machine of its own, to replace the 2-bit cell by any width.

## Running it

    tlc -config MCDispatcher.cfg Dispatcher       # and likewise for the other runs
    tlapm ListLemmas.tla                          # and the other proof modules:
    tlapm SlotAllocatorProofs.tla                 # a module is checked without
    tlapm DispatchProofs.tla                      # those it extends
    tlapm DispatcherProofs.tla
    tlapm BlockBuilderProofs.tla
    tlapm FrameProofs.tla
    tlapm ExecutionProofs.tla
    tlapm CallsProofs.tla

`PROJECT.json` lists runs with their modules and configurations, the mutants, which lines
every definition stands for, findings, hazards and theorems.
