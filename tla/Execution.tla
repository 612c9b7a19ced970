----------------------------- MODULE Execution -----------------------------
(***************************************************************************)
(* A generated program at run time: the blocks, the frames they work in    *)
(* and the main loop that dispatches them (assembler_blocks.cc,            *)
(* assembler_calls_control.cc, assembler_framenav.cc, and endProgram in    *)
(* assembler_program.cc).                                                  *)
(*                                                                         *)
(* The tape is a row of macro cells.  At its start are the globals, then   *)
(* the frames of the running functions.  The first cell of a frame is its  *)
(* TargetBlock, the index of the block to run next in it; the return value *)
(* and the locals follow.  A frame is found by the marker in its first     *)
(* cell: nothing else on the tape says where it begins or how long it is.  *)
(* Code runs with the pointer at the origin of the current frame, and no   *)
(* cell is cleared when a frame is left.                                   *)
(*                                                                         *)
(* One step is one round of the main loop, as Dispatcher runs it.          *)
(***************************************************************************)
EXTENDS BlockPrograms, Dispatch, FiniteSets

CONSTANT TapeLength   \* bound: macro cells of the tape

ASSUME TapeAssumption == TapeLength \in Nat
ASSUME ProgramsAssumption ==
  /\ \A p \in Programs : WellFormed(p, 0 .. (Byte - 1))
  /\ Inputs \subseteq 0 .. (Byte - 1)

VARIABLES
  program,   \* the program
  blocks,    \* its blocks in the order of their indices
  tape,      \* the macro cells: two value fields and the frame marker
  ptr        \* the origin of the current frame

vars == <<program, blocks, tape, ptr>>

----------------------------------------------------------------------------
(* The blocks of a program.  A return or an abort begins a block of its own*)
(* that nothing leads to, and a call a metablock that control returns to.  *)

Label(label) == <<"label", label>>
ReturnTo(block) == <<"meta", block.name[2]>>

UserBlock(f, k) ==
  [function |-> f.name, name |-> Label(f.blocks[k].label), kind |-> f.blocks[k].exit.kind,
   priority |-> f.priority + f.blocks[k].priority,
   compute |-> f.blocks[k].compute, exit |-> f.blocks[k].exit]

Rest(block) ==
  [block EXCEPT !.name = <<"after", @[2]>>, !.kind = "nothing", !.compute = Nothing]

MetaBlock(block) ==
  [block EXCEPT !.name = ReturnTo(block), !.kind = "meta", !.compute = Nothing]

BlocksOf(f) ==
  FlattenSeq([k \in DOMAIN f.blocks |->
    <<UserBlock(f, k)>> \o
      (IF f.blocks[k].exit.kind \in {"return", "abort"} THEN <<Rest(UserBlock(f, k))>> ELSE <<>>)])

\* In the order of their creation: the metablocks come last.
Created(p) ==
  LET user == FlattenSeq([k \in DOMAIN p.functions |-> BlocksOf(p.functions[k])])
  IN  user \o FlattenSeq([k \in DOMAIN user |->
                 IF user[k].kind = "call" THEN <<MetaBlock(user[k])>> ELSE <<>>])

\* Sorted by priority, the highest first; blocks of one priority keep their order.
Sorted(created) ==
  LET before(j, k) == \/ created[j].priority > created[k].priority
                      \/ created[j].priority = created[k].priority /\ j < k
      rank(k) == Cardinality({j \in DOMAIN created : before(j, k)}) + 1
  IN  [r \in DOMAIN created |-> created[CHOOSE k \in DOMAIN created : rank(k) = r]]

\* getDispatchIndex: the cells that name a block in a TargetBlock.
Index(function, name) ==
  DispatchIndex(Len(blocks),
    (CHOOSE k \in DOMAIN blocks : blocks[k].function = function /\ blocks[k].name = name) - 1)

EntryIndex(function) == Index(function, Label(EntryOf(FunctionOf(program, function))))

TargetOf(t, base) == [high |-> t[base].high, low |-> t[base].low]
TargetBlock(t, base) == blocks[Selected(Len(blocks), TargetOf(t, base)) + 1]

----------------------------------------------------------------------------
(* The layout of frames. *)

ReturnValueStart == 1
LocalBase(f) == ReturnValueStart + (IF f.returns THEN 1 ELSE 0)
StackFrameSize(f) == LocalBase(f) + f.locals

\* Globals begin behind a pad; the first frame behind them.
GlobalCell(k) == 1 + k
FirstFrame == GlobalCell(program.globals) + 1

----------------------------------------------------------------------------
(* What the code of a block does to the tape of the frame at ptr.          *)

Running == TargetBlock(tape, ptr)
Function == FunctionOf(program, Running.function)

Address(place) ==
  IF place.kind = "global" THEN GlobalCell(place.at) ELSE ptr + LocalBase(Function) + place.at

\* The two value fields of an operand.  An integer has nothing in the high field.
Fields(t, operand, input) ==
  CASE operand.kind \in {"local", "global"} ->
         [high |-> t[Address(operand)].high, low |-> t[Address(operand)].low]
    [] operand.kind = "constant" -> [high |-> 0, low |-> operand.value]
    [] operand.kind = "function" -> EntryIndex(operand.name)
    [] operand.kind = "input" -> [high |-> 0, low |-> input]

Put(t, cell, fields) == [t EXCEPT ![cell].high = fields.high, ![cell].low = fields.low]

\* Integers are assigned in their own width: the high field stays as it was.
Store(t, place, low) ==
  IF place.kind = "nowhere" THEN t ELSE [t EXCEPT ![Address(place)].low = low]

Computed(input) ==
  LET c == Running.compute
      left == Fields(tape, c.left, input)
      right == Fields(tape, c.right, input)
  IN  Store(tape, c.dest, (left.low + right.low) % Byte)

\* A fault: the row is left as it is.
SetNextCase(t, name) ==
  LET next == Index(Running.function, name)
      own == Index(Running.function, Running.name)
  IN  [t EXCEPT ![ptr].low = (@ + Byte + next.low - own.low) % Byte]

\* A fault: the difference is not taken modulo the cell.
SetNextUnwrapped(t, name) ==
  LET next == Index(Running.function, name)
      own == Index(Running.function, Running.name)
  IN  [t EXCEPT ![ptr].low = @ + Byte + next.low - own.low,
                ![ptr].high = (@ + Byte + next.high - own.high) % Byte]

\* setNextBlock changes the fields by differences, counting on the block's own index.
SetNextBlock(t, name) ==
  LET next == Index(Running.function, name)
      own == Index(Running.function, Running.name)
  IN  [t EXCEPT ![ptr].low = (@ + Byte + next.low - own.low) % Byte,
                ![ptr].high = (@ + Byte + next.high - own.high) % Byte]

PushFrame(t) ==
  LET base == ptr + StackFrameSize(Function) IN
  /\ tape' = [t EXCEPT ![base].marker = 1]
  /\ ptr' = base

\* seek to the left, from the next cell on.
PreviousFrame(t) ==
  CHOOSE c \in 0 .. (ptr - 1) :
    t[c].marker = 1 /\ \A d \in (c + 1) .. (ptr - 1) : t[d].marker = 0

\* A fault: the marker of the frame stays behind.
PopUncleared(t) ==
  IF Function.name = program.entry
  THEN tape' = [t EXCEPT ![ptr].high = 0] /\ UNCHANGED ptr
  ELSE tape' = t /\ ptr' = PreviousFrame(t)

\* The entry function does not leave its frame: it ends the program.
PopFrame(t) ==
  IF Function.name = program.entry
  THEN tape' = [t EXCEPT ![ptr].high = 0] /\ UNCHANGED ptr
  ELSE tape' = [t EXCEPT ![ptr].marker = 0] /\ ptr' = PreviousFrame(t)

----------------------------------------------------------------------------
(* The blocks. *)

Dispatched(kind) ==
  /\ tape[ptr].high # 0
  /\ Selected(Len(blocks), TargetOf(tape, ptr)) # NoBlock
  /\ Running.kind = kind

Jump(input) ==
  /\ Dispatched("jump")
  /\ tape' = SetNextBlock(Computed(input), Label(Running.exit.next))
  /\ UNCHANGED <<program, blocks, ptr>>

Branch(input) ==
  /\ Dispatched("branch")
  /\ LET t == Computed(input) IN
     tape' = SetNextBlock(t, Label(IF Fields(t, Running.exit.on, input).low # 0
                                  THEN Running.exit.next ELSE Running.exit.otherwise))
  /\ UNCHANGED <<program, blocks, ptr>>

\* A fault: the caller's own index stays in its frame.
ReturnToCall(t) == t

\* The caller's frame will go on with the metablock of the call.
ReturnToMeta(t) == SetNextBlock(t, ReturnTo(Running))

\* What is in a cell that an argument is passed in: an integer in its own width.
Passed(cell, t, operand, input) ==
  LET fields == Fields(t, operand, input) IN
  IF \/ operand.kind = "global"
     \/ operand.kind = "local" /\ operand.at \notin DOMAIN Function.pointers
  THEN [cell EXCEPT !.low = fields.low]
  ELSE [cell EXCEPT !.high = fields.high, !.low = fields.low]

\* The arguments, in cells of the next frame, which none of them is read from.
WithArguments(t, first, args, input) ==
  [c \in DOMAIN t |-> IF c - first + 1 \in DOMAIN args
                     THEN Passed(t[c], t, args[c - first + 1], input) ELSE t[c]]

\* Where the parameters are in the next frame follows from the callee's type; the
\* index of its entry block is put into its TargetBlock.
Call(input) ==
  /\ Dispatched("call")
  /\ LET t == ReturnToMeta(Computed(input))
         target == Fields(t, Running.exit.callee, input)
         callee == FunctionOf(program, blocks[Selected(Len(blocks), target) + 1].function)
         base == ptr + StackFrameSize(Function)
         passed == WithArguments(t, base + LocalBase(callee), Running.exit.args, input)
     IN  /\ base + StackFrameSize(callee) <= TapeLength
         /\ PushFrame(Put(passed, base, target))
  /\ UNCHANGED <<program, blocks>>

Return(input) ==
  /\ Dispatched("return")
  /\ LET t == Computed(input) IN
     PopFrame(IF Function.returns
              THEN [t EXCEPT ![ptr + ReturnValueStart].low =
                               Fields(t, Running.exit.value, input).low]
              ELSE t)
  /\ UNCHANGED <<program, blocks>>

\* The value is moved out of the frame that was left, just beyond the caller's own.
Fetched ==
  LET cell == ptr + StackFrameSize(Function) + ReturnValueStart IN
  IF Running.exit.into = Nowhere THEN tape
  ELSE Store([tape EXCEPT ![cell].low = 0], Running.exit.into, tape[cell].low)

\* A fault: the metablock leaves its own index in place.
ResumeInPlace ==
  /\ Dispatched("meta")
  /\ tape' = Fetched
  /\ UNCHANGED <<program, blocks, ptr>>

Resume ==
  /\ Dispatched("meta")
  /\ tape' = SetNextBlock(Fetched, Label(Running.exit.next))
  /\ UNCHANGED <<program, blocks, ptr>>

Abort(input) ==
  /\ Dispatched("abort")
  /\ tape' = [Computed(input) EXCEPT ![ptr].high = 0]
  /\ UNCHANGED <<program, blocks, ptr>>

----------------------------------------------------------------------------
Blank == [low |-> 0, high |-> 0, marker |-> 0]

\* The globals' frame and the first frame are marked, and the entry block is next.
Init ==
  /\ program \in Programs
  /\ blocks = Sorted(Created(program))
  /\ Len(blocks) <= MaxBlocks
  /\ ptr = FirstFrame
  /\ ptr + StackFrameSize(FunctionOf(program, program.entry)) <= TapeLength
  /\ tape = Put([c \in 0 .. (TapeLength - 1) |->
                   IF c \in {0, FirstFrame} THEN [Blank EXCEPT !.marker = 1] ELSE Blank],
                FirstFrame, EntryIndex(program.entry))

Next ==
  \/ \E input \in Inputs :
       Jump(input) \/ Branch(input) \/ Call(input) \/ Return(input) \/ Abort(input)
  \/ Resume

\* The interpreter goes on as long as the run flag is set.
Spec == Init /\ [][Next]_vars /\ WF_vars(Next)

----------------------------------------------------------------------------
(* Properties *)

Ended == tape[ptr].high = 0

\* The origins of the frames, the running one last.
Origins == {c \in 1 .. ptr : tape[c].marker = 1}
Bases ==
  [k \in 1 .. Cardinality(Origins) |->
     CHOOSE c \in Origins : Cardinality({d \in Origins : d <= c}) = k]

\* Cells hold bytes.
TypeOK ==
  /\ program \in Programs
  /\ Len(blocks) <= MaxBlocks
  /\ tape \in [0 .. (TapeLength - 1) ->
                 [low : 0 .. (Byte - 1), high : 0 .. (Byte - 1), marker : 0 .. 1]]
  /\ ptr \in FirstFrame .. (TapeLength - 1)

\* Each frame begins where the one before it ends, as long as its function says, and
\* the pointer is at the origin of the last: no marker is left over from frames that
\* are gone, though nothing else on the tape is cleared.
FramesChained ==
  /\ {c \in DOMAIN tape : tape[c].marker = 1} = {0} \cup Origins
  /\ Bases[1] = FirstFrame /\ Bases[Len(Bases)] = ptr
  /\ \A k \in 1 .. (Len(Bases) - 1) :
       Bases[k + 1] = Bases[k] + StackFrameSize(FunctionOf(program, TargetBlock(tape, Bases[k]).function))

\* A caller's frame holds the index of a metablock of its own, whatever its callees did.
CallersWait ==
  \A k \in 1 .. (Len(Bases) - 1) : TargetBlock(tape, Bases[k]).kind = "meta"

\* The program comes to its end: no block is dispatched for ever.
Terminates == <>[]Ended

----------------------------------------------------------------------------
(* Refinement: the frames as the author of the program thinks of them.  A   *)
(* metablock that is about to run has, for the author, already run.         *)

Word(f, k, cell) ==
  IF k \in DOMAIN f.pointers
  THEN blocks[Selected(Len(blocks), [high |-> cell.high, low |-> cell.low]) + 1].function
  ELSE cell.low

FrameAt(t, base) ==
  LET block == TargetBlock(t, base)
      f == FunctionOf(program, block.function)
      waits == block.kind = "meta"
  IN  [function |-> f.name,
       block |-> IF waits THEN block.exit.next ELSE block.name[2],
       into |-> IF waits /\ base # ptr THEN block.exit.into ELSE Nowhere,
       locals |-> [k \in 0 .. (f.locals - 1) |-> Word(f, k, t[base + LocalBase(f) + k])]]

Settled == IF ~ Ended /\ Running.kind = "meta" THEN Fetched ELSE tape

Stack == IF Ended THEN <<>> ELSE [k \in DOMAIN Bases |-> FrameAt(Settled, Bases[k])]
Globals == [k \in 0 .. (program.globals - 1) |-> Settled[GlobalCell(k)].low]

Author == INSTANCE Calls WITH stack <- Stack, globals <- Globals

\* The dispatched blocks on the tape do what the program means: calls return to
\* where they were made, with the value, and each function has locals of its own.
ImplementsCalls == Author!Spec
============================================================================
