------------------------------- MODULE Calls -------------------------------
(***************************************************************************)
(* What a program means to its author: functions that call one another on  *)
(* a stack of frames, each with locals of its own.  Labels are names; there*)
(* is no tape and no dispatcher.  Execution is shown to implement it.      *)
(***************************************************************************)
EXTENDS BlockPrograms

CONSTANT Byte   \* integers are modulo this

VARIABLES
  program,   \* the program
  stack,     \* the frames, the running one last; none when the program has ended
  globals    \* the values of the globals

vars == <<program, stack, globals>>

Top == stack[Len(stack)]
Running == BlockOf(FunctionOf(program, Top.function), Top.block)
Below == SubSeq(stack, 1, Len(stack) - 1)

Word == 0 .. (Byte - 1)

Value(locals, globs, operand, input) ==
  CASE operand.kind = "local" -> locals[operand.at]
    [] operand.kind = "global" -> globs[operand.at]
    [] operand.kind = "constant" -> operand.value
    [] operand.kind = "function" -> operand.name
    [] operand.kind = "input" -> input
    [] operand.kind = "nowhere" -> 0

\* The locals and globals when value is put into a place.
LocalsWith(locals, place, value) ==
  IF place.kind = "local" THEN [locals EXCEPT ![place.at] = value] ELSE locals
GlobalsWith(globs, place, value) ==
  IF place.kind = "global" THEN [globs EXCEPT ![place.at] = value] ELSE globs

Computed(input) ==
  LET c == Running.compute IN
  (Value(Top.locals, globals, c.left, input) + Value(Top.locals, globals, c.right, input)) % Byte

\* The locals and globals at the end of the running block.
Locals(input) == LocalsWith(Top.locals, Running.compute.dest, Computed(input))
Globals(input) == GlobalsWith(globals, Running.compute.dest, Computed(input))
AtEnd(operand, input) == Value(Locals(input), Globals(input), operand, input)

Frame(function, label, into, locals) ==
  [function |-> function, block |-> label, into |-> into, locals |-> locals]

----------------------------------------------------------------------------
\* Go on in the running function.
Continue(label, input) ==
  /\ stack' = Append(Below, Frame(Top.function, label, Nowhere, Locals(input)))
  /\ globals' = Globals(input)
  /\ UNCHANGED program

Jump(input) ==
  /\ Running.exit.kind = "jump"
  /\ Continue(Running.exit.next, input)

Branch(input) ==
  /\ Running.exit.kind = "branch"
  /\ Continue(IF AtEnd(Running.exit.on, input) # 0 THEN Running.exit.next
              ELSE Running.exit.otherwise, input)

\* The callee's parameters are the arguments; its other locals are not initialized.
Call(input) ==
  LET exit == Running.exit IN
  /\ exit.kind = "call"
  /\ LET callee == FunctionOf(program, AtEnd(exit.callee, input))
         caller == Frame(Top.function, exit.next, exit.into, Locals(input))
     IN  \E other \in [callee.params .. (callee.locals - 1) -> Word] :
           stack' = Below \o <<caller,
             Frame(callee.name, EntryOf(callee), Nowhere,
                   [k \in 0 .. (callee.locals - 1) |->
                      IF k < callee.params THEN AtEnd(exit.args[k + 1], input) ELSE other[k]])>>
  /\ globals' = Globals(input)
  /\ UNCHANGED program

\* The caller gets the value and goes on; with the last frame the program ends.
Return(input) ==
  /\ Running.exit.kind = "return"
  /\ LET value == AtEnd(Running.exit.value, input)
         caller == Below[Len(Below)]
     IN  IF Below = <<>>
         THEN stack' = <<>> /\ globals' = Globals(input)
         ELSE /\ stack' = [Below EXCEPT ![Len(Below)] =
                             Frame(caller.function, caller.block, Nowhere,
                                   LocalsWith(caller.locals, caller.into, value))]
              /\ globals' = GlobalsWith(Globals(input), caller.into, value)
  /\ UNCHANGED program

Abort(input) ==
  /\ Running.exit.kind = "abort"
  /\ stack' = <<>>
  /\ globals' = Globals(input)
  /\ UNCHANGED program

Init ==
  /\ program \in Programs
  /\ LET main == FunctionOf(program, program.entry) IN
     \E locals \in [0 .. (main.locals - 1) -> Word] :
       stack = <<Frame(main.name, EntryOf(main), Nowhere, locals)>>
  /\ globals = [k \in 0 .. (program.globals - 1) |-> 0]

Next ==
  /\ stack # <<>>
  /\ \E input \in Inputs :
       Jump(input) \/ Branch(input) \/ Call(input) \/ Return(input) \/ Abort(input)

Spec == Init /\ [][Next]_vars
=============================================================================
