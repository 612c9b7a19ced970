----------------------------- MODULE MCExecution -----------------------------
(***************************************************************************)
(* Programs that call in the ways a program can.                           *)
(***************************************************************************)
EXTENDS Execution

Function_(name, returns, params, locals, body) ==
  [name |-> name, type |-> <<returns, params, <<>>>>, returns |-> returns, params |-> params,
   locals |-> locals, pointers |-> <<>>, priority |-> 0, blocks |-> body]

\* Recursion with a result, in frames of different sizes.
Sums ==
  [entry |-> "main", globals |-> 2, functions |-> <<
     Function_("main", FALSE, 0, 1, <<
       Block("start", Move(Local(0), Input),
             CallTo(FunctionAddress("sum"), <<Local(0)>>, Global(0), "again")),
       Block("again", Nothing,
             CallTo(FunctionAddress("sum"), <<Global(0)>>, Local(0), "store")),
       Block("store", Move(Global(1), Local(0)), ReturnWith(Nowhere))>>),
     Function_("sum", TRUE, 1, 2, <<
       Block("sum", Nothing, BranchOn(Local(0), "more", "zero")),
       Block("more", Compute(Local(1), Local(0), Constant(Byte - 1)),
             CallTo(FunctionAddress("sum"), <<Local(1)>>, Local(1), "add")),
       Block("add", Compute(Local(1), Local(1), Local(0)), ReturnWith(Local(1))),
       Block("zero", Nothing, ReturnWith(Constant(0)))>>)>>]

\* The type of double and add.
DoubleType == <<TRUE, 2, <<>>>>

\* Calls through function pointers, and an abort below them.
Pointers ==
  [entry |-> "main", globals |-> 2, functions |-> <<
     Function_("main", FALSE, 0, 1, <<
       Block("start", Move(Local(0), Input),
             CallTo(FunctionAddress("apply"), <<FunctionAddress("double"), Local(0)>>, Local(0), "next")),
       Block("next", Move(Global(1), Input),
             CallTo(FunctionAddress("apply"), <<FunctionAddress("add"), Global(1)>>, Global(0), "end")),
       Block("end", Compute(Global(1), Global(0), Local(0)), ReturnWith(Nowhere))>>),
     [Function_("apply", TRUE, 2, 3, <<
       Block("apply", Nothing, BranchOn(Local(1), "call", "stop")),
       Block("call", Move(Local(2), Constant(1)), CallTo(Local(0), <<Local(1), Local(2)>>, Local(2), "done")),
       Block("done", Compute(Local(2), Local(2), Local(1)), ReturnWith(Local(2))),
       Block("stop", Move(Global(0), Constant(1)), AbortProgram)>>)
      EXCEPT !.type = <<TRUE, 2, <<DoubleType>>>>, !.pointers = [k \in {0} |-> DoubleType]],
     Function_("double", TRUE, 2, 2, <<
       Block("double", Compute(Local(0), Local(0), Local(0)), ReturnWith(Local(0)))>>),
     Function_("add", TRUE, 2, 2, <<
       Block("add", Compute(Global(1), Local(0), Local(1)), ReturnWith(Global(1)))>>)>>]

\* Procedures that call each other, a loop, and blocks and functions with priorities.
Turns ==
  [entry |-> "main", globals |-> 2, functions |-> <<
     [Function_("even", FALSE, 1, 1, <<
       Block("even", Nothing, BranchOn(Local(0), "odd next", "yes")),
       [Block("odd next", Compute(Local(0), Local(0), Constant(Byte - 1)),
              CallTo(FunctionAddress("odd"), <<Local(0)>>, Nowhere, "back")) EXCEPT !.priority = 2],
       Block("back", Compute(Global(1), Global(1), Constant(1)), ReturnWith(Nowhere)),
       Block("yes", Move(Global(0), Constant(1)), ReturnWith(Nowhere))>>) EXCEPT !.priority = 1],
     Function_("odd", FALSE, 1, 2, <<
       Block("odd", Move(Local(1), Local(0)), BranchOn(Local(1), "even next", "no")),
       Block("even next", Compute(Local(1), Local(0), Constant(Byte - 1)),
             CallTo(FunctionAddress("even"), <<Local(1)>>, Nowhere, "back")),
       Block("back", Nothing, ReturnWith(Nowhere)),
       Block("no", Move(Global(0), Constant(0)), JumpTo("back"))>>),
     Function_("main", FALSE, 0, 1, <<
       Block("main", Move(Local(0), Input), JumpTo("loop")),
       Block("loop", Nothing, BranchOn(Local(0), "turn", "end")),
       Block("turn", Nothing, CallTo(FunctionAddress("even"), <<Local(0)>>, Nowhere, "less")),
       Block("less", Compute(Local(0), Local(0), Constant(Byte - 1)), JumpTo("loop")),
       Block("end", Nothing, ReturnWith(Nowhere))>>)>>]

CallingPrograms == {Sums, Pointers, Turns}
SmallInputs == 0 .. 3

\* The entry function calls itself, and goes on after the call.
ReentrantProgram ==
  {[entry |-> "main", globals |-> 2, functions |-> <<
     Function_("main", FALSE, 0, 1, <<
       Block("main", Move(Local(0), Input), BranchOn(Global(0), "inner", "outer")),
       Block("outer", Move(Global(0), Constant(1)),
             CallTo(FunctionAddress("main"), <<>>, Nowhere, "end")),
       Block("end", Move(Global(1), Constant(1)), ReturnWith(Nowhere)),
       Block("inner", Nothing, ReturnWith(Nowhere))>>)>>]}
==============================================================================
