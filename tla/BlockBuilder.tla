---------------------------- MODULE BlockBuilder ----------------------------
(***************************************************************************)
(* The calls a client of the assembler makes to write a program in         *)
(* dispatch mode, and the blocks they become: labels, jumps, calls, returns*)
(* and aborts close blocks and open others, metablocks are scheduled, and  *)
(* endProgram resolves what was deferred, checks the flow and generates.   *)
(* A call that is refused ends the run: its exception leaves the assembler *)
(* in the middle of a program.                                             *)
(***************************************************************************)
EXTENDS Naturals, Sequences, FiniteSets, SequencesExt

CONSTANTS
  Functions,  \* the names a client may give to functions; all are void()
  Entry,      \* the entry function the program names
  Labels,     \* the names a client may give to labels
  MaxCalls,   \* bound on the calls in the bodies of one program
  MaxDepth    \* bound on the nesting of scopes

ASSUME BuilderAssumption ==
  /\ Entry \in Functions
  /\ MaxCalls \in Nat
  /\ MaxDepth \in Nat

None == "none"   \* nothing expected, no error

VARIABLES
  phase,        \* "outside" a program, in a "program", its text "ended", a call "rejected", or "stopped"
  error,        \* the code of the exception, or what stopped the generator
  functions,    \* _program.functions
  inFunction,   \* _currentFunction is not null: it is the last one
  open,         \* _currentBlock is not null: it is the last one of that function
  depth,        \* the number of scopes open
  expected,     \* the only call that is accepted, process-wide
  metaBlocks,   \* the metablocks scheduled
  labelChecks,  \* the labels that must turn out to be defined
  text          \* history: what the bodies say, call by call

vars == <<phase, error, functions, inFunction, open, depth, expected, metaBlocks, labelChecks, text>>

----------------------------------------------------------------------------
(* Blocks. *)

Label(l) == <<"label", l>>

NewBlock(name) ==
  [name |-> name, code |-> <<>>, children |-> {}, calls |-> {},
   returns |-> FALSE, reachable |-> TRUE]

NamesIn(blocks) == {b.name : b \in ToSet(blocks)}
BlockNamed(blocks, name) == CHOOSE b \in ToSet(blocks) : b.name = name
IsDefined(f) == \E k \in DOMAIN functions : functions[k].name = f

Current == functions[Len(functions)]
OpenBlock == Last(Current.blocks)

\* A fault: blocks are numbered by the calls that were made.
GeneratedByCalls == <<"block", Len(metaBlocks)>>
\* A block without a label gets a number for a name. The code counts on from program to program;
\* here the program's blocks are counted, which as well gives a number that no other block has.
Generated ==
  <<"block", Cardinality(UNION {{k} \X DOMAIN functions[k].blocks : k \in DOMAIN functions})>>

\* The functions when the blocks of the current one are these.
WithBlocks(blocks) == [functions EXCEPT ![Len(functions)].blocks = blocks]
Changed(block) == Front(Current.blocks) \o <<block>>

\* What a call adds to the code is known by the place of the call in the text.
Here == Len(Last(text)) + 1
Emitted(block) == [block EXCEPT !.code = Append(@, Here)]
LeadingTo(block, names) == [block EXCEPT !.children = @ \cup names]

----------------------------------------------------------------------------
(* The calls in a body. *)

Stop(what) == phase' = "stopped" /\ error' = what
Reject(code) == phase' = "rejected" /\ error' = code

\* What is left behind by a call that fails in the middle of the text is not used.
Abandon ==
  /\ functions' = <<>> /\ text' = <<>> /\ metaBlocks' = <<>> /\ labelChecks' = {}
  /\ inFunction' = FALSE /\ open' = FALSE /\ depth' = 0 /\ expected' = None

Says(op, to) ==
  /\ phase = "program" /\ inFunction
  /\ expected \in {None, op}
  /\ Len(FlattenSeq(text)) < MaxCalls
  /\ text' = [text EXCEPT ![Len(text)] = Append(@, [op |-> op, to |-> to])]

\* Any call on values.
Work ==
  /\ Says("work", <<>>)
  /\ functions' = WithBlocks(Changed(Emitted(OpenBlock)))
  /\ UNCHANGED <<phase, error, inFunction, open, depth, expected, metaBlocks, labelChecks>>

BeginLabel(l) ==
  /\ Says("label", <<l>>)
  /\ Label(l) \notin NamesIn(Current.blocks)
  /\ functions' = WithBlocks(
       IF open THEN Append(Changed(LeadingTo(OpenBlock, {Label(l)})), NewBlock(Label(l)))
               ELSE Append(Current.blocks, NewBlock(Label(l))))
  /\ open' = TRUE
  /\ expected' = None
  /\ UNCHANGED <<phase, error, inFunction, depth, metaBlocks, labelChecks>>

\* The end of the block, and what both kinds of jump leave to check.
LeaveFor(names, mentioned) ==
  /\ functions' = WithBlocks(Changed(LeadingTo(OpenBlock, {Label(l) : l \in names})))
  /\ labelChecks' = labelChecks \cup {<<Current.name, Label(l)>> : l \in mentioned}
  /\ open' = FALSE
  /\ UNCHANGED <<phase, error, inFunction, depth, metaBlocks>>

\* A fault: code may follow a jump.
ExpectAnything == UNCHANGED expected
\* After a jump only a label is accepted: there is no block to put code in.
ExpectLabel == expected' = "label"

Jump(l) ==
  /\ Says("jump", <<l>>)
  /\ LeaveFor({l}, {l})
  /\ ExpectLabel

JumpIf(l1, l2) ==
  /\ Says("jumpIf", <<l1, l2>>)
  /\ LeaveFor({l1, l2}, {l1, l2})
  /\ ExpectLabel

\* The condition is a literal: the jump is decided at once.
JumpIfLiteral(taken, other) ==
  /\ Says("jumpIf literal", <<taken, other>>)
  /\ LeaveFor({taken}, {taken, other})
  /\ ExpectLabel

\* The block a call ends leads to a metablock, that one to the block that follows.
\* callees is empty when the call goes through a function pointer.
MetaName == <<"meta", Len(metaBlocks)>>

\* A fault: the metablock leads to the name that the next block would get.
ScheduledAndRenamed(callees) ==
  Append(metaBlocks, [name |-> MetaName, caller |-> Current.name, callees |-> callees,
                      nextBlock |-> <<"block", Generated[2] + 1>>])

Scheduled(callees) ==
  Append(metaBlocks, [name |-> MetaName, caller |-> Current.name, callees |-> callees,
                      nextBlock |-> Generated])

Call(callees) ==
  LET ended == [LeadingTo(Emitted(OpenBlock), {MetaName}) EXCEPT !.calls = @ \cup callees] IN
  /\ Says("call", SetToSeq(callees))
  /\ functions' = WithBlocks(Append(Changed(ended), NewBlock(Generated)))
  /\ metaBlocks' = Scheduled(callees)
  /\ UNCHANGED <<phase, error, inFunction, open, depth, expected, labelChecks>>

\* returnFromFunction and abortProgram close the block alike.
Leave(op) ==
  /\ Says(op, <<>>)
  /\ functions' = WithBlocks(Append(Changed([Emitted(OpenBlock) EXCEPT !.returns = TRUE]),
                                    NewBlock(Generated)))
  /\ UNCHANGED <<phase, error, inFunction, open, depth, expected, metaBlocks, labelChecks>>

Unreachable ==
  /\ Says("unreachable", <<>>)
  /\ functions' = WithBlocks(Changed([OpenBlock EXCEPT !.reachable = FALSE]))
  /\ UNCHANGED <<phase, error, inFunction, open, depth, expected, metaBlocks, labelChecks>>

BeginScope ==
  /\ Says("scope", <<>>)
  /\ depth < MaxDepth
  /\ depth' = depth + 1
  /\ UNCHANGED <<phase, error, functions, inFunction, open, expected, metaBlocks, labelChecks>>

EndScope ==
  /\ Says("endScope", <<>>)
  /\ depth > 0
  /\ depth' = depth - 1
  /\ UNCHANGED <<phase, error, functions, inFunction, open, expected, metaBlocks, labelChecks>>

----------------------------------------------------------------------------
(* Programs and functions. *)

\* What an earlier program left in metaBlocks and labelChecks stays there.
BeginProgram ==
  /\ phase \in {"outside", "ended"}
  /\ phase' = "program"
  /\ functions' = <<>>
  /\ text' = <<>>
  /\ UNCHANGED <<error, inFunction, open, depth, expected, metaBlocks, labelChecks>>

BeginFunction(f) ==
  /\ phase = "program" /\ ~ inFunction
  /\ ~ IsDefined(f)
  /\ functions' = Append(functions, [name |-> f, blocks |-> <<NewBlock(Generated)>>])
  /\ text' = Append(text, <<>>)
  /\ inFunction' = TRUE
  /\ open' = TRUE
  /\ UNCHANGED <<phase, error, depth, expected, metaBlocks, labelChecks>>

EndFunction ==
  /\ phase = "program" /\ inFunction
  /\ expected = None
  /\ depth = 0
  /\ inFunction' = FALSE
  /\ open' = FALSE
  /\ UNCHANGED <<phase, error, functions, depth, expected, metaBlocks, labelChecks, text>>

\* What is reached from a set in n steps along edges.
Closure(from, edges, n) ==
  LET found[k \in 0 .. n] ==
        IF k = 0 THEN from
        ELSE LET before == found[k - 1]
             IN  before \cup {e[2] : e \in {d \in edges : d[1] \in before}}
  IN  found[n]

\* constructMetaBlocks: each metablock becomes a block of the function it was scheduled in.
Built(m) == LeadingTo(NewBlock(m.name), {m.nextBlock})
Caller(m) == CHOOSE k \in DOMAIN functions : functions[k].name = m.caller
Completed ==
  LET after[i \in 0 .. Len(metaBlocks)] ==
        IF i = 0 THEN functions
        ELSE [after[i - 1] EXCEPT ![Caller(metaBlocks[i])].blocks = Append(@, Built(metaBlocks[i]))]
  IN  after[Len(metaBlocks)]

\* checkFunctionFlowValidity follows the names of children to the blocks that have them.
Edges(blocks) ==
  UNION {{b.name} \X (b.children \cap NamesIn(blocks)) : b \in ToSet(blocks)}
Reached(blocks) ==
  Closure({Head(blocks).name}, Edges(blocks), Len(blocks))

EndsWithoutReturn(blocks) ==
  LET reached == Reached(blocks) IN
  \E b \in ToSet(blocks) : b.name \in reached /\ b.children = {} /\ ~ b.returns

HasDeadLabel(blocks) ==
  LET reached == Reached(blocks) IN
  \E b \in ToSet(blocks) : b.name[1] = "label" /\ b.name \notin reached /\ b.reachable

\* checkFunctionFlowValidity
FlowChecks(blocks) ==
  << [code |-> "ExecutionPathWithoutReturn", fails |-> EndsWithoutReturn(blocks)],
     [code |-> "UnreachableCodeSection", fails |-> HasDeadLabel(blocks)] >>

LabelIsDefined(f, label) ==
  \E k \in DOMAIN functions : functions[k].name = f /\ label \in NamesIn(functions[k].blocks)

CallUnknown == \E m \in ToSet(metaBlocks), f \in Functions : f \in m.callees /\ ~ IsDefined(f)

\* What endProgram looks at, in its order.  constructMetaBlocks looks an unknown callee
\* up, in a map that throws, before the deferred check that would name it.
Checks ==
  << [code |-> "EmptyProgram", fails |-> functions = <<>>],
     [code |-> "EntryFunctionNotDefined", fails |-> ~ IsDefined(Entry)],
     [code |-> "std::out_of_range", fails |-> CallUnknown],
     [code |-> "FunctionDoesNotExist", fails |-> CallUnknown],
     [code |-> "LabelDoesNotExist",
      fails |-> \E c \in labelChecks : ~ LabelIsDefined(c[1], c[2])] >>
  \o FlattenSeq([k \in DOMAIN functions |-> FlowChecks(Completed[k].blocks)])

\* The generated code of a block computes the dispatch indices of the blocks it
\* leads to and of the entries of the functions it calls.
EntryBlock(f) == Head((CHOOSE g \in ToSet(functions) : g.name = f).blocks)
Unindexed ==
  \E fn \in ToSet(Completed) : \E b \in ToSet(fn.blocks) :
    /\ b.reachable
    /\ \/ \E c \in b.children \cap NamesIn(fn.blocks) : ~ BlockNamed(fn.blocks, c).reachable
       \/ \E f \in b.calls : ~ EntryBlock(f).reachable

\* A fault: the checks of this program are made on the next one too.
ClearedButLabels == metaBlocks' = <<>> /\ UNCHANGED labelChecks
\* What was deferred is done with.
Cleared == metaBlocks' = <<>> /\ labelChecks' = {}

FirstFailing(checks) == SelectInSeq(checks, LAMBDA c : c.fails)

EndProgram ==
  LET failing == FirstFailing(Checks) IN
  /\ phase = "program" /\ ~ inFunction
  /\ \/ /\ failing # 0
        /\ Reject(Checks[failing].code)
        /\ UNCHANGED <<functions, metaBlocks, labelChecks>>
     \/ /\ failing = 0
        /\ functions' = Completed
        /\ Cleared
        /\ IF Unindexed \/ ~ EntryBlock(Entry).reachable
           THEN Stop("no dispatch index")
           ELSE phase' = "ended" /\ UNCHANGED error
  /\ UNCHANGED <<inFunction, open, depth, expected, text>>

----------------------------------------------------------------------------
(* Calls that are refused at once, and calls that are not but should be. *)

InBody == phase = "program" /\ inFunction /\ expected = None

Refused ==
  /\ phase \in {"outside", "program", "ended"}
  /\ \/ expected = "label" /\ Reject("UnexpectedApiCall")   \* anything but a label after a jump
     \/ ~ inFunction /\ Reject("ExpectedInsideFunctionBlock")   \* a call in a body, endFunction
     \/ InBody /\ Reject("ExpectedOutsideFunctionBlock")   \* function, endProgram
     \/ InBody /\ depth > 0 /\ Reject("ExpectedNoScope")   \* endFunction
     \/ phase = "program" /\ expected = None /\ Reject("ExpectedOutsideProgramBlock")   \* program
     \/ phase # "program" /\ Reject("ExpectedInsideProgramBlock")   \* function, endProgram
  /\ Abandon

\* A name in use is asserted not to be, and endScope reads the parent of a null scope.
Undefined ==
  /\ \/ \E l \in Labels :
          /\ phase = "program" /\ inFunction
          /\ Label(l) \in NamesIn(Current.blocks)
          /\ Stop("label defined twice")
     \/ /\ phase = "program" /\ ~ inFunction
        /\ functions # <<>>
        /\ Stop("function defined twice")
     \/ InBody /\ depth = 0 /\ Stop("no scope to end")
  /\ Abandon

Init ==
  /\ phase = "outside"
  /\ error = None
  /\ functions = <<>>
  /\ inFunction = FALSE
  /\ open = FALSE
  /\ depth = 0
  /\ expected = None
  /\ metaBlocks = <<>>
  /\ labelChecks = {}
  /\ text = <<>>

BodyCall ==
  \/ Work
  \/ \E l \in Labels : BeginLabel(l) \/ Jump(l)
  \/ \E l1, l2 \in Labels : l1 # l2 /\ (JumpIf(l1, l2) \/ JumpIfLiteral(l1, l2))
  \/ \E f \in Functions : Call({f})
  \/ Call({})
  \/ Leave("return") \/ Leave("abort")
  \/ Unreachable
  \/ BeginScope \/ EndScope

Next ==
  \/ BeginProgram \/ EndProgram
  \/ \E f \in Functions : BeginFunction(f)
  \/ EndFunction
  \/ BodyCall
  \/ Refused \/ Undefined

Spec == Init /\ [][Next]_vars

----------------------------------------------------------------------------
(* What the text says, apart from blocks. *)

Ops(T, kinds) == {i \in DOMAIN T : T[i].op \in kinds}
Emitting(T) == Ops(T, {"work", "call", "return", "abort"})
LabelsOf(T) == Ops(T, {"label"})
At(T, l) == {i \in LabelsOf(T) : T[i].to = <<l>>}

Jumps == {"jump", "jumpIf", "jumpIf literal"}
Targets(call) == IF call.op = "jumpIf" THEN {call.to[1], call.to[2]} ELSE {call.to[1]}

\* The places the execution of place i may go on at; Len(T) + 1 is past the end.
After(T, i) ==
  IF i \notin DOMAIN T \/ T[i].op \in {"return", "abort"} THEN {}
  ELSE IF T[i].op \in Jumps THEN UNION {At(T, l) : l \in Targets(T[i])}
  ELSE {i + 1}

Places(T) == 1 .. (Len(T) + 1)
Flow(T, places) == UNION {{i} \X After(T, i) : i \in places}
Visited(T) == Closure({1}, Flow(T, Places(T)), Len(T) + 1)

\* Marks belong to what follows the last label, call, return or abort.
MarkedBy(T, i, j) ==
  /\ j \in Ops(T, {"unreachable"}) /\ i < j
  /\ Ops(T, {"label", "call", "return", "abort"}) \cap (i + 1) .. j = {}
DeadLabels(T) == LabelsOf(T) \ Visited(T)

Mentioned(T) == UNION {ToSet(T[i].to) : i \in Ops(T, Jumps)}
Called(T) == UNION {ToSet(T[i].to) : i \in Ops(T, {"call"})}

\* The faults of the text, and the codes by which README.md has them reported.
FaultCodes == {"EmptyProgram", "EntryFunctionNotDefined", "FunctionDoesNotExist",
               "LabelDoesNotExist", "ExecutionPathWithoutReturn", "UnreachableCodeSection"}
Fault(code, holds) == IF holds THEN {code} ELSE {}
Faults ==
  Fault("EmptyProgram", text = <<>>)
  \cup Fault("EntryFunctionNotDefined", ~ IsDefined(Entry))
  \cup Fault("FunctionDoesNotExist", \E T \in ToSet(text) : \E f \in Called(T) : ~ IsDefined(f))
  \cup Fault("LabelDoesNotExist", \E T \in ToSet(text) : \E l \in Mentioned(T) : At(T, l) = {})
  \cup Fault("ExecutionPathWithoutReturn", \E T \in ToSet(text) : (Len(T) + 1) \in Visited(T))
  \cup Fault("UnreachableCodeSection",
             \E T \in ToSet(text) : \E i \in DeadLabels(T) : \A j \in DOMAIN T : ~ MarkedBy(T, i, j))

\* The codes of calls out of place (Refused), which say nothing of the text.
MisuseCodes == {"UnexpectedApiCall", "ExpectedInsideFunctionBlock", "ExpectedOutsideFunctionBlock",
                "ExpectedNoScope", "ExpectedOutsideProgramBlock", "ExpectedInsideProgramBlock"}

\* Where control goes from one call that emits code to the next, 0 being the start.
TextFlow(T) ==
  LET silent == Flow(T, Places(T) \ Emitting(T))
      following(from) == Closure(from, silent, Len(T) + 1) \cap Emitting(T)
  IN  (UNION {{<<i, j>> : j \in following(After(T, i))} : i \in Emitting(T) \cap Visited(T)})
      \cup {<<0, j>> : j \in following({1})}

BlockFlow(blocks) ==
  LET silent == {e \in Edges(blocks) : BlockNamed(blocks, e[1]).code = <<>>}
      following(names) == {Head(BlockNamed(blocks, name).code) :
                             name \in {m \in Closure(names, silent, Len(blocks)) :
                                         BlockNamed(blocks, m).code # <<>>}}
      within(b) == {<<b.code[x], b.code[x + 1]>> : x \in 1 .. (Len(b.code) - 1)}
      leaving(b) == IF b.code = <<>> THEN {}
                    ELSE {<<Last(b.code), j>> : j \in following(b.children \cap NamesIn(blocks))}
      reached == {BlockNamed(blocks, name) : name \in Reached(blocks)}
  IN  (UNION {within(b) \cup leaving(b) : b \in reached})
      \cup {<<0, j>> : j \in following({Head(blocks).name})}

----------------------------------------------------------------------------
(* Properties. *)

\* The variables have their types, and a function's blocks have names of their own:
\* children, metablocks and the dispatch table know them by nothing else.
TypeOK ==
  /\ phase \in {"outside", "program", "ended", "rejected", "stopped"}
  /\ expected \in {None, "label"}
  /\ depth \in 0 .. MaxDepth
  /\ inFunction \in BOOLEAN /\ open \in BOOLEAN
  /\ \A fn \in ToSet(functions) :
       /\ fn.name \in Functions
       /\ Cardinality(NamesIn(fn.blocks)) = Len(fn.blocks)
  /\ \A m \in ToSet(metaBlocks) : m.callees \subseteq Functions

\* Code is only ever put into a block: there is one open whenever a call is
\* accepted that emits, and the only call accepted without one is a label.
\* (jump and jumpIf close the block and leave it to API_EXPECT_NEXT that nothing
\* reaches _currentBlock, which is null, before a label opens the next.)
EmitsIntoABlock ==
  phase = "program" => /\ (inFunction /\ ~ open) <=> expected = "label"
                       /\ open => inFunction

\* endProgram accepts a program only when its text is without fault: every call
\* and label resolves, no path runs off the end of a function, no label that is
\* not marked is dead.  It refuses none without a fault, whatever it throws, and the
\* fault it names is one the text has.  (The checks are deferred to lists and to the
\* graph of blocks, and run on those.)
VerdictIsRight ==
  /\ phase = "ended" => Faults = {}
  /\ phase = "rejected" /\ error \notin MisuseCodes => Faults # {}
  /\ phase = "rejected" /\ error \in FaultCodes => error \in Faults

\* What a call that is refused throws is an error::Error with a code of README.md, an
\* undefined callee being FunctionDoesNotExist: a client catches nothing else.
RefusedWithACode == phase = "rejected" => error \in FaultCodes \cup MisuseCodes

\* Through blocks, fallthroughs and metablocks, the code of the calls is run in the
\* order in which the text puts it.
BlocksFollowText ==
  phase = "ended" =>
    \A k \in DOMAIN functions : BlockFlow(functions[k].blocks) = TextFlow(text[k])

\* A program without fault whose marks are true, those of blocks that are never
\* reached, gets its dispatcher: unreachable() suppresses a validation error (README.md),
\* and takes nothing from the blocks that lead to the marked one.
MarkedIsAccepted ==
  phase = "stopped" /\ error = "no dispatch index" =>
    \E T \in ToSet(text) : \E j \in Ops(T, {"unreachable"}) : j \in Visited(T)
=============================================================================
