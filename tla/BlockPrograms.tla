--------------------------- MODULE BlockPrograms ---------------------------
(***************************************************************************)
(* A program as the calls of the assembler's interface leave it: functions *)
(* made of blocks, each of which computes something and ends in one way.   *)
(*                                                                         *)
(* A function is a record [name, type, returns, params, locals, pointers,  *)
(* priority, blocks]: its type, whether it returns a value, how many       *)
(* parameters and locals (the parameters among them) it has, to functions  *)
(* of which type those parameters point that are function pointers, and its*)
(* blocks in order, the entry block first.  A block is a record [label,    *)
(* priority, compute, exit].  A program has functions, in the order of     *)
(* their definition, an entry and a number of globals.                     *)
(***************************************************************************)
EXTENDS Integers, Sequences, SequencesExt

CONSTANTS
  Programs,   \* the programs
  Inputs      \* what a program may read

\* Operands.
Local(k) == [kind |-> "local", at |-> k]
Global(k) == [kind |-> "global", at |-> k]
Constant(value) == [kind |-> "constant", value |-> value]
FunctionAddress(name) == [kind |-> "function", name |-> name]
Input == [kind |-> "input"]
Nowhere == [kind |-> "nowhere"]

\* What a block computes, dest := left + right, and how it ends.
Compute(dest, left, right) == [dest |-> dest, left |-> left, right |-> right]
Nothing == Compute(Nowhere, Constant(0), Constant(0))
Move(dest, src) == Compute(dest, src, Constant(0))

JumpTo(label) == [kind |-> "jump", next |-> label]
BranchOn(operand, label1, label2) ==
  [kind |-> "branch", on |-> operand, next |-> label1, otherwise |-> label2]
CallTo(callee, args, into, label) ==
  [kind |-> "call", callee |-> callee, args |-> args, into |-> into, next |-> label]
ReturnWith(operand) == [kind |-> "return", value |-> operand]
AbortProgram == [kind |-> "abort"]

Block(label, compute, exit) ==
  [label |-> label, priority |-> 0, compute |-> compute, exit |-> exit]

FunctionOf(p, name) == CHOOSE f \in Range(p.functions) : f.name = name
BlockOf(f, label) == CHOOSE b \in Range(f.blocks) : b.label = label
EntryOf(f) == f.blocks[1].label

----------------------------------------------------------------------------
(* What the checks of the interface (API_REQUIRE_..., the deferred checks of *)
(* labels and calls, endProgram) and the assertions behind them make sure   *)
(* of, for a client that returns a value where the type of its function has *)
(* one, and takes one only from such a function.                            *)

\* Operands that are integers, and places for integers.
IsPlace(p, f, o) ==
  \/ o = Nowhere
  \/ \E k \in (0 .. (f.locals - 1)) \ DOMAIN f.pointers : o = Local(k)
  \/ \E k \in 0 .. (p.globals - 1) : o = Global(k)
IsValue(p, f, o, words) ==
  \/ IsPlace(p, f, o) /\ o # Nowhere
  \/ \E v \in words : o = Constant(v)
  \/ o = Input

\* Operands that are pointers to functions of a type.
IsAddress(p, f, o, type) ==
  \/ \E g \in Range(p.functions) : g.type = type /\ o = FunctionAddress(g.name)
  \/ \E k \in DOMAIN f.pointers : f.pointers[k] = type /\ o = Local(k)

IsComputation(p, f, c, words) ==
  IsPlace(p, f, c.dest) /\ IsValue(p, f, c.left, words) /\ IsValue(p, f, c.right, words)

\* A call of a function of the same type as g.
Suits(p, f, exit, g, words) ==
  /\ IsAddress(p, f, exit.callee, g.type)
  /\ exit.args \in Seq(Range(exit.args)) /\ Len(exit.args) = g.params
  /\ \A k \in DOMAIN exit.args :
       IF k - 1 \in DOMAIN g.pointers THEN IsAddress(p, f, exit.args[k], g.pointers[k - 1])
       ELSE IsValue(p, f, exit.args[k], words)
  /\ IsPlace(p, f, exit.into) /\ (g.returns \/ exit.into = Nowhere)

IsExit(p, f, exit, words) ==
  LET labels == {b.label : b \in Range(f.blocks)} IN
  \/ exit.kind = "jump" /\ exit.next \in labels
  \/ /\ exit.kind = "branch" /\ {exit.next, exit.otherwise} \subseteq labels
     /\ IsValue(p, f, exit.on, words)
  \/ /\ exit.kind = "call" /\ exit.next \in labels
     /\ \E g \in Range(p.functions) : Suits(p, f, exit, g, words)
  \/ exit.kind = "return" /\ IF f.returns THEN IsValue(p, f, exit.value, words) ELSE exit.value = Nowhere
  \/ exit.kind = "abort"

\* Names are unique, and functions of one type are called alike.
IsFunction(p, f, words) ==
  /\ f.returns \in BOOLEAN /\ f.locals \in Nat /\ f.params \in 0 .. f.locals
  /\ DOMAIN f.pointers \subseteq 0 .. (f.params - 1)
  /\ \A g \in Range(p.functions) :
       /\ f.name = g.name => f = g
       /\ f.type = g.type => /\ f.params = g.params /\ f.returns = g.returns
                             /\ f.pointers = g.pointers
  /\ f.blocks \in Seq(Range(f.blocks)) /\ f.blocks # <<>>
  /\ \A b, c \in Range(f.blocks) : b.label = c.label => b = c
  /\ \A b \in Range(f.blocks) :
       /\ f.priority + b.priority \in Int
       /\ IsComputation(p, f, b.compute, words) /\ IsExit(p, f, b.exit, words)

WellFormed(p, words) ==
  /\ p.functions \in Seq(Range(p.functions)) /\ p.globals \in Nat
  /\ \A f \in Range(p.functions) : IsFunction(p, f, words)
  /\ \E f \in Range(p.functions) : f.name = p.entry /\ f.params = 0 /\ ~ f.returns
=============================================================================
