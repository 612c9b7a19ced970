----------------------------- MODULE Dispatcher -----------------------------
(***************************************************************************)
(* One round of the main loop of a generated program: the switches that    *)
(* constructSwitches builds (assembler_program.cc), cell by cell.          *)
(*                                                                         *)
(* The switch has no jumps: case k is nested in k loops over the value,    *)
(* and on the way back out of them every loop tests its cell again, and    *)
(* every case its flag.  The pointer is meanwhile where the block has left *)
(* it, in a frame whose own cells must be 0 for the loops to end.  The     *)
(* inner switch keeps its flag in the cell that was the outer value.       *)
(***************************************************************************)
EXTENDS Dispatch, FiniteSets, Sequences

VARIABLES
  n,          \* the number of blocks
  index,      \* the index that the round began with
  target,     \* the index in the TargetBlock of the current frame
  scratch0,   \* the inner value
  scratch1,   \* the outer value, then the inner flag
  flag,       \* the outer flag
  level,      \* the switch that runs: "outer" or "inner"
  at,         \* where it is: testing a value or a flag, of which case
  row,        \* the outer case that runs the inner switch
  ran         \* the blocks that ran

vars == <<n, index, target, scratch0, scratch1, flag, level, at, row, ran>>

Dec(cell) == (cell + Byte - 1) % Byte
Inc(cell) == (cell + 1) % Byte

Test(k) == [test |-> "value", case |-> k]
Flag(k) == [test |-> "flag", case |-> k]
Done == [test |-> "none", case |-> 0]

Rest == <<n, index, row, ran>>

----------------------------------------------------------------------------
(* The outer switch. *)

\* Case k is found, or the loop around its successors is over.
OuterFound ==
  /\ level = "outer" /\ at.test = "value" /\ scratch1 = 0
  /\ at' = Flag(at.case)
  /\ UNCHANGED <<Rest, target, scratch0, scratch1, flag, level>>

OuterNext ==
  /\ level = "outer" /\ at.test = "value" /\ scratch1 # 0
  /\ at.case + 1 < Shape[n].outer
  /\ scratch1' = Dec(scratch1)
  /\ at' = Test(at.case + 1)
  /\ UNCHANGED <<Rest, target, scratch0, flag, level>>

\* No row has this number: end the program.
OuterDefault ==
  /\ level = "outer" /\ at.test = "value" /\ scratch1 # 0
  /\ at.case + 1 = Shape[n].outer
  /\ scratch1' = 0
  /\ target' = [target EXCEPT !.high = 0]
  /\ flag' = Dec(flag)
  /\ UNCHANGED <<Rest, scratch0, level, at>>

\* The case begins: the inner switch takes over, with its flag set.
OuterCase ==
  /\ level = "outer" /\ at.test = "flag" /\ flag # 0
  /\ flag' = Dec(flag)
  /\ scratch1' = Inc(scratch1)
  /\ level' = "inner"
  /\ at' = Test(0)
  /\ row' = at.case
  /\ UNCHANGED <<n, index, ran, target, scratch0>>

\* The case is over: back to the loop around it, which tests the value again.
OuterLeave ==
  /\ level = "outer" /\ at.test = "flag" /\ flag = 0
  /\ at' = IF at.case = 0 THEN Done ELSE Test(at.case - 1)
  /\ UNCHANGED <<Rest, target, scratch0, scratch1, flag, level>>

----------------------------------------------------------------------------
(* The inner switch. *)

InnerFound ==
  /\ level = "inner" /\ at.test = "value" /\ scratch0 = 0
  /\ at' = Flag(at.case)
  /\ UNCHANGED <<Rest, target, scratch0, scratch1, flag, level>>

InnerNext ==
  /\ level = "inner" /\ at.test = "value" /\ scratch0 # 0
  /\ at.case + 1 < Cases(n, row)
  /\ scratch0' = Dec(scratch0)
  /\ at' = Test(at.case + 1)
  /\ UNCHANGED <<Rest, target, scratch1, flag, level>>

\* A fault: the default case does not clear the flag, so that the case above it runs.
InnerDefaultKeepsFlag ==
  /\ level = "inner" /\ at.test = "value" /\ scratch0 # 0
  /\ at.case + 1 = Cases(n, row)
  /\ scratch0' = 0
  /\ target' = [target EXCEPT !.high = 0]
  /\ UNCHANGED <<Rest, flag, scratch1, level, at>>

InnerDefault ==
  /\ level = "inner" /\ at.test = "value" /\ scratch0 # 0
  /\ at.case + 1 = Cases(n, row)
  /\ scratch0' = 0
  /\ target' = [target EXCEPT !.high = 0]
  /\ scratch1' = Dec(scratch1)
  /\ UNCHANGED <<Rest, flag, level, at>>

\* A fault: the flag is still set when the block has run.
InnerCaseKeepsFlag ==
  /\ level = "inner" /\ at.test = "flag" /\ scratch1 # 0
  /\ Len(ran) < 2
  /\ ran' = Append(ran, row * Shape[n].inner + at.case)
  /\ UNCHANGED <<n, index, row, target, scratch0, scratch1, flag, level, at>>

\* The block runs; the frame that it leaves the pointer in has clean cells.
InnerCase ==
  /\ level = "inner" /\ at.test = "flag" /\ scratch1 # 0
  /\ scratch1' = Dec(scratch1)
  /\ ran' = Append(ran, row * Shape[n].inner + at.case)
  /\ UNCHANGED <<n, index, row, target, scratch0, flag, level, at>>

InnerLeave ==
  /\ level = "inner" /\ at.test = "flag" /\ scratch1 = 0
  /\ IF at.case = 0
     THEN level' = "outer" /\ at' = Flag(row)
     ELSE level' = level /\ at' = Test(at.case - 1)
  /\ UNCHANGED <<Rest, target, scratch0, scratch1, flag>>

----------------------------------------------------------------------------
\* A fault: the outer value is not decremented before the first test.
InitFromZero ==
  /\ n \in 1 .. MaxBlocks
  /\ index \in [high : 1 .. (Byte - 1), low : 0 .. (Byte - 1)]
  /\ target = index
  /\ scratch0 = target.low
  /\ scratch1 = target.high
  /\ flag = 1
  /\ level = "outer" /\ at = Test(0)
  /\ row = 0 /\ ran = <<>>

\* copyTargetBlockToScratch has copied the index; the flag is set and the outer
\* value decremented.
Init ==
  /\ n \in 1 .. MaxBlocks
  /\ index \in [high : 1 .. (Byte - 1), low : 0 .. (Byte - 1)]
  /\ target = index
  /\ scratch0 = target.low
  /\ scratch1 = Dec(target.high)
  /\ flag = 1
  /\ level = "outer" /\ at = Test(0)
  /\ row = 0 /\ ran = <<>>

Outer == OuterFound \/ OuterNext \/ OuterDefault \/ OuterCase \/ OuterLeave
Inner == InnerFound \/ InnerNext \/ InnerDefault \/ InnerCase \/ InnerLeave

Next == Outer \/ Inner

\* The interpreter runs the next instruction as long as there is one.
Spec == Init /\ [][Next]_vars /\ WF_vars(Next)

----------------------------------------------------------------------------
(* Properties *)

\* Cells hold bytes, and the switches are at a case they have.
TypeOK ==
  /\ target \in [high : 0 .. (Byte - 1), low : 0 .. (Byte - 1)]
  /\ {scratch0, scratch1, flag} \subseteq 0 .. (Byte - 1)
  /\ at.case \in 0 .. (IF level = "outer" THEN Shape[n].outer ELSE Cases(n, row)) - 1
  /\ row \in 0 .. (Shape[n].outer - 1)

\* A round runs the one block whose index it finds in TargetBlock, and leaves the
\* index there; an index that no block has runs nothing and ends the program.
RunsTheTarget ==
  at = Done =>
    LET found == {i \in 0 .. (n - 1) : DispatchIndex(n, i) = index} IN
    IF found = {} THEN ran = <<>> /\ target.high = 0
    ELSE target = index /\ Len(ran) = 1 /\ ran[1] \in found

\* What the switches find is what Selected says they find.
AgreesWithSelected ==
  at = Done => ran = IF Selected(n, index) = NoBlock THEN <<>> ELSE <<Selected(n, index)>>

\* No two blocks have the same index, none has the index that ends the program, and
\* every case that is built has a block to insert.
IndicesDistinct ==
  /\ Cardinality({DispatchIndex(n, i) : i \in 0 .. (n - 1)}) = n
  /\ \A i \in 0 .. (n - 1) : DispatchIndex(n, i).high # 0
  /\ \A r \in 0 .. (Shape[n].outer - 1) : r * Shape[n].inner + Cases(n, r) <= n

\* The nested loops come to an end.
RoundEnds == <>(at = Done)
=============================================================================
