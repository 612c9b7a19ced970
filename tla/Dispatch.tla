------------------------------ MODULE Dispatch ------------------------------
(***************************************************************************)
(* How blocks are numbered for the dispatcher (assembler_program.cc and    *)
(* constructContext in assembler_codegen.cc).                              *)
(*                                                                         *)
(* The n blocks of a program fill a switch of outer rows with inner cases  *)
(* each.  A block's index is a pair of cells: its row, counted from 1 so   *)
(* that a high cell of 0 can mean that the program has ended, and its case.*)
(***************************************************************************)
EXTENDS Integers

CONSTANTS
  Byte,       \* the values of a cell: 256 in the generated code
  MaxBlocks   \* the most blocks a program may have: 0xfeff in endProgram

ASSUME ByteAssumption == Byte \in Nat /\ Byte > 2
ASSUME MaxBlocksAssumption == MaxBlocks \in Nat \ {0}

----------------------------------------------------------------------------
(* The search for the shape: the smallest sum of rows and cases, and of    *)
(* these the squarest.  It starts from a shape that is never beaten when   *)
(* more blocks are given than fit in it.                                   *)

Rows(n, inner) == (n + inner - 1) \div inner

\* The longer side is always the inner one.
Result(i, j) == IF i <= j THEN [outer |-> i, inner |-> j] ELSE [outer |-> j, inner |-> i]

Seed == Result(Byte - 2, Byte - 1)

Candidates(n) ==
  {Result(Rows(n, inner), inner) : inner \in {k \in 1 .. Byte : Rows(n, k) < Byte}}

Length(s) == s.outer + s.inner
Excess(s) == s.inner - s.outer

Better(s, t) ==
  \/ Length(s) < Length(t)
  \/ Length(s) = Length(t) /\ Excess(s) < Excess(t)

Searched(n) == Candidates(n) \cup {Seed}

Shape == [n \in 1 .. MaxBlocks |->
            CHOOSE s \in Searched(n) : \A t \in Searched(n) : ~ Better(t, s)]

----------------------------------------------------------------------------
(* Indices. *)

\* A fault: rows are counted from 0.
IndexFromZero(n, i) == [high |-> i \div Shape[n].inner, low |-> i % Shape[n].inner]

\* The cells that hold the index of block i.
DispatchIndex(n, i) ==
  [high |-> ((i \div Shape[n].inner) + 1) % Byte, low |-> i % Shape[n].inner]

\* A fault: the last row is as long as n leaves over, or empty.
CasesLeftOver(n, row) ==
  IF row + 1 < Shape[n].outer THEN Shape[n].inner ELSE n % Shape[n].inner

\* How many cases a row of the switch has.
Cases(n, row) ==
  IF row + 1 < Shape[n].outer THEN Shape[n].inner ELSE ((n - 1) % Shape[n].inner) + 1

NoBlock == -1

\* What the switch finds for an index: a block, or the default case of one of its
\* levels, which ends the program.
Selected(n, index) ==
  IF /\ index.high - 1 \in 0 .. (Shape[n].outer - 1)
     /\ index.low \in 0 .. (Cases(n, index.high - 1) - 1)
  THEN (index.high - 1) * Shape[n].inner + index.low
  ELSE NoBlock
=============================================================================
