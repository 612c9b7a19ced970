------------------------------ MODULE CellCode ------------------------------
(* Straight-line fragments of the generated program and the algorithms every   *)
(* kernel is made of: assembler_algorithms.cc/.tpp, assembler_add.tpp and      *)
(* assembler_sub.tpp.                                                          *)
(*                                                                             *)
(* A fragment is a sequence of instructions of CellMachine.  The structured    *)
(* ones (moveTo a cell, then act) name the cell the assembler believes it is   *)
(* at; the literal Brainfuck of the idioms is kept as its text and moves the   *)
(* real pointer.  A workspace is known by the cell it starts at: cell k of     *)
(* workspace w is w + k.  A run of equal steps (inc(c, n), STEP) is one        *)
(* instruction, and a loop that only transports a cell is its net effect.      *)
EXTENDS Integers, Sequences

CONSTANT Bits                   \* the width of a cell: 8 in the code

Byte == 2^Bits
FieldCount == 9                 \* cells of a macrocell
Value0 == 2                     \* the fields, in order, as offsets of a macrocell
Value1 == 3
Scratch0 == 4
Flag == 6
Payload0 == 7
Payload1 == 8
SeekMarker == 1

Here == -1                      \* act where the pointer is

Single(op, at, n, to) == [op |-> op, at |-> at, n |-> n, to |-> to]
Instruction(op, at, n, to) == <<Single(op, at, n, to)>>

Inc(c, n) == Instruction("add", c, n, <<>>)
Dec(c, n) == Instruction("add", c, -n, <<>>)
Zero(c) == Instruction("zero", c, 0, <<>>)
ZeroEach(cells) == [k \in DOMAIN cells |-> Single("zero", cells[k], 0, <<>>)]
AddConst(c, delta) == Instruction("add", c, delta, <<>>)
Nothing == <<>>

(* ws::promise: the listed cells are zero whenever control comes here. *)
Promise(cells) == Instruction("promise", Here, 0, cells)
PromiseClean(w) == Promise([k \in 1 .. 5 |-> w + k + 1])
PromiseScratch(s) == Promise([k \in 1 .. 5 |-> s + k - 1])

Loop(c, body) ==
  Instruction("open", c, Len(body), <<>>) \o body \o Instruction("close", c, Len(body), <<>>)

MoveToZero(from, tos) ==
  IF tos = <<from>> THEN Nothing ELSE Instruction("move", from, 0, tos)

MoveField(from, tos) ==
  IF tos = <<from>> THEN Nothing
  ELSE ZeroEach(tos) \o MoveToZero(from, tos)

(* The temporary is known to be zero at every use of the kernels. *)
CopyToZero(from, tos, tmp) ==
  IF tos = <<from>> THEN Nothing
  ELSE MoveToZero(from, Append(tos, tmp)) \o MoveToZero(tmp, <<from>>)

CopyField(from, tos, tmp) ==
  IF tos = <<from>> THEN Nothing
  ELSE ZeroEach(tos) \o CopyToZero(from, tos, tmp)

CopyOrMove(move, from, tos, tmp) ==
  IF move THEN MoveField(from, tos) ELSE CopyField(from, tos, tmp)

-----------------------------------------------------------------------------
(* Literal Brainfuck: the brackets are matched inside the text. *)
Chars(text) == [k \in 1 .. Len(text) |-> SubSeq(text, k, k)]

Partner(text, open) ==
  LET Depth(k) == Len(SelectSeq(SubSeq(text, open, k), LAMBDA c : c = "["))
                  - Len(SelectSeq(SubSeq(text, open, k), LAMBDA c : c = "]"))
  IN CHOOSE k \in open .. Len(text) :
       Depth(k) = 0 /\ \A j \in open .. k - 1 : Depth(j) > 0

IdiomCode(text) ==
  LET body(open) == Partner(text, open) - open - 1
      opened(close) == CHOOSE k \in 1 .. close : text[k] = "[" /\ Partner(text, k) = close
      n(k) == CASE text[k] \in {">", "+"} -> 1
                [] text[k] \in {"<", "-"} -> -1
                [] text[k] = "R" -> FieldCount
                [] text[k] = "L" -> -FieldCount
                [] text[k] = "[" -> body(k)
                [] text[k] = "]" -> body(opened(k))
      op(k) == CASE text[k] \in {"<", ">", "L", "R"} -> "walk"
                 [] text[k] \in {"+", "-"} -> "add"
                 [] text[k] = "[" -> "open"
                 [] text[k] = "]" -> "close"
  IN [k \in DOMAIN text |-> Single(op(k), Here, n(k), <<>>)]

(* L and R stand for STEP_L and STEP_R, one macrocell of "<" or ">". *)
LiteralBf(c, text) ==
  Instruction("enter", c, 0, <<>>) \o IdiomCode(Chars(text)) \o Instruction("leave", c, 0, <<>>)

-----------------------------------------------------------------------------
(* Constants are bytes; n % 256 of inc and & 0xff of setToValue are both done  *)
(* by the cell the constant goes to.                                           *)
SetToValue(c, value) == Zero(c) \o AddConst(c, value % Byte)

SetToValue16(w, value) == SetToValue(w, value % Byte) \o SetToValue(w + 1, (value \div Byte) % Byte)

(* Mutants of Inc16, Dec16 and Add16Destructive: no carry; a way back that is  *)
(* one cell short; a counter that is not counted down.                         *)
Inc16WithoutCarry(w) == Inc(w, 1)
Dec16Stranded(w) ==
  Inc(w + 4, 1) \o Dec(w + 1, 1) \o LiteralBf(w, "[>+>]>>[<<]<") \o Dec(w + 4, 1) \o Dec(w, 1)
Add16Forever(w, d) == Loop(d, Inc(w, 1)) \o MoveToZero(d + 1, <<w + 1>>)

(* low, high, two cells that stay as they are, and a clean one used as a stop. *)
Inc16(w) ==
  Inc(w + 4, 1) \o Inc(w + 1, 1) \o Inc(w, 1) \o LiteralBf(w, "[>->]>>[<<]<<") \o Dec(w + 4, 1)

Dec16(w) ==
  Inc(w + 4, 1) \o Dec(w + 1, 1) \o LiteralBf(w, "[>+>]>>[<<]<<") \o Dec(w + 4, 1) \o Dec(w, 1)

AddDestructive(x, y) == MoveToZero(y, <<x>>)
SubDestructive(x, y) == Loop(y, Dec(y, 1) \o Dec(x, 1))

Add16Destructive(w, d) == Loop(d, Dec(d, 1) \o Inc16(w)) \o AddDestructive(w + 1, d + 1)
Sub16Destructive(w, d) == Loop(d, Dec(d, 1) \o Dec16(w)) \o SubDestructive(w + 1, d + 1)

(* tmp is the slot the constant is put in; raw memory, so both its values are. *)
Add16ConstPositive(w, delta, tmp) ==
  PromiseClean(tmp) \o SetToValue16(tmp, delta) \o Add16Destructive(w, tmp)
Sub16ConstPositive(w, delta, tmp) ==
  PromiseClean(tmp) \o SetToValue16(tmp, delta) \o Sub16Destructive(w, tmp)

Add16Const(w, delta, tmp) ==
  CASE delta = 0 -> Nothing
    [] delta < 0 -> Sub16ConstPositive(w, -delta, tmp)
    [] delta > 0 -> Add16ConstPositive(w, delta, tmp)

Sub16Const(w, delta, tmp) == Add16Const(w, -delta, tmp)

-----------------------------------------------------------------------------
(* A cell becomes its own sign bit: while it is counted down a counter goes up *)
(* by two, and the time it wraps past zero leaves its mark in the neighbour.   *)
SignBitDestructive(w) ==
  Loop(w, Inc(w + 1, 1) \o Inc(w + 3, 2) \o LiteralBf(w + 3, "[<]<[->]>") \o Dec(w, 1))
  \o MoveToZero(w + 1, <<w>>) \o Zero(w + 3)

(* The low byte is already in the high one, or is copied there first. *)
SignExtend(w, copyLowByte) ==
  (IF copyLowByte THEN CopyField(w, <<w + 1>>, w + 2) ELSE Nothing)
  \o SignBitDestructive(w + 1)
  \o Inc(w + 3, 1) \o LiteralBf(w + 1, "[>]>[<<-->]<") \o Dec(w + 3, 1)

-----------------------------------------------------------------------------
(* Truth values: assembler_logical.cc and .tpp. *)
BoolCell(target, tmp) == Loop(target, Zero(target) \o Inc(tmp, 1)) \o MoveToZero(tmp, <<target>>)

NotCell(x, tmp) == Inc(tmp, 1) \o Loop(x, Dec(tmp, 1) \o Zero(x)) \o MoveToZero(tmp, <<x>>)

OrCell(x, y) ==
  Loop(x, Zero(x) \o SetToValue(y, 1)) \o Loop(y, Zero(y) \o Inc(x, 1))

AndCell(x, y, tmp) ==
  AddConst(tmp, 2)
  \o Loop(x, Zero(x) \o Dec(tmp, 1)) \o Inc(x, 1)
  \o Loop(y, Zero(y) \o Dec(tmp, 1))
  \o Loop(tmp, Zero(tmp) \o Dec(x, 1))

NandCell(x, y, tmp) ==
  AddConst(tmp, 2)
  \o Loop(x, Zero(x) \o Dec(tmp, 1))
  \o Loop(y, Zero(y) \o Dec(tmp, 1))
  \o Loop(tmp, Zero(tmp) \o Inc(x, 1))

NorCell(x, y) ==
  Loop(x, Zero(x) \o SetToValue(y, 1)) \o Inc(x, 1) \o Loop(y, Zero(y) \o Dec(x, 1))

XorCell(x, y, tmp) ==
  Loop(x, Zero(x) \o Dec(tmp, 1))
  \o Loop(y, Zero(y) \o Inc(tmp, 1))
  \o Loop(tmp, Inc(tmp, 1) \o Zero(tmp) \o Inc(x, 1))

XnorCell(x, y, tmp) == XorCell(x, y, tmp) \o NotCell(x, y)

Bool8(w) == BoolCell(w, w + 2)
Bool16(w) == OrCell(w, w + 1)
Not8(w) == NotCell(w, w + 2)
Not16(w) == Bool16(w) \o NotCell(w, w + 1)

LogicCell(op, x, y, tmp) ==
  CASE op = "land" -> AndCell(x, y, tmp)
    [] op = "lnand" -> NandCell(x, y, tmp)
    [] op = "lor" -> OrCell(x, y)
    [] op = "lnor" -> NorCell(x, y)
    [] op = "lxor" -> XorCell(x, y, tmp)
    [] op = "lxnor" -> XnorCell(x, y, tmp)

(* LOGIC_8_IMPL: the right operand is brought beside the left one. *)
Logic8(op, w, r) == MoveField(r, <<w + 1>>) \o LogicCell(op, w, w + 1, w + 2)

(* LOGIC_16_IMPL: both operands become truth values first. *)
Logic16(op, w, r) ==
  Bool16(w) \o Bool16(r) \o MoveToZero(r, <<w + 1>>) \o LogicCell(op, w, w + 1, w + 2)
=============================================================================
