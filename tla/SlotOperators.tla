--------------------------- MODULE SlotOperators ---------------------------
(* The operators on slots: which kernel an operator takes for the types of its *)
(* operands, what it copies first and what it destroys.                        *)
(* assembler_add.cc, _sub.cc, _mul.cc, _divmod.cc, _logical.cc,                *)
(* _comparisons.cc, _unary.cc and assignSlot of _pointers_memory.cc.           *)
(*                                                                             *)
(* A slot is the cell its value starts at and its type.  A temporary is taken  *)
(* at "free", the first macrocell no live slot occupies, and given back when   *)
(* its operator is done: the next one finds its old values there.              *)
EXTENDS CellArithmetic

U8 == [wide |-> FALSE, signed |-> FALSE]
S8 == [wide |-> FALSE, signed |-> TRUE]
U16 == [wide |-> TRUE, signed |-> FALSE]
S16 == [wide |-> TRUE, signed |-> TRUE]
IntegerTypes == {U8, S8, U16, S16}

Slot(at, type) == [at |-> at, type |-> type]
UnsignedView(slot) == [slot EXCEPT !.type.signed = FALSE]
Wide(slot) == slot.type.wide
Signed(slot) == slot.type.signed
EitherWide(lhs, rhs) == Wide(lhs) \/ Wide(rhs)
Next(free) == free + FieldCount
SignByte(slot) == IF Wide(slot) THEN slot.at + 1 ELSE slot.at

Cardinal(type) == IF type.wide THEN Byte * Byte ELSE Byte
MaxOf(type) == IF type.signed THEN Cardinal(type) \div 2 - 1 ELSE Cardinal(type) - 1
MinOf(type) == IF type.signed THEN -(Cardinal(type) \div 2) ELSE 0
Magnitude(v) == IF v < 0 THEN -v ELSE v
PowersOfTwo == {2^k : k \in 0 .. 2 * Bits}
Log2(v) == CHOOSE k \in 0 .. 2 * Bits : 2^k = v

SetSlotToValue(slot, value) ==
  PromiseClean(slot.at)
  \o IF Wide(slot) THEN SetToValue16(slot.at, value)
                   ELSE SetToValue(slot.at, value) \o Zero(slot.at + 1)

(* Mutant of AssignBytewise: the other byte of a narrow value is not cleared. *)
AssignLowByte(dest, src, move) ==
  CopyOrMove(move, src.at, <<dest.at>>, src.at + 2)
  \o IF Wide(src) THEN CopyOrMove(move, src.at + 1, <<dest.at + 1>>, src.at + 2) ELSE Nothing

AssignBytewise(dest, src, move) ==
  CopyOrMove(move, src.at, <<dest.at>>, src.at + 2)
  \o IF Wide(src) THEN CopyOrMove(move, src.at + 1, <<dest.at + 1>>, src.at + 2)
                  ELSE Zero(dest.at + 1)

AssignSlot(dest, src, move) ==
  IF dest.at = src.at THEN Nothing
  ELSE IF Wide(dest) /\ ~Wide(src) /\ Signed(src)
    THEN CopyOrMove(move, src.at, <<dest.at, dest.at + 1>>, src.at + 2)
         \o PromiseClean(dest.at) \o SignExtend(dest.at, FALSE)
    ELSE AssignBytewise(dest, src, move)

(* Mutant of Operand: every right operand is worked on in place. *)
OperandInPlace(rhs, consume, free) == rhs

(* A right operand that must survive is worked on in a copy. *)
Operand(rhs, consume, free) == IF consume THEN rhs ELSE Slot(free, rhs.type)
CopyOperand(rhs, consume, free) ==
  IF consume THEN Nothing ELSE AssignSlot(Slot(free, rhs.type), rhs, FALSE)

-----------------------------------------------------------------------------
(* Unary operators *)
NotSlot(slot) == PromiseClean(slot.at) \o IF Wide(slot) THEN Not16(slot.at) ELSE Not8(slot.at)

BoolSlot(slot) ==
  IF Wide(slot) THEN PromiseClean(slot.at) \o Bool16(slot.at)
  ELSE Zero(slot.at + 1) \o Promise(<<slot.at + 1>>) \o BoolCell(slot.at, slot.at + 1)

NegateSlot(slot, free) ==
  AssignSlot(Slot(free, slot.type), slot, TRUE)
  \o PromiseClean(slot.at) \o PromiseClean(free) \o Promise(<<slot.at>>)
  \o IF Wide(slot) THEN Promise(<<slot.at + 1>>) \o Sub16Destructive(slot.at, free)
                   ELSE SubDestructive(slot.at, free)

(* The sign bit of a slot, in its Scratch0. *)
SignIntoScratch(slot) ==
  CopyToZero(SignByte(slot), <<slot.at + 2>>, slot.at + 3)
  \o Promise(<<slot.at + 3, slot.at + 4, slot.at + 5, slot.at + 6>>)
  \o SignBitDestructive(slot.at + 2)

AbsSlot(slot, free) ==
  IF ~Signed(slot) THEN Nothing
  ELSE SignIntoScratch(slot)
       \o Loop(slot.at + 2, Zero(slot.at + 2) \o NegateSlot(slot, free))

SignBitSlot(slot) ==
  (IF Wide(slot) THEN MoveField(slot.at + 1, <<slot.at>>) ELSE Zero(slot.at + 1))
  \o Promise([k \in 1 .. 5 |-> slot.at + k])
  \o SignBitDestructive(slot.at)

(* Both branches are in the text; a temporary holds the sign and its negation. *)
BranchOnSignBit(slot, free, negative, other) ==
  CopyField(SignByte(slot), <<free>>, slot.at + 2)
  \o SignBitSlot(Slot(free, S8)) \o SetToValue(free + 1, 1)
  \o Loop(free, Dec(free, 1) \o Dec(free + 1, 1) \o negative)
  \o Loop(free + 1, Dec(free + 1, 1) \o other)

-----------------------------------------------------------------------------
(* Addition and subtraction *)
AddSlotToSlot(lhs, rhs, consume, free) ==
  LET r == Operand(rhs, consume, free).at
  IN CopyOperand(rhs, consume, free)
     \o PromiseClean(lhs.at) \o PromiseClean(r)
     \o IF EitherWide(lhs, rhs) THEN Add16Destructive(lhs.at, r) ELSE AddDestructive(lhs.at, r)

SubSlotFromSlot(lhs, rhs, consume, free) ==
  LET r == Operand(rhs, consume, free).at
  IN CopyOperand(rhs, consume, free)
     \o PromiseClean(lhs.at) \o PromiseClean(r)
     \o IF EitherWide(lhs, rhs) THEN Sub16Destructive(lhs.at, r) ELSE SubDestructive(lhs.at, r)

AddConstToSlot(lhs, delta, free) ==
  PromiseClean(lhs.at)
  \o IF Wide(lhs) THEN Add16Const(lhs.at, delta, free) ELSE AddConst(lhs.at, delta)

SubConstFromSlot(lhs, delta, free) == AddConstToSlot(lhs, -delta, free)

-----------------------------------------------------------------------------
(* Multiplication *)
SquareSlot(slot) ==
  PromiseClean(slot.at) \o IF Wide(slot) THEN Square16(slot.at) ELSE Square8(slot.at)

MulSlotBySlotUnsigned(lhs, rhs, consume) ==
  LET consumed == IF consume THEN rhs ELSE lhs
      preserved == IF consume THEN lhs ELSE rhs
  IN IF lhs.at = rhs.at THEN SquareSlot(lhs)
     ELSE PromiseClean(lhs.at) \o PromiseClean(rhs.at)
          \o IF Wide(lhs)
               THEN MultiplyInto16(lhs.at, consumed.at, Wide(consumed),
                                   preserved.at, Wide(preserved), preserved.at + 2)
               ELSE MultiplyInto8(lhs.at, consumed.at, preserved.at, preserved.at + 2)

MulSlotBySlot(lhs, rhs, consume, free) ==
  IF lhs.type = S16 /\ ~Wide(rhs)
    THEN AssignSlot(Slot(free, S16), rhs, consume)
         \o MulSlotBySlotUnsigned(UnsignedView(lhs), Slot(free, U16), TRUE)
    ELSE MulSlotBySlotUnsigned(UnsignedView(lhs), UnsignedView(rhs), consume)

MulSlotByPowerOfTwo(slot, p) ==
  PromiseClean(slot.at)
  \o IF Wide(slot) THEN MulByPowerOfTwo16(slot.at, p) ELSE MulByPowerOfTwo8(slot.at, p)

TwiceSlot(slot) == PromiseClean(slot.at) \o IF Wide(slot) THEN Twice16(slot.at) ELSE Twice8(slot.at)

(* The factors with an algorithm of their own, then the general one. *)
MulSlotByPositive(lhs, factor, free) ==
  LET copy == Slot(free, lhs.type)
  IN CASE factor = 2 -> TwiceSlot(lhs)
       [] factor # 2 /\ factor \in PowersOfTwo -> MulSlotByPowerOfTwo(lhs, Log2(factor))
       [] factor > 3 /\ factor \notin PowersOfTwo /\ factor - 1 \in PowersOfTwo ->
            AssignSlot(copy, lhs, FALSE)
            \o MulSlotByPowerOfTwo(lhs, Log2(factor - 1))
            \o AddSlotToSlot(lhs, copy, TRUE, Next(free))
       [] factor \notin PowersOfTwo /\ factor + 1 \in PowersOfTwo ->
            AssignSlot(copy, lhs, FALSE)
            \o MulSlotByPowerOfTwo(lhs, Log2(factor + 1))
            \o SubSlotFromSlot(lhs, copy, TRUE, Next(free))
       [] OTHER ->
            SetSlotToValue(copy, factor) \o MulSlotBySlotUnsigned(lhs, copy, TRUE)

MulSlotByConst(lhs, constant, free) ==
  LET factor == Magnitude(constant)
      negate == IF constant < 0 THEN NegateSlot(lhs, free) ELSE Nothing
  IN CASE factor = 0 -> SetSlotToValue(lhs, 0)
       [] factor = 1 -> negate
       [] factor # 1 /\ ~Signed(lhs) /\ factor = MaxOf(lhs.type) -> NegateSlot(lhs, free)
       [] OTHER -> MulSlotByPositive(lhs, factor, free) \o negate

-----------------------------------------------------------------------------
(* Logic *)
LogicSlotWithSlot(op, lhs, rhs, consume, free) ==
  LET r == Operand(rhs, consume, free).at
  IN CopyOperand(rhs, consume, free)
     \o PromiseClean(lhs.at) \o PromiseClean(r)
     \o IF EitherWide(lhs, rhs) THEN Logic16(op, lhs.at, r) ELSE Logic8(op, lhs.at, r)

BoolKernel(slot) ==
  PromiseClean(slot.at) \o IF Wide(slot) THEN Bool16(slot.at) ELSE Bool8(slot.at)

(* A constant decides the result, or leaves the operand or its negation. *)
LogicSlotWithConst(op, lhs, val) ==
  CASE op = "land" ->
         IF val = 0 THEN Zero(lhs.at) \o Zero(lhs.at + 1) ELSE BoolKernel(lhs)
    [] op = "lnand" -> IF val = 0 THEN SetSlotToValue(lhs, 1) ELSE NotSlot(lhs)
    [] op = "lor" -> IF val # 0 THEN SetSlotToValue(lhs, 1) ELSE BoolSlot(lhs)
    [] op = "lnor" -> IF val # 0 THEN SetSlotToValue(lhs, 0) ELSE NotSlot(lhs)
    [] op = "lxor" -> IF val # 0 THEN NotSlot(lhs) ELSE BoolKernel(lhs)
    [] op = "lxnor" -> IF val = 0 THEN NotSlot(lhs) ELSE BoolKernel(lhs)
=============================================================================
