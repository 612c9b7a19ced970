---------------------------- MODULE Expressions ----------------------------
(* What an operator of the API emits for its operands: the type of the result, *)
(* folding, the operand swap, the copy of the left operand, the kernel, and    *)
(* the type the result is given.  type_rules.cc, assembler_binop_general.cc,   *)
(* assembler_unary.cc, the operator tables of assembler.h, and util.h.         *)
(*                                                                             *)
(* An operand is a variable, a temporary (which is consumed) or a literal;     *)
(* "same" is the right operand of x += x.                                      *)
EXTENDS SlotComparisons

Arithmetic == {"add", "sub", "mul", "div", "mod"}
Logical == {"land", "lnand", "lor", "lnor", "lxor", "lxnor"}
Comparison == {"eq", "neq", "lt", "le", "gt", "ge"}
BinaryOps == Arithmetic \cup Logical \cup Comparison
UnaryOps == {"lnot", "lbool", "signBit", "negate", "abs"}

-----------------------------------------------------------------------------
(* Types *)
PromotedInteger(a, b) ==
  IF a = b THEN a ELSE IF a.signed = b.signed THEN [U16 EXCEPT !.signed = a.signed] ELSE S16

(* The type the operator works in, and the type its result has. *)
WorkType(a, b) == PromotedInteger(a, b)
ResultType(op, a, b) == IF op \in Arithmetic THEN PromotedInteger(a, b) ELSE U8

Assignable(dest, src) == \/ dest = src
                         \/ dest.signed = src.signed /\ (src.wide => dest.wide)

(* The kernels assert it of the operators that tell signs apart. *)
KernelTakes(op, lhs, rhs) ==
  \/ lhs.signed = rhs.signed
  \/ op \notin {"div", "mod", "lt", "le", "gt", "ge"} /\ ~(op = "mul" /\ lhs = S16 /\ ~rhs.wide)

Wrap(v, type) ==
  LET u == v % Cardinal(type) IN IF u > MaxOf(type) THEN u - Cardinal(type) ELSE u
Encoded(v, type) == v % Cardinal(type)
Truth(p) == IF p THEN 1 ELSE 0

(* C++ division truncates towards zero. *)
Quotient(x, y) ==
  LET q == Magnitude(x) \div Magnitude(y) IN IF (x < 0) = (y < 0) THEN q ELSE -q
Remainder(x, y) == x - y * Quotient(x, y)

-----------------------------------------------------------------------------
(* Folding, on the values of two literals (of one: on its encoding). *)
Fold(op, x, y) ==
  CASE op = "add" -> x + y
    [] op = "sub" -> x - y
    [] op = "mul" -> x * y
    [] op = "div" -> IF y # 0 THEN Quotient(x, y) ELSE IF x = 0 THEN 0 ELSE -1
    [] op = "mod" -> IF y # 0 THEN Remainder(x, y) ELSE 0
    [] op = "land" -> Truth(x # 0 /\ y # 0)
    [] op = "lnand" -> Truth(~(x # 0 /\ y # 0))
    [] op = "lor" -> Truth(x # 0 \/ y # 0)
    [] op = "lnor" -> Truth(~(x # 0 \/ y # 0))
    [] op \in {"lxor", "neq"} -> Truth(x # y)
    [] op \in {"lxnor", "eq"} -> Truth(x = y)
    [] op = "lt" -> Truth(x < y)
    [] op = "le" -> Truth(x <= y)
    [] op = "gt" -> Truth(x > y)
    [] op = "ge" -> Truth(x >= y)

FoldUnary(op, encoded) ==
  CASE op = "lnot" -> Truth(encoded = 0)
    [] op = "lbool" -> Truth(encoded # 0)
    [] op = "signBit" -> Truth(encoded < 0)
    [] op = "negate" -> -encoded
    [] op = "abs" -> Magnitude(encoded)

-----------------------------------------------------------------------------
(* Kernels by operator: applyWithSlot and applyWithConst. *)
ApplyWithSlot(op, lhs, rhs, consume, free) ==
  CASE op = "add" -> AddSlotToSlot(lhs, rhs, consume, free)
    [] op = "sub" -> SubSlotFromSlot(lhs, rhs, consume, free)
    [] op = "mul" -> MulSlotBySlot(lhs, rhs, consume, free)
    [] op = "div" -> DivSlotBySlot(lhs, rhs, consume, free)
    [] op = "mod" -> ModSlotBySlot(lhs, rhs, consume, free)
    [] op \in Logical -> LogicSlotWithSlot(op, lhs, rhs, consume, free)
    [] op = "eq" -> SlotEqualSlot(lhs, rhs, consume, free)
    [] op = "neq" -> SlotEqualSlot(lhs, rhs, consume, free) \o NegateVerdict(lhs)
    [] op \in {"lt", "le", "gt", "ge"} -> OrderSlot(op, lhs, rhs, consume, free)

ApplyWithConst(op, lhs, val, free) ==
  CASE op = "add" -> AddConstToSlot(lhs, val, free)
    [] op = "sub" -> SubConstFromSlot(lhs, val, free)
    [] op = "mul" -> MulSlotByConst(lhs, val, free)
    [] op = "div" -> DivSlotByConst(lhs, val, free)
    [] op = "mod" -> ModSlotByConst(lhs, val, free)
    [] op \in Logical -> LogicSlotWithConst(op, lhs, val)
    [] op = "eq" -> SlotEqualConst(lhs, val, free)
    [] op = "neq" -> SlotNotEqualConst(lhs, val, free)
    [] op \in {"lt", "le", "gt", "ge"} -> OrderConst(op, lhs, val, free)

(* A literal on the left is taken on the right of the mirrored operator; a     *)
(* difference is negated.                                                      *)
Swappable == BinaryOps \ {"div", "mod"}
AfterSwap(op) == IF op \in {"lt", "le", "gt", "ge"} THEN Mirrored(op) ELSE op

ApplyUnary(op, slot, free) ==
  CASE op = "lnot" -> NotSlot(slot)
    [] op = "lbool" -> BoolSlot(slot)
    [] op = "signBit" -> SignBitSlot(slot)
    [] op = "negate" -> NegateSlot(slot, free)
    [] op = "abs" -> AbsSlot(slot, free)

-----------------------------------------------------------------------------
(* Operands and their expressions *)
Consumed(operand) == operand.kind = "temp"

AssignTo(dest, operand) ==
  IF operand.kind = "literal" THEN SetSlotToValue(dest, Encoded(operand.val, operand.slot.type))
  ELSE AssignSlot(dest, operand.slot, Consumed(operand))

BinOpAssign(op, dest, rhs, free) ==
  IF rhs.kind = "literal" THEN ApplyWithConst(op, dest, rhs.val, free)
  ELSE ApplyWithSlot(op, dest, rhs.slot, Consumed(rhs) /\ rhs.slot.at # dest.at, free)

(* A temporary of the work type takes the result itself. *)
Swapped(op, l, r) == l.kind = "literal" /\ r.kind # "literal" /\ op \in Swappable
Target(l, r, free) ==
  LET work == WorkType(l.slot.type, r.slot.type)
  IN IF Consumed(l) /\ l.slot.type = work THEN l.slot ELSE Slot(free, work)

BinOp(op, l, r, free) ==
  LET first == IF Swapped(op, l, r) THEN r ELSE l
      second == IF Swapped(op, l, r) THEN l ELSE r
      target == Target(first, second, free)
      after == IF target.at = free THEN Next(free) ELSE free
      swapped == Swapped(op, l, r)
  IN (IF target = first.slot THEN Nothing ELSE AssignTo(target, first))
     \o BinOpAssign(IF swapped THEN AfterSwap(op) ELSE op, target, second, after)
     \o (IF swapped /\ op = "sub" THEN NegateSlot(target, after) ELSE Nothing)

UnOp(op, operand, free) ==
  IF Consumed(operand) THEN ApplyUnary(op, operand.slot, free)
  ELSE AssignSlot(Slot(free, operand.slot.type), operand.slot, FALSE)
       \o ApplyUnary(op, Slot(free, operand.slot.type), Next(free))

(* A cast fills a temporary: widened by sign or by zero, or cut off. *)
CastTo(operand, type, free) ==
  LET src == operand.slot
      dest == Slot(free, type)
  IN CASE src.type = type -> AssignSlot(dest, src, FALSE)
       [] src.type # type /\ Wide(src) /\ Wide(dest) ->
            CopyField(src.at, <<free>>, src.at + 2) \o CopyField(src.at + 1, <<free + 1>>, src.at + 2)
       [] src.type = S8 /\ Wide(dest) ->
            CopyField(src.at, <<free, free + 1>>, src.at + 2)
            \o PromiseClean(free) \o SignExtend(free, FALSE)
       [] OTHER -> CopyField(src.at, <<free>>, src.at + 2) \o Zero(free + 1)

(* A pointer steps by whole elements: its offset, the second macrocell, takes  *)
(* the operand times the stride.                                               *)
StepByConst(op, target, delta, free) ==
  AddConstToSlot(target, IF op = "add" THEN delta ELSE -delta, free)
StepBySlot(op, target, rhs, consume, free) ==
  IF op = "add" THEN AddSlotToSlot(target, rhs, consume, free)
                ELSE SubSlotFromSlot(target, rhs, consume, free)

OffsetOf(pointer) == Slot(pointer.at + FieldCount, U16)

BinOpAssignPointer(op, pointer, stride, rhs, free) ==
  LET target == OffsetOf(pointer)
      operand == Operand(rhs.slot, Consumed(rhs), free)
      after == IF Consumed(rhs) THEN free ELSE Next(free)
  IN CASE rhs.kind = "literal" -> StepByConst(op, target, rhs.val * stride, free)
       [] rhs.kind # "literal" /\ stride = 1 ->
            StepBySlot(op, target, rhs.slot, Consumed(rhs), free)
       [] OTHER ->
            CopyOperand(rhs.slot, Consumed(rhs), free)
            \o MulSlotByConst(operand, stride, after)
            \o StepBySlot(op, target, operand, TRUE, after)
=============================================================================
