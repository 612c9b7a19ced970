-------------------------- MODULE SlotComparisons --------------------------
(* The six comparisons, on cells and on slots: assembler_comparisons.cc/.tpp.  *)
(* An operator is "eq", "neq", "lt", "le", "gt" or "ge".                       *)
EXTENDS SlotDivision

EqCell(x, y) ==
  Loop(x, Dec(x, 1) \o Dec(y, 1)) \o Inc(x, 1) \o Loop(y, Zero(y) \o Dec(x, 1))

LessCell(x, y, tmp) ==
  Loop(x, Dec(x, 1) \o Loop(y, Dec(y, 1) \o MoveToZero(y, <<tmp>>)) \o MoveToZero(tmp, <<y>>))
  \o Loop(y, Zero(y) \o Inc(x, 1))

(* closestTo(x, {y, tmp}): the first of the two unless the second is nearer. *)
ClosestTo(x, y, tmp) == IF Magnitude(tmp - x) < Magnitude(y - x) THEN tmp ELSE y

GreaterCell(x, y, tmp) ==
  Loop(y, Dec(y, 1) \o MoveToZero(tmp, <<x>>) \o Loop(x, Dec(x, 1) \o MoveToZero(x, <<tmp>>)))
  \o Loop(tmp, Zero(tmp) \o Inc(x, 1))
  \o BoolCell(x, ClosestTo(x, y, tmp))

OrderCell(op, x, y, tmp) ==
  CASE op = "lt" -> LessCell(x, y, tmp)
    [] op = "gt" -> GreaterCell(x, y, tmp)
    [] op = "le" -> GreaterCell(x, y, tmp) \o NotCell(x, ClosestTo(x, y, tmp))
    [] op = "ge" -> LessCell(x, y, tmp) \o NotCell(x, ClosestTo(x, y, tmp))

Eq8(w, r) == MoveField(r, <<w + 1>>) \o EqCell(w, w + 1)
Order8(op, w, r) == MoveField(r, <<w + 1>>) \o OrderCell(op, w, w + 1, w + 2)

Eq16(w, r) ==
  MoveToZero(w + 1, <<w + 2>>) \o MoveToZero(r, <<w + 1>>) \o MoveToZero(r + 1, <<w + 3>>)
  \o EqCell(w, w + 1) \o EqCell(w + 2, w + 3) \o AndCell(w, w + 2, w + 3)

(* The high cells decide, or are equal and the low ones do. *)
StrictOrder16(op, w, r) ==
  MoveToZero(w, <<w + 3>>) \o MoveToZero(r, <<w + 4>>)
  \o MoveToZero(w + 1, <<w, w + 5>>) \o MoveToZero(r + 1, <<w + 1, w + 6>>)
  \o OrderCell(op, w, w + 1, w + 2) \o OrderCell(op, w + 3, w + 4, w + 2)
  \o EqCell(w + 5, w + 6) \o AndCell(w + 3, w + 5, w + 2) \o OrCell(w, w + 3)

Order16(op, w, r) ==
  CASE op \in {"lt", "gt"} -> StrictOrder16(op, w, r)
    [] op = "le" -> StrictOrder16("gt", w, r) \o NotCell(w, w + 1)
    [] op = "ge" -> StrictOrder16("lt", w, r) \o NotCell(w, w + 1)

-----------------------------------------------------------------------------
(* Equality *)
(* A constant with a zero byte is taken off the other byte alone. *)
MinusConst(lhs, val, free) ==
  LET encoded == val % (Byte * Byte)
      low == encoded % Byte
      high == encoded \div Byte
  IN CASE Wide(lhs) /\ low = 0 -> PromiseClean(lhs.at) \o AddConst(lhs.at + 1, -high)
       [] Wide(lhs) /\ low # 0 /\ high = 0 -> PromiseClean(lhs.at) \o AddConst(lhs.at, -low)
       [] OTHER -> IF val = 0 THEN Nothing ELSE SubConstFromSlot(lhs, val, free)

SlotEqualConst(lhs, val, free) == MinusConst(lhs, val, free) \o NotSlot(lhs)
SlotNotEqualConst(lhs, val, free) == MinusConst(lhs, val, free) \o BoolSlot(lhs)

SlotEqualSlot(lhs, rhs, consume, free) ==
  LET widen == Wide(lhs) /\ ~Wide(rhs)
      type == [rhs.type EXCEPT !.wide = widen \/ @]
      work == IF consume /\ ~widen THEN rhs ELSE Slot(free, type)
  IN IF lhs.at = rhs.at THEN SetSlotToValue(lhs, 1)
     ELSE (IF consume /\ ~widen THEN Nothing ELSE AssignSlot(work, rhs, consume))
          \o PromiseClean(lhs.at) \o PromiseClean(work.at)
          \o IF EitherWide(lhs, rhs) THEN Eq16(lhs.at, work.at) ELSE Eq8(lhs.at, work.at)

NegateVerdict(lhs) == NotCell(lhs.at, lhs.at + 2)

-----------------------------------------------------------------------------
(* Order of slots *)
OrderSlotUnsigned(op, lhs, rhs, consume, free) ==
  LET r == Operand(rhs, consume, free).at
  IN CopyOperand(rhs, consume, free)
     \o PromiseClean(lhs.at) \o PromiseClean(r)
     \o IF EitherWide(lhs, rhs) THEN Order16(op, lhs.at, r) ELSE Order8(op, lhs.at, r)

(* The order of two negative numbers is that of their magnitudes, mirrored. *)
Mirrored(op) ==
  CASE op = "lt" -> "gt" [] op = "gt" -> "lt" [] op = "le" -> "ge" [] op = "ge" -> "le"
NegativeIsIn(op) == IF op \in {"lt", "le"} THEN 1 ELSE 0

OrderSlotSigned(op, lhs, rhs, consume, free) ==
  LET inner == Next(free)
      spare == Next(inner)
      r == Operand(rhs, consume, spare)
      bothNegative ==
        NegateSlot(lhs, spare)
        \o CopyOperand(rhs, consume, spare)
        \o NegateSlot(r, Next(spare))
        \o OrderSlotUnsigned(Mirrored(op), UnsignedView(lhs), UnsignedView(r), TRUE, Next(spare))
  IN BranchOnSignBit(lhs, free,
       BranchOnSignBit(rhs, inner, bothNegative, SetSlotToValue(lhs, NegativeIsIn(op))),
       BranchOnSignBit(rhs, inner, SetSlotToValue(lhs, 1 - NegativeIsIn(op)),
         OrderSlotUnsigned(op, UnsignedView(lhs), UnsignedView(rhs), consume, spare)))

OrderSlot(op, lhs, rhs, consume, free) ==
  CASE lhs.at = rhs.at -> SetSlotToValue(lhs, IF op \in {"le", "ge"} THEN 1 ELSE 0)
    [] lhs.at # rhs.at /\ ~Signed(lhs) -> OrderSlotUnsigned(op, lhs, rhs, consume, free)
    [] OTHER -> OrderSlotSigned(op, lhs, rhs, consume, free)

-----------------------------------------------------------------------------
(* Order against a constant.  The constants at the ends of the range, and of   *)
(* a two-cell value those on a byte boundary or below Byte, need less.         *)
NarrowedToHigh(slot) == Slot(slot.at, [slot.type EXCEPT !.wide = FALSE])
HighToLow(slot) == MoveField(slot.at + 1, <<slot.at>>)

(* Compared as low bytes; any high byte makes the slot the larger one. *)
OrderLowByte(op, lhs, val) ==
  PromiseClean(lhs.at) \o AddConst(lhs.at + 2, val)
  \o OrderCell(op, lhs.at, lhs.at + 2, lhs.at + 3)
  \o Loop(lhs.at + 1, Zero(lhs.at + 1) \o SetToValue(lhs.at, 1 - NegativeIsIn(op)))

OrderValueSlot(op, lhs, val, free) ==
  LET valSlot == Slot(free, DenominatorType(val))
  IN SetSlotToValue(valSlot, val) \o OrderSlotUnsigned(op, lhs, valSlot, TRUE, Next(free))

GeneralConst(op, lhs, val, free) ==
  IF Wide(lhs) /\ val < Byte THEN OrderLowByte(op, lhs, val) ELSE OrderValueSlot(op, lhs, val, free)

(* lhs <= q * Byte: the high cell is below q, or is q and the low one is zero. *)
LessEqualBoundary(w, q) ==
  PromiseClean(w)
  \o CopyToZero(w + 1, <<w + 4>>, w + 3) \o NotCell(w, w + 3)
  \o AddConst(w + 2, q) \o LessCell(w + 1, w + 2, w + 3)
  \o AddConst(w + 4, -q) \o NotCell(w + 4, w + 3) \o AndCell(w, w + 4, w + 3)
  \o OrCell(w + 1, w) \o MoveToZero(w + 1, <<w>>)

(* A slot compared by its high byte alone: what is left of slot and constant.  *)
HighOnly(lhs, narrow) == IF narrow THEN NarrowedToHigh(lhs) ELSE lhs
HighToLowIf(lhs, narrow) == IF narrow THEN HighToLow(lhs) ELSE Nothing
Boundary(lhs, val, first, last, residue) ==
  Wide(lhs) /\ val \in first .. last /\ val % Byte = residue

NarrowLessConst(lhs, val, free) ==
  CASE val = 0 -> SetSlotToValue(lhs, 0)
    [] val > MaxOf(lhs.type) -> SetSlotToValue(lhs, 1)
    [] val = 1 -> NotSlot(lhs)
    [] 1 < val /\ val = MaxOf(lhs.type) -> SlotNotEqualConst(lhs, val, free)
    [] OTHER -> GeneralConst("lt", lhs, val, free)

LessConstUnsigned(lhs, val, free) ==
  LET narrow == Boundary(lhs, val, 2, MaxOf(lhs.type) - 1, 0)
  IN HighToLowIf(lhs, narrow)
     \o NarrowLessConst(HighOnly(lhs, narrow), IF narrow THEN val \div Byte ELSE val, free)

NarrowLessEqualConst(lhs, val, free) ==
  CASE val = 0 -> NotSlot(lhs)
    [] val >= MaxOf(lhs.type) -> SetSlotToValue(lhs, 1)
    [] Boundary(lhs, val, 1, MaxOf(lhs.type) - 1, 0) -> LessEqualBoundary(lhs.at, val \div Byte)
    [] OTHER -> GeneralConst("le", lhs, val, free)

LessEqualConstUnsigned(lhs, val, free) ==
  LET narrow == Boundary(lhs, val, 1, MaxOf(lhs.type) - 1, Byte - 1)
  IN HighToLowIf(lhs, narrow)
     \o NarrowLessEqualConst(HighOnly(lhs, narrow), IF narrow THEN val \div Byte ELSE val, free)

NarrowGreaterConst(lhs, val, free) ==
  CASE val = 0 -> BoolSlot(lhs)
    [] val >= MaxOf(lhs.type) -> SetSlotToValue(lhs, 0)
    [] val > 0 /\ val = MaxOf(lhs.type) - 1 -> SlotEqualConst(lhs, MaxOf(lhs.type), free)
    [] Boundary(lhs, val, 1, MaxOf(lhs.type) - 2, 0) ->
         LessEqualConstUnsigned(lhs, val, free) \o NotSlot(lhs)
    [] OTHER -> GeneralConst("gt", lhs, val, free)

GreaterConstUnsigned(lhs, val, free) ==
  LET narrow == Boundary(lhs, val, 1, MaxOf(lhs.type) - 2, Byte - 1)
  IN HighToLowIf(lhs, narrow)
     \o NarrowGreaterConst(HighOnly(lhs, narrow), IF narrow THEN val \div Byte ELSE val, free)

NarrowGreaterEqualConst(lhs, val, free) ==
  CASE val = 0 -> SetSlotToValue(lhs, 1)
    [] val > MaxOf(lhs.type) -> SetSlotToValue(lhs, 0)
    [] val = 1 -> BoolSlot(lhs)
    [] val > 1 /\ val = MaxOf(lhs.type) -> SlotEqualConst(lhs, val, free)
    [] OTHER -> GeneralConst("ge", lhs, val, free)

GreaterEqualConstUnsigned(lhs, val, free) ==
  LET narrow == Boundary(lhs, val, 2, MaxOf(lhs.type) - 1, 0)
  IN HighToLowIf(lhs, narrow)
     \o NarrowGreaterEqualConst(HighOnly(lhs, narrow), IF narrow THEN val \div Byte ELSE val, free)

(* Signed: a slot of the other sign is decided by its sign alone. *)
SignedHigh(val) ==
  LET high == (val % (Byte * Byte)) \div Byte
  IN IF high < Byte \div 2 THEN high ELSE high - Byte

NarrowLessConstSigned(lhs, val, free) ==
  CASE val = 0 -> SignBitSlot(lhs)
    [] val <= MinOf(lhs.type) -> SetSlotToValue(lhs, 0)
    [] val > MaxOf(lhs.type) -> SetSlotToValue(lhs, 1)
    [] val # 0 /\ val = MinOf(lhs.type) + 1 -> SlotEqualConst(lhs, MinOf(lhs.type), free)
    [] val # 0 /\ val = MaxOf(lhs.type) -> SlotNotEqualConst(lhs, val, free)
    [] val \in 1 .. MaxOf(lhs.type) - 1 ->
         BranchOnSignBit(lhs, free, SetSlotToValue(lhs, 1),
                         LessConstUnsigned(UnsignedView(lhs), val, Next(free)))
    [] OTHER ->
         BranchOnSignBit(lhs, free,
           NegateSlot(lhs, Next(free))
           \o GreaterConstUnsigned(UnsignedView(lhs), -val, Next(free)),
           SetSlotToValue(lhs, 0))

LessConstSigned(lhs, val, free) ==
  LET narrow == val # 0 /\ Boundary(lhs, val, MinOf(lhs.type) + 2, MaxOf(lhs.type) - 1, 0)
  IN HighToLowIf(lhs, narrow)
     \o NarrowLessConstSigned(HighOnly(lhs, narrow), IF narrow THEN SignedHigh(val) ELSE val, free)

NarrowLessEqualConstSigned(lhs, val, free) ==
  CASE val >= MaxOf(lhs.type) -> SetSlotToValue(lhs, 1)
    [] val < MinOf(lhs.type) -> SetSlotToValue(lhs, 0)
    [] val = MinOf(lhs.type) -> SlotEqualConst(lhs, val, free)
    [] val = -1 /\ val # MinOf(lhs.type) -> SignBitSlot(lhs)
    [] val \in 0 .. MaxOf(lhs.type) - 1 ->
         BranchOnSignBit(lhs, free, SetSlotToValue(lhs, 1),
                         LessEqualConstUnsigned(UnsignedView(lhs), val, Next(free)))
    [] OTHER ->
         BranchOnSignBit(lhs, free,
           NegateSlot(lhs, Next(free))
           \o GreaterEqualConstUnsigned(UnsignedView(lhs), -val, Next(free)),
           SetSlotToValue(lhs, 0))

LessEqualConstSigned(lhs, val, free) ==
  LET narrow == val # -1 /\ Boundary(lhs, val, MinOf(lhs.type) + 1, MaxOf(lhs.type) - 1, Byte - 1)
  IN HighToLowIf(lhs, narrow)
     \o NarrowLessEqualConstSigned(HighOnly(lhs, narrow), IF narrow THEN SignedHigh(val) ELSE val, free)

GreaterConstSigned(lhs, val, free) ==
  CASE val = MinOf(lhs.type) -> SlotNotEqualConst(lhs, val, free)
    [] val = MaxOf(lhs.type) - 1 -> SlotEqualConst(lhs, MaxOf(lhs.type), free)
    [] OTHER -> LessEqualConstSigned(lhs, val, free) \o NegateVerdict(lhs)

(* x >= c of a signed slot is x < c, negated. *)
OrderConst(op, lhs, val, free) ==
  CASE op \in {"lt", "ge"} /\ Signed(lhs) ->
         LessConstSigned(lhs, val, free) \o (IF op = "ge" THEN NegateVerdict(lhs) ELSE Nothing)
    [] op = "lt" /\ ~Signed(lhs) -> LessConstUnsigned(lhs, val, free)
    [] op = "ge" /\ ~Signed(lhs) -> GreaterEqualConstUnsigned(lhs, val, free)
    [] op = "le" -> IF Signed(lhs) THEN LessEqualConstSigned(lhs, val, free)
                                   ELSE LessEqualConstUnsigned(lhs, val, free)
    [] op = "gt" -> IF Signed(lhs) THEN GreaterConstSigned(lhs, val, free)
                                   ELSE GreaterConstUnsigned(lhs, val, free)
=============================================================================
