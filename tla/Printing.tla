------------------------------ MODULE Printing ------------------------------
(* print and write: assembler_print.cc.  The digits of a number are found by   *)
(* division, lie on the tape with the ones first, and are printed by walking   *)
(* from the last nonzero one back to a mark at the first.                      *)
(*                                                                             *)
(* The code's numbers are 10, '0', '-', and as many digits as the largest      *)
(* value of one or two cells has.                                              *)
EXTENDS SlotDivision, FarMemory

CONSTANTS Base, ZeroChar, MinusChar

MaxDigits(wide) ==
  LET largest == IF wide THEN Byte * Byte - 1 ELSE Byte - 1
  IN CHOOSE n \in 1 .. 2 * Bits : Base^n > largest /\ (n = 1 \/ Base^(n - 1) <= largest)

Out(c) == Instruction("out", c, 0, <<>>)

(* A digit goes out with the character of zero added; the one of the next      *)
(* macrocell to the left is handed that character.                             *)
PrintOtherDigits(m) ==
  LET digit == m + Value0
      zero == m + Payload0
      next == m - FieldCount + Payload0
  IN NotMarkerToFlag(m, SeekMarker)
     \o Loop(m + Flag,
          Dec(m + Flag, 1)
          \o Loop(zero, Dec(zero, 1) \o Inc(digit, 1) \o Inc(next, 1))
          \o Out(digit)
          \o MovePointerRelative(-FieldCount)
          \o NotMarkerToFlag(m, SeekMarker))

(* slot is consumed; the digits are the macrocells from free. *)
PrintConsumed(slot, free) ==
  LET n == MaxDigits(Wide(slot))
      digits == Macrocell(free)
      last == digits + (n - 1) * FieldCount
      Digit(k) == DivSlotByConstUnsigned(slot, Base, Slot(UnitAt(free, k), U8), UnitAt(free, n + 1))
  IN ForEach(n, Digit)
     \o PromiseClean(free) \o AddConst(free, ZeroChar) \o SetSeekMarker(digits)
     \o SeekNonzero(last, Value0, FALSE, NoPayload, TRUE)
     \o AddConst(last + Payload0, ZeroChar)
     \o PrintOtherDigits(last)
     \o Zero(last + Payload0)
     \o Out(last + Value0)
     \o ResetSeekMarker(last)
     \o Believe(last, digits)

PrintDecimalSlotUnsigned(slot, free) ==
  AssignSlot(Slot(free, slot.type), slot, FALSE) \o PrintConsumed(Slot(free, slot.type), Next(free))

(* Mutant of PrintDecimalSlotSigned: the sign it has printed stays in the cell. *)
PrintSignUncleared(slot, free) ==
  LET val == Slot(free, slot.type)
      minus == free + 2
  IN AssignSlot(val, slot, FALSE)
     \o SignIntoScratch(val)
     \o Loop(minus, Zero(minus) \o NegateSlot(val, Next(free))
                    \o SetToValue(minus, MinusChar) \o Out(minus))
     \o PrintConsumed(UnsignedView(val), Next(free))

PrintDecimalSlotSigned(slot, free) ==
  LET val == Slot(free, slot.type)
      minus == free + 2
  IN AssignSlot(val, slot, FALSE)
     \o SignIntoScratch(val)
     \o Loop(minus, Zero(minus) \o NegateSlot(val, Next(free))
                    \o SetToValue(minus, MinusChar) \o Out(minus) \o Zero(minus))
     \o PrintConsumed(UnsignedView(val), Next(free))

PrintDecimalSlot(slot, free) ==
  IF Signed(slot) THEN PrintDecimalSlotSigned(slot, free) ELSE PrintDecimalSlotUnsigned(slot, free)

-----------------------------------------------------------------------------
(* A string is printed up to its zero, and the way back is found by a mark. *)
FlagIfNonzero(w) ==
  PromiseClean(w) \o Inc(w + 6, 1) \o LiteralBf(w, "[>>+>]>>>[<<<]<<<") \o Dec(w + 6, 1)

PrintStringSlot(at) ==
  LET m == Macrocell(at)
  IN SetSeekMarker(m)
     \o FlagIfNonzero(at)
     \o Loop(at + 2, Dec(at + 2, 1) \o Out(at) \o MovePointerRelative(FieldCount) \o FlagIfNonzero(at))
     \o Seek(m, SeekMarker, FALSE, NoPayload, TRUE)
     \o ResetSeekMarker(m)

(* A literal's characters are made from each other by their differences. *)
PrintStringConst(text, free) ==
  LET Char(k) == IF k = 1 THEN SetSlotToValue(Slot(free, U8), text[1]) \o Out(free)
                          ELSE AddConst(free, text[k] - text[k - 1]) \o Out(free)
  IN IF text = <<>> THEN Nothing ELSE ForEach(Len(text), Char) \o Zero(free)

WriteSlot(at, obj) ==
  LET Unit(k) == Out(UnitAt(at, k)) \o IF obj.wide THEN Out(UnitAt(at, k) + 1) ELSE Nothing
  IN ForEach(obj.size, Unit)
=============================================================================
