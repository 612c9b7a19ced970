---------------------------- MODULE SlotDivision ----------------------------
(* Division and remainder on slots: assembler_divmod.cc.  A division may be    *)
(* asked for the remainder too (printing is), which goes to the slot mod;      *)
(* NoSlot where it is not wanted.                                              *)
EXTENDS SlotOperators

NoSlot == Slot(Here, U8)
Wanted(slot) == slot # NoSlot

(* A narrow right operand is widened, one that must survive is copied. *)
DivisorOf(rhs, consume, free) == IF Wide(rhs) /\ consume THEN rhs ELSE Slot(free, U16)
CopyDivisor(rhs, consume, free) ==
  IF Wide(rhs) /\ consume THEN Nothing ELSE AssignSlot(Slot(free, U16), rhs, consume)
AfterDivisor(rhs, consume, free) == IF Wide(rhs) /\ consume THEN free ELSE Next(free)

DivMod16Slots(lhs, rhs, consume, free) ==
  LET d == DivisorOf(rhs, consume, free)
  IN CopyDivisor(rhs, consume, free)
     \o PromiseClean(lhs.at) \o PromiseClean(d.at)
     \o DivMod16(lhs.at, d.at, AfterDivisor(rhs, consume, free))

DivSlotBySlotUnsigned(lhs, rhs, mod, consume, free) ==
  IF EitherWide(lhs, rhs)
    THEN DivMod16Slots(lhs, rhs, consume, free)
         \o IF Wanted(mod)
              THEN MoveField(lhs.at + 2, <<mod.at>>) \o MoveField(lhs.at + 3, <<mod.at + 1>>)
              ELSE Zero(lhs.at + 2) \o Zero(lhs.at + 3)
    ELSE PromiseClean(lhs.at) \o PromiseClean(rhs.at)
         \o DivMod8(lhs.at, rhs.at, consume)
         \o IF Wanted(mod) THEN MoveField(lhs.at + 1, <<mod.at>>) ELSE Zero(lhs.at + 1)

ModSlotBySlotUnsigned(lhs, rhs, consume, free) ==
  IF EitherWide(lhs, rhs)
    THEN DivMod16Slots(lhs, rhs, consume, free)
         \o MoveField(lhs.at + 2, <<lhs.at>>) \o MoveField(lhs.at + 3, <<lhs.at + 1>>)
    ELSE PromiseClean(lhs.at) \o PromiseClean(rhs.at)
         \o DivMod8(lhs.at, rhs.at, consume) \o MoveField(lhs.at + 1, <<lhs.at>>)

-----------------------------------------------------------------------------
(* Halving, with the parity as the remainder, and powers of two. *)
HalfSlot(slot, mod) ==
  LET parity == IF Wide(slot) THEN slot.at + 5 ELSE slot.at + 4
  IN PromiseClean(slot.at)
     \o IF Wanted(mod)
          THEN (IF Wide(slot) THEN Half16WithParity(slot.at) ELSE HalfWithParity8(slot.at))
               \o MoveField(parity, <<mod.at>>) \o Zero(mod.at + 1)
          ELSE IF Wide(slot) THEN Half16(slot.at) ELSE Half8(slot.at)

ParitySlot(slot) ==
  PromiseClean(slot.at)
  \o (IF Wide(slot)
        THEN Half16WithParity(slot.at) \o MoveField(slot.at + 5, <<slot.at>>)
        ELSE HalfWithParity8(slot.at) \o MoveField(slot.at + 4, <<slot.at>>))
  \o Zero(slot.at + 1)

DivSlotByPowerOfTwo(slot, p) ==
  PromiseClean(slot.at)
  \o IF Wide(slot) THEN DivByPowerOfTwo16(slot.at, p) ELSE DivByPowerOfTwo8(slot.at, p)

ModSlotByPowerOfTwo(slot, p, free) ==
  PromiseClean(slot.at)
  \o IF Wide(slot) THEN ModByPowerOfTwo16(slot.at, p, free) ELSE ModByPowerOfTwo8(slot.at, p)

-----------------------------------------------------------------------------
(* Constants *)
AllOnes == Byte * Byte - 1
SetMod(mod, value) == IF Wanted(mod) THEN SetSlotToValue(mod, value) ELSE Nothing
DenominatorType(denom) == IF denom > Byte - 1 THEN U16 ELSE U8

DivSlotByConstUnsigned(lhs, denom, mod, free) ==
  CASE denom = 0 -> SetMod(mod, 0) \o SetSlotToValue(lhs, AllOnes)
    [] denom = 1 -> SetMod(mod, 0)
    [] denom = 2 -> HalfSlot(lhs, mod)
    [] denom > 2 /\ ~Wanted(mod) /\ denom \in PowersOfTwo -> DivSlotByPowerOfTwo(lhs, Log2(denom))
    [] OTHER ->
         LET tmp == Slot(free, DenominatorType(denom))
         IN SetSlotToValue(tmp, denom) \o DivSlotBySlotUnsigned(lhs, tmp, mod, TRUE, Next(free))

ModSlotByConstUnsigned(lhs, denom, free) ==
  CASE denom \in {0, 1} -> SetSlotToValue(lhs, 0)
    [] denom = 2 -> ParitySlot(lhs)
    [] denom > 2 /\ denom \in PowersOfTwo -> ModSlotByPowerOfTwo(lhs, Log2(denom), free)
    [] OTHER ->
         LET tmp == Slot(free, DenominatorType(denom))
         IN SetSlotToValue(tmp, denom) \o ModSlotBySlotUnsigned(lhs, tmp, TRUE, Next(free))

(* The sign of the left operand goes into Value1 of a slot and from there, in  *)
(* as many copies as are needed, into its scratch cells.                       *)
SignCopies(lhs, free) ==
  PromiseClean(free)
  \o CopyField(SignByte(lhs), <<free + 1>>, free + 2)
  \o SignBitDestructive(free + 1)
  \o CopyToZero(free + 1, <<free + 2>>, free + 3)
  \o Loop(free + 1, Zero(free + 1) \o NegateSlot(lhs, Next(free)))

DivSlotByConstSigned(lhs, denom, free) ==
  CASE denom = 0 -> SetSlotToValue(lhs, AllOnes)
    [] denom = 1 -> Nothing
    [] denom = -1 -> NegateSlot(lhs, free)
    [] OTHER ->
         SignCopies(lhs, free)
         \o DivSlotByConstUnsigned(UnsignedView(lhs), Magnitude(denom), NoSlot, Next(free))
         \o (IF denom < 0 THEN NotCell(free + 2, free + 4) ELSE Nothing)
         \o Loop(free + 2, Zero(free + 2) \o NegateSlot(lhs, Next(free)))

ModSlotByConstSigned(lhs, denom, free) ==
  IF denom \in {0, 1, -1} THEN SetSlotToValue(lhs, 0)
  ELSE SignCopies(lhs, free)
       \o ModSlotByConstUnsigned(UnsignedView(lhs), Magnitude(denom), Next(free))
       \o Loop(free + 2, Zero(free + 2) \o NegateSlot(lhs, Next(free)))

-----------------------------------------------------------------------------
(* Signed operands: divide the magnitudes, then set the sign.  The first       *)
(* macrocell of the temporary holds the sign, the second a copy of the right   *)
(* operand, which is taken after the left one has become its magnitude.        *)
SignedCopy(rhs, consume, free) == IF consume THEN rhs ELSE Slot(Next(free), rhs.type)
AfterSigned(consume, free) == IF consume THEN Next(free) ELSE Next(Next(free))

LhsMagnitude(lhs, consume, free) ==
  SignIntoScratch(lhs) \o Zero(free)
  \o Loop(lhs.at + 2,
          Zero(lhs.at + 2) \o NegateSlot(lhs, AfterSigned(consume, free)) \o Inc(free, 1))

TakeRhs(rhs, consume, free) ==
  IF consume THEN Nothing ELSE AssignSlot(SignedCopy(rhs, consume, free), rhs, FALSE)

DivSlotBySlotSigned(lhs, rhs, consume, free) ==
  LET r == SignedCopy(rhs, consume, free)
      spare == AfterSigned(consume, free)
  IN LhsMagnitude(lhs, consume, free)
     \o TakeRhs(rhs, consume, free)
     \o SignIntoScratch(r)
     \o Loop(r.at + 2, Zero(r.at + 2) \o NegateSlot(r, spare) \o NotCell(free, free + 2))
     \o DivSlotBySlotUnsigned(UnsignedView(lhs), UnsignedView(r), NoSlot, TRUE, spare)
     \o Loop(free, Zero(free) \o NegateSlot(lhs, spare))

ModSlotBySlotSigned(lhs, rhs, consume, free) ==
  LET r == SignedCopy(rhs, consume, free)
      spare == AfterSigned(consume, free)
  IN LhsMagnitude(lhs, consume, free)
     \o TakeRhs(rhs, consume, free)
     \o AbsSlot(r, spare)
     \o ModSlotBySlotUnsigned(UnsignedView(lhs), UnsignedView(r), TRUE, spare)
     \o Loop(free, Dec(free, 1) \o NegateSlot(lhs, spare))

-----------------------------------------------------------------------------
DivSlotBySlot(lhs, rhs, consume, free) ==
  IF Signed(lhs) THEN DivSlotBySlotSigned(lhs, rhs, consume, free)
                 ELSE DivSlotBySlotUnsigned(lhs, rhs, NoSlot, consume, free)

ModSlotBySlot(lhs, rhs, consume, free) ==
  IF Signed(lhs) THEN ModSlotBySlotSigned(lhs, rhs, consume, free)
                 ELSE ModSlotBySlotUnsigned(lhs, rhs, consume, free)

DivSlotByConst(lhs, denom, free) ==
  IF Signed(lhs) THEN DivSlotByConstSigned(lhs, denom, free)
                 ELSE DivSlotByConstUnsigned(lhs, denom, NoSlot, free)

ModSlotByConst(lhs, denom, free) ==
  IF Signed(lhs) THEN ModSlotByConstSigned(lhs, denom, free)
                 ELSE ModSlotByConstUnsigned(lhs, denom, free)
=============================================================================
