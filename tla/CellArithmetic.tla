--------------------------- MODULE CellArithmetic ---------------------------
(* Multiplication, doubling, halving, division and remainder on the cells of a *)
(* workspace: assembler_mul.cc/.tpp and assembler_divmod.tpp.  8 in a name     *)
(* stands for one cell, 16 for two.                                            *)
EXTENDS CellCode, SequencesExt

-----------------------------------------------------------------------------
(* Doubling and multiplication *)
Twice(x, tmp) == Loop(x, Dec(x, 1) \o Inc(tmp, 2)) \o MoveToZero(tmp, <<x>>)

Twice8(w) == Twice(w, w + 2)

(* The high cell is doubled first, then takes the carries of the low one. *)
Twice16(w) ==
  Twice(w + 1, w + 2)
  \o Inc(w + 4, 1)
  \o Loop(w, Dec(w, 1) \o Inc(w + 1, 2) \o LiteralBf(w + 2, "+[<->>]>[<]<+[<->>]>[<]<"))
  \o Dec(w + 4, 1) \o MoveToZero(w + 2, <<w>>)

MulByPowerOfTwo8(w, p) ==
  IF p >= Bits THEN Zero(w)
  ELSE SetToValue(w + 1, p) \o Loop(w + 1, Dec(w + 1, 1) \o Twice(w, w + 2))

MulByPowerOfTwo16(w, p) ==
  IF p >= 2 * Bits THEN Zero(w) \o Zero(w + 1)
  ELSE SetToValue(w + 5, p) \o Loop(w + 5, Dec(w + 5, 1) \o Twice16(w))

(* result is the consumed operand or the preserved one; work is five clean     *)
(* cells of the operand that is preserved (of the left one when it is not).    *)
MultiplyInto8(result, consumed, preserved, work) ==
  Loop(consumed,
       Dec(consumed, 1) \o MoveToZero(preserved, <<work, work + 1>>)
                        \o MoveToZero(work, <<preserved>>))
  \o (IF result = consumed THEN MoveToZero(work + 1, <<result>>)
                           ELSE MoveField(work + 1, <<result>>))

MultiplyInto16(result, consumed, wideConsumed, preserved, widePreserved, work) ==
  LET tmp == work + 3
      AddByteToHigh(value) ==
        MoveToZero(value, <<tmp, work + 1>>) \o MoveToZero(tmp, <<value>>)
      AddLowToProduct ==
        Promise(<<work + 2, work + 4>>)
        \o Loop(preserved, Dec(preserved, 1) \o Inc(tmp, 1) \o Inc16(work))
        \o MoveToZero(tmp, <<preserved>>)
      Deliver(product, cell, of) ==
        IF cell = of THEN MoveToZero(product, <<cell>>) ELSE MoveField(product, <<cell>>)
  IN Loop(consumed,
          Dec(consumed, 1)
          \o (IF widePreserved THEN AddByteToHigh(preserved + 1) ELSE Nothing)
          \o AddLowToProduct)
     \o (IF wideConsumed
           THEN Loop(consumed + 1, Dec(consumed + 1, 1) \o AddByteToHigh(preserved))
           ELSE Nothing)
     \o Deliver(work, result, consumed)
     \o (IF wideConsumed THEN Deliver(work + 1, result + 1, consumed + 1)
                         ELSE MoveField(work + 1, <<result + 1>>))

(* n^2 is the sum of the first n odd numbers. *)
Square8(w) ==
  LET copy == w + 2  term == w + 3  termCopy == w + 4
  IN MoveToZero(w, <<copy>>)
     \o Loop(copy, Dec(copy, 1) \o Inc(term, 1) \o MoveToZero(term, <<w, termCopy>>)
                   \o MoveToZero(termCopy, <<term>>) \o Inc(term, 1))
     \o Zero(term)

(* low^2 by repeated addition, twice low * high into the high cell. *)
Square16(w) ==
  LET high == w + 1  highCopy == w + 2  restore == w + 3  addend == w + 4  count == w + 5
  IN MoveToZero(high, <<highCopy>>)
     \o Loop(w, Dec(w, 1)
                \o Loop(highCopy, Dec(highCopy, 1) \o Inc(high, 2) \o Inc(restore, 1))
                \o MoveToZero(restore, <<highCopy>>) \o Inc(addend, 1) \o Inc(count, 1))
     \o Zero(highCopy)
     \o Loop(count, Dec(count, 1)
                    \o Loop(addend, Inc(restore, 1) \o Inc(high, 1) \o Inc(w, 1)
                                    \o LiteralBf(w, "[>->]>>[<]>><<<<") \o Dec(addend, 1))
                    \o MoveToZero(restore, <<addend>>))
     \o Zero(addend)

-----------------------------------------------------------------------------
(* Halving.  remaining is the cell beside x, or the one after the gap that a   *)
(* two-cell value leaves; the sync cell stops the pointer's way back.          *)
HalveInto(x, remaining, text) ==
  Inc(remaining + 2, 1) \o Loop(remaining, LiteralBf(remaining, text)) \o Dec(remaining + 2, 1)

Half8(w) == MoveField(w, <<w + 1>>) \o HalveInto(w, w + 1, "-[<+>->]>[<]<")
HalfGapped(w) == MoveToZero(w, <<w + 2>>) \o HalveInto(w, w + 2, "-[<<+>>->]>[<]<")

HalveWithParity(remaining, text) ==
  Inc(remaining + 2, 1)
  \o Loop(remaining, Inc(remaining + 3, 1) \o LiteralBf(remaining, text))
  \o Dec(remaining + 2, 1)

(* The parity is left in cell 4, or 5 where there is a gap. *)
HalfWithParity8(w) == MoveField(w, <<w + 1>>) \o HalveWithParity(w + 1, "-[<+>->>>-<<]>[<]<")
HalfWithParityGapped(w) == MoveToZero(w, <<w + 2>>) \o HalveWithParity(w + 2, "-[<<+>>->>>-<<]>[<]<")

AddHalfByte(w, parity) == Loop(parity, Dec(parity, 1) \o AddConst(w, Byte \div 2))

Half16(w) == HalfWithParity8(w + 1) \o HalfGapped(w) \o AddHalfByte(w, w + 5)

Half16WithParity(w) ==
  HalfWithParity8(w + 1) \o MoveToZero(w + 5, <<w + 6>>)
  \o HalfWithParityGapped(w) \o AddHalfByte(w, w + 6)

DivByPowerOfTwo8(w, p) ==
  IF p >= Bits THEN Zero(w)
  ELSE SetToValue(w + 5, p) \o Loop(w + 5, Dec(w + 5, 1) \o Half8(w))

DivByPowerOfTwo16(w, p) ==
  IF p >= 2 * Bits THEN Zero(w) \o Zero(w + 1)
  ELSE SetToValue(w + 6, p) \o Loop(w + 6, Dec(w + 6, 1) \o Half16(w))

(* The remainder is put together from the parities of p halvings. *)
ModByPowerOfTwo8(w, p) ==
  IF p >= Bits THEN Nothing
  ELSE FlattenSeq([i \in 1 .. p |->
         HalfWithParity8(w) \o Loop(w + 4, Dec(w + 4, 1) \o AddConst(w + 6, 2^(i - 1)))])
       \o MoveField(w + 6, <<w>>)

ModByPowerOfTwo16(w, p, remainder) ==
  IF p >= 2 * Bits THEN Nothing
  ELSE SetToValue16(remainder, 0)
       \o FlattenSeq([i \in 1 .. p |->
            Half16WithParity(w)
            \o Loop(w + 5, Dec(w + 5, 1)
                    \o (IF i <= Bits THEN AddConst(remainder, 2^(i - 1))
                                     ELSE AddConst(remainder + 1, 2^(i - 1 - Bits))))])
       \o MoveField(remainder, <<w>>)
       \o (IF p >= Bits THEN MoveToZero(remainder + 1, <<w + 1>>)
                        ELSE MoveField(remainder + 1, <<w + 1>>))

-----------------------------------------------------------------------------
(* Division: quotient and remainder are left in cells 0 and 1 of one cell, in  *)
(* 0, 1 and 2, 3 of two.                                                       *)
DivModPrepared(w) ==
  LET d == w + 1  r == w + 2  q == w + 3
  IN Loop(w, Inc(r, 1) \o Dec(d, 1) \o LiteralBf(d, "[>>>]>[[<+>-]>+>>]<<<<") \o Dec(w, 1))
     \o MoveToZero(q, <<w>>) \o MoveField(r, <<d>>)

DivMod8(w, denom, move) ==
  LET dTest == w + 2  zeroFlag == w + 6
  IN CopyOrMove(move, denom, <<w + 1>>, w + 2)
     \o CopyToZero(w + 1, <<dTest>>, w + 3)
     \o Inc(zeroFlag, 1)
     \o Loop(dTest, Zero(dTest) \o Dec(zeroFlag, 1)
                    \o Promise(<<w + 2, w + 3, w + 4, w + 5, w + 6>>) \o DivModPrepared(w))
     \o Loop(zeroFlag, Dec(zeroFlag, 1) \o Zero(w) \o Dec(w, 1) \o Zero(w + 1))

(* low:high:guard minus one, borrowing through high into the guard. *)
Dec17(low) ==
  LET high == low + 1  guard == low + 2  highBorrow == low + 5  lowBorrow == low + 6
  IN Promise(<<low + 3, highBorrow, lowBorrow>>)
     \o Inc(highBorrow, 1) \o Inc(lowBorrow, 1) \o Dec(guard, 1)
     \o LiteralBf(high, "[>+>]>>[-<<]<<-")
     \o LiteralBf(low, "[>+>>>>[-<<<+>>>]<<]>>>[-<<<]<<<-")
     \o Zero(highBorrow) \o Zero(lowBorrow)

(* One digit of the quotient: subtract until the 17th bit borrows, add back. *)
DivMod16Digit(num, den) ==
  LET guard == num + 2  qInitial == num + 4  qFinal == num + 5
      lowCopy == den + 2  highCopy == den + 3  copyTemp == den + 4
  IN CopyToZero(den, <<lowCopy>>, highCopy)
     \o CopyToZero(den + 1, <<highCopy>>, copyTemp)
     \o Dec(qInitial, 1) \o Inc(guard, 1)
     \o Loop(guard,
          Loop(den, Dec(den, 1) \o Dec17(num))
          \o Loop(den + 1, Dec(den + 1, 1)
                           \o Promise(<<num + 3, num + 5, num + 6>>) \o Dec16(num + 1))
          \o CopyToZero(lowCopy, <<den>>, copyTemp)
          \o CopyToZero(highCopy, <<den + 1>>, copyTemp)
          \o Inc(qInitial, 1))
     \o Zero(lowCopy) \o Zero(highCopy)
     \o MoveToZero(qInitial, <<qFinal>>)
     \o Promise(<<num + 2, num + 3, num + 4>>)
     \o Add16Destructive(num, den)

(* A denominator of two cells leaves one digit; one of one cell, two digits,   *)
(* found in the temporary t; and zero leaves all ones and the numerator's      *)
(* remainder cells as they are.                                                *)
DivMod16(num, den, t) ==
  LET elseFlag == t + 2
  IN PromiseClean(t)
     \o CopyField(den, <<t>>, den + 2) \o CopyField(den + 1, <<t + 1>>, den + 2)
     \o Inc(elseFlag, 1)
     \o Loop(t + 1,
          Zero(t + 1) \o Dec(elseFlag, 1)
          \o DivMod16Digit(num, den)
          \o MoveToZero(num, <<num + 2>>) \o MoveToZero(num + 1, <<num + 3>>)
          \o MoveToZero(num + 5, <<num>>))
     \o Loop(elseFlag,
          Loop(t,
            Zero(t) \o Zero(elseFlag)
            \o MoveToZero(num + 1, <<t>>)
            \o PromiseClean(t) \o DivMod8(t, den, FALSE)
            \o MoveToZero(t, <<num + 1>>)
            \o MoveToZero(num, <<t>>)
            \o PromiseClean(t) \o PromiseClean(den) \o DivMod16Digit(t, den)
            \o MoveToZero(t, <<num + 2>>) \o MoveToZero(t + 1, <<num + 3>>)
            \o MoveToZero(t + 5, <<num>>))
          \o Loop(elseFlag,
               Zero(elseFlag) \o Zero(num) \o Dec(num, 1) \o Zero(num + 1) \o Dec(num + 1, 1)))
=============================================================================
