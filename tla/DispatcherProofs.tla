-------------------------- MODULE DispatcherProofs --------------------------
(***************************************************************************)
(* The switch runs the block whose index it is given: an inductive         *)
(* invariant of its nested loops, on the numbering of DispatchProofs.      *)
(***************************************************************************)
EXTENDS Dispatcher, DispatchProofs

----------------------------------------------------------------------------
(* The phases of a round.  On the way in, the value cells count down to the *)
(* wanted row and case; on the way out, they and the flags are 0, so that  *)
(* no loop is entered again and the outcome stands.                        *)

\* The row of the index, counted from 0.
Wanted == index.high - 1
Untouched == target = index /\ ran = <<>>

Outcome ==
  IF Selected(n, index) = NoBlock THEN target.high = 0 /\ ran = <<>>
  ELSE target = index /\ ran = <<Selected(n, index)>>

SeeksRow ==
  /\ level = "outer" /\ at.test = "value" /\ flag = 1
  /\ at.case <= Wanted /\ scratch1 = Wanted - at.case
  /\ scratch0 = index.low /\ Untouched

RowFound ==
  /\ level = "outer" /\ at = Flag(Wanted) /\ flag = 1 /\ scratch1 = 0
  /\ scratch0 = index.low /\ Untouched

SeeksCase ==
  /\ level = "inner" /\ at.test = "value" /\ row = Wanted /\ flag = 0 /\ scratch1 = 1
  /\ at.case <= index.low /\ scratch0 = index.low - at.case /\ Untouched

CaseFound ==
  /\ level = "inner" /\ at = Flag(index.low) /\ row = Wanted /\ flag = 0 /\ scratch1 = 1
  /\ scratch0 = 0 /\ Untouched

LeavesInner ==
  /\ level = "inner" /\ at.test \in {"value", "flag"} /\ row = Wanted /\ flag = 0 /\ scratch1 = 0
  /\ scratch0 = 0 /\ Outcome

LeavesOuter ==
  /\ level = "outer" /\ flag = 0 /\ scratch1 = 0 /\ Outcome

Phase == SeeksRow \/ RowFound \/ SeeksCase \/ CaseFound \/ LeavesInner \/ LeavesOuter

Constants ==
  /\ n \in 1 .. MaxBlocks
  /\ index \in [high : 1 .. (Byte - 1), low : 0 .. (Byte - 1)]

Places ==
  /\ level \in {"outer", "inner"}
  /\ at \in [test : {"value", "flag", "none"}, case : Nat]

IInv == Constants /\ Places /\ TypeOK /\ Phase

\* Dec and Inc where the switch uses them.
LEMMA Bytes ==
  /\ \A c \in 1 .. (Byte - 1) : Dec(c) = c - 1
  /\ Inc(0) = 1
<1> USE ByteAssumption
<1>1. ASSUME NEW c \in 1 .. (Byte - 1) PROVE (c + Byte - 1) % Byte = c - 1
  <2>1. c + Byte - 1 = Byte * 1 + (c - 1) /\ c - 1 \in 0 .. (Byte - 1) /\ c + Byte - 1 \in Nat
    OBVIOUS
  <2>2. Byte \in Nat \ {0} /\ 1 \in Nat
    OBVIOUS
  <2> QED
    BY <2>1, <2>2, DivUnique, Zenon
<1> QED
  BY <1>1 DEF Dec, Inc

\* A round begins with the search for the row.
LEMMA InitInvariant ==
  ASSUME Room, Init
  PROVE  IInv
<1> USE ByteAssumption, MaxBlocksAssumption
<1>1. Shape[n].outer \in 1 .. (Byte - 1)
  BY ShapeFits DEF Init
<1>2. scratch1 = Wanted /\ Wanted \in 0 .. (Byte - 2)
  BY Bytes DEF Init, Wanted
<1>3. Constants /\ Places /\ TypeOK
  BY <1>1, <1>2 DEF Init, Constants, Places, TypeOK, Test
<1>4. SeeksRow
  BY <1>2 DEF Init, SeeksRow, Untouched, Wanted, Test
<1> QED
  BY <1>3, <1>4 DEF IInv, Phase

\* Every step stays in its phase or begins the next one.
LEMMA StepInvariant ==
  ASSUME Room, IInv, [Next]_vars
  PROVE  IInv'
<1> USE ByteAssumption, MaxBlocksAssumption
<1>1. PICK outer \in 1 .. (Byte - 1), inner \in 1 .. Byte :
        /\ outer = Shape[n].outer /\ inner = Shape[n].inner
        /\ \A r \in 0 .. (outer - 1) : Cases(n, r) \in 1 .. inner
  BY ShapeFits, RowsShareBlocks DEF IInv, Constants
<1>2. CASE OuterFound
  BY <1>1, <1>2, Bytes, SMTT(60) DEF OuterFound, IInv, Constants, Places, TypeOK, Phase, SeeksRow, RowFound, SeeksCase, CaseFound, LeavesInner, LeavesOuter, Untouched, Wanted, Outcome, Test, Flag, Done, Rest
<1>3. CASE OuterNext
  <2>1. SeeksRow
    BY <1>3 DEF OuterNext, IInv, Phase, RowFound, SeeksCase, CaseFound, LeavesInner, LeavesOuter, Flag
  <2>2. scratch1' = scratch1 - 1 /\ scratch1 \in 1 .. (Byte - 1)
    BY <1>3, Bytes DEF OuterNext, IInv, TypeOK
  <2>3. Constants' /\ Places' /\ TypeOK'
    BY <1>1, <1>3, <2>2 DEF OuterNext, IInv, Constants, Places, TypeOK, Rest, Test
  <2>4. SeeksRow'
    BY <1>3, <2>1, <2>2 DEF OuterNext, SeeksRow, Untouched, Wanted, IInv, Constants, Places, TypeOK, Rest, Test
  <2> QED
    BY <2>3, <2>4 DEF IInv, Phase
<1>4. CASE OuterDefault
  <2>1. SeeksRow
    BY <1>4 DEF OuterDefault, IInv, Phase, RowFound, SeeksCase, CaseFound, LeavesInner, LeavesOuter, Flag
  <2>2. flag' = 0
    BY <1>4, <2>1, Bytes DEF OuterDefault, SeeksRow
  <2>3. Selected(n, index) = NoBlock
    <3>1. at.case + 1 = outer /\ scratch1 # 0
      BY <1>1, <1>4 DEF OuterDefault
    <3>2. Wanted \notin 0 .. (outer - 1)
      BY <2>1, <3>1 DEF SeeksRow, IInv, Constants, Places, Wanted
    <3> QED
      BY <1>1, <3>2, Zenon DEF Selected, Wanted
  <2>4. Constants' /\ Places' /\ TypeOK'
    BY <1>1, <1>4, <2>2 DEF OuterDefault, IInv, Constants, Places, TypeOK, Rest, Test
  <2>5. Outcome'
    <3>1. n' = n /\ index' = index /\ target'.high = 0 /\ ran' = <<>>
      BY <1>4, <2>1 DEF OuterDefault, SeeksRow, Untouched, IInv, Constants, Places, TypeOK, Rest, Test
    <3> QED
      BY <2>3, <3>1, Zenon DEF Outcome
  <2>6. LeavesOuter'
    BY <1>4, <2>2, <2>5 DEF OuterDefault, LeavesOuter
  <2> QED
    BY <2>4, <2>6 DEF IInv, Phase
<1>5. CASE OuterCase
  BY <1>1, <1>5, Bytes, SMTT(60) DEF OuterCase, IInv, Constants, Places, TypeOK, Phase, SeeksRow, RowFound, SeeksCase, CaseFound, LeavesInner, LeavesOuter, Untouched, Wanted, Outcome, Test, Flag, Done, Rest
<1>6. CASE OuterLeave
  BY <1>1, <1>6, Bytes, SMTT(60) DEF OuterLeave, IInv, Constants, Places, TypeOK, Phase, SeeksRow, RowFound, SeeksCase, CaseFound, LeavesInner, LeavesOuter, Untouched, Wanted, Outcome, Test, Flag, Done, Rest
<1>7. CASE InnerFound
  BY <1>1, <1>7, Bytes, SMTT(60) DEF InnerFound, IInv, Constants, Places, TypeOK, Phase, SeeksRow, RowFound, SeeksCase, CaseFound, LeavesInner, LeavesOuter, Untouched, Wanted, Outcome, Test, Flag, Done, Rest
<1>8. CASE InnerNext
  <2>1. SeeksCase
    BY <1>8 DEF InnerNext, IInv, Phase, SeeksRow, RowFound, CaseFound, LeavesInner, LeavesOuter, Flag
  <2>2. scratch0' = scratch0 - 1 /\ scratch0 \in 1 .. (Byte - 1)
    BY <1>8, Bytes DEF InnerNext, IInv, TypeOK
  <2>3. Constants' /\ Places' /\ TypeOK'
    BY <1>1, <1>8, <2>2 DEF InnerNext, IInv, Constants, Places, TypeOK, Rest, Test
  <2>4. SeeksCase'
    BY <1>8, <2>1, <2>2 DEF InnerNext, SeeksCase, Untouched, Wanted, IInv, Constants, Places, TypeOK, Rest, Test
  <2> QED
    BY <2>3, <2>4 DEF IInv, Phase
<1>9. CASE InnerDefault
  <2>1. SeeksCase
    BY <1>9 DEF InnerDefault, IInv, Phase, SeeksRow, RowFound, CaseFound, LeavesInner, LeavesOuter, Flag
  <2>2. scratch1' = 0
    BY <1>9, <2>1, Bytes DEF InnerDefault, SeeksCase
  <2>3. Selected(n, index) = NoBlock
    <3>1. index.low \notin 0 .. (Cases(n, index.high - 1) - 1)
      BY <1>1, <1>9, <2>1 DEF InnerDefault, SeeksCase, IInv, Constants, Places, TypeOK, Wanted
    <3> QED
      BY <3>1, Zenon DEF Selected
  <2>4. Constants' /\ Places' /\ TypeOK'
    BY <1>1, <1>9, <2>2 DEF InnerDefault, IInv, Constants, Places, TypeOK, Rest, Test
  <2>5. Outcome'
    <3>1. n' = n /\ index' = index /\ target'.high = 0 /\ ran' = <<>>
      BY <1>9, <2>1 DEF InnerDefault, SeeksCase, Untouched, IInv, Constants, Places, TypeOK, Rest, Test
    <3> QED
      BY <2>3, <3>1, Zenon DEF Outcome
  <2>6. LeavesInner'
    BY <1>9, <2>1, <2>2, <2>5 DEF InnerDefault, SeeksCase, LeavesInner, Wanted, Rest
  <2> QED
    BY <2>4, <2>6 DEF IInv, Phase
<1>10. CASE InnerCase
  <2>1. CaseFound
    BY <1>10 DEF InnerCase, IInv, Phase, SeeksRow, RowFound, SeeksCase, LeavesInner, LeavesOuter, Flag
  <2>2. scratch1' = 0
    BY <1>10, <2>1, Bytes DEF InnerCase, CaseFound
  <2>3. Selected(n, index) = row * inner + at.case /\ Selected(n, index) # NoBlock
    <3>1. at.case = index.low /\ row = index.high - 1
      BY <2>1 DEF CaseFound, Flag, Wanted
    <3>2. row \in 0 .. (outer - 1) /\ at.case \in 0 .. (Cases(n, row) - 1)
      BY <1>1, <1>10 DEF InnerCase, IInv, TypeOK
    <3>3. Selected(n, index) = row * inner + at.case
      BY <1>1, <3>1, <3>2, Zenon DEF Selected
    <3>4. row * inner \in Nat /\ at.case \in Nat
      BY <1>1, <3>2, ProductInNat
    <3> QED
      BY <3>3, <3>4 DEF NoBlock
  <2>4. Constants' /\ Places' /\ TypeOK'
    BY <1>1, <1>10, <2>2 DEF InnerCase, IInv, Constants, Places, TypeOK, Rest, Test
  <2>5. Outcome'
    <3>1. n' = n /\ index' = index /\ target' = index
      BY <1>10, <2>1 DEF InnerCase, CaseFound, Untouched, IInv, Constants, Places, TypeOK, Rest, Test
    <3>2. ran' = <<row * inner + at.case>>
      BY <1>1, <1>10, <2>1 DEF InnerCase, CaseFound, Untouched
    <3> QED
      BY <2>3, <3>1, <3>2, Zenon DEF Outcome
  <2>6. LeavesInner'
    BY <1>10, <2>1, <2>2, <2>5 DEF InnerCase, CaseFound, LeavesInner, Flag, Wanted, Rest
  <2> QED
    BY <2>4, <2>6 DEF IInv, Phase
<1>11. CASE InnerLeave
  BY <1>1, <1>11, Bytes, SMTT(60) DEF InnerLeave, IInv, Constants, Places, TypeOK, Phase, SeeksRow, RowFound, SeeksCase, CaseFound, LeavesInner, LeavesOuter, Untouched, Wanted, Outcome, Test, Flag, Done, Rest
<1>12. CASE UNCHANGED vars
  BY <1>12, SMTT(60) DEF vars, IInv, Constants, Places, TypeOK, Phase, SeeksRow, RowFound, SeeksCase, CaseFound, LeavesInner, LeavesOuter, Untouched, Wanted, Outcome, Test, Flag, Done, Rest
<1> QED
  BY <1>2, <1>3, <1>4, <1>5, <1>6, <1>7, <1>8, <1>9, <1>10, <1>11, <1>12 DEF Next, Outer, Inner

----------------------------------------------------------------------------
(* What follows for a round. *)

\* The inductive invariant: a round is in one of its phases.
THEOREM Invariance ==
  ASSUME Room
  PROVE  Spec => []IInv
<1>1. Init => IInv
  BY InitInvariant
<1>2. IInv /\ [Next]_vars => IInv'
  BY StepInvariant
<1> QED
  BY <1>1, <1>2, PTL DEF Spec

\* Cells hold bytes, and the switches are at a case they have.
THEOREM TypeCorrect ==
  ASSUME Room
  PROVE  Spec => []TypeOK
<1>1. IInv => TypeOK
  BY DEF IInv
<1> QED
  BY <1>1, Invariance, PTL

\* A round that is over has the outcome that the index calls for.
LEMMA OutcomeStands ==
  ASSUME IInv, at = Done
  PROVE  Outcome
BY DEF IInv, Phase, SeeksRow, RowFound, SeeksCase, CaseFound, LeavesInner, LeavesOuter, Done, Flag

\* The loops find what arithmetic on the index says they find.
THEOREM SwitchAgrees ==
  ASSUME Room
  PROVE  Spec => []AgreesWithSelected
<1>1. IInv => AgreesWithSelected
  BY OutcomeStands, Zenon DEF AgreesWithSelected, Outcome
<1> QED
  BY <1>1, Invariance, PTL

\* A round runs the one block that has the index, or none and ends the program.
THEOREM TargetRuns ==
  ASSUME Room
  PROVE  Spec => []RunsTheTarget
<1>1. ASSUME IInv, at = Done
      PROVE  LET found == {i \in 0 .. (n - 1) : DispatchIndex(n, i) = index} IN
             IF found = {} THEN ran = <<>> /\ target.high = 0
             ELSE target = index /\ Len(ran) = 1 /\ ran[1] \in found
  <2> DEFINE found == {i \in 0 .. (n - 1) : DispatchIndex(n, i) = index}
  <2>1. Outcome /\ Constants
    BY <1>1, OutcomeStands DEF IInv
  <2>2. CASE Selected(n, index) = NoBlock
    <3>1. found = {}
      <4>1. SUFFICES ASSUME NEW i \in 0 .. (n - 1), DispatchIndex(n, i) = index PROVE FALSE
        OBVIOUS
      <4>2. Selected(n, index) = i
        BY <4>1, <2>1, BlockIsFound, Zenon DEF Constants
      <4> QED
        BY <4>2, <2>2, <2>1 DEF NoBlock, Constants
    <3> QED
      BY <3>1, <2>1, <2>2 DEF Outcome
  <2>3. CASE Selected(n, index) # NoBlock
    <3>1. Selected(n, index) \in found
      BY <2>1, <2>3, FoundIsBlock, Zenon DEF Constants
    <3>2. target = index /\ ran = <<Selected(n, index)>>
      BY <2>1, <2>3 DEF Outcome
    <3> QED
      BY <3>1, <3>2
  <2> QED
    BY <2>2, <2>3
<1>2. IInv => RunsTheTarget
  BY <1>1, Zenon DEF RunsTheTarget
<1> QED
  BY <1>2, Invariance, PTL

\* There are as many indexes as blocks: the numbering is one to one.
LEMMA IndicesCounted ==
  ASSUME Room, NEW b \in 1 .. MaxBlocks
  PROVE  Cardinality({DispatchIndex(b, i) : i \in 0 .. (b - 1)}) = b
<1> DEFINE S == 0 .. (b - 1)
           T == {DispatchIndex(b, i) : i \in S}
           f == [i \in S |-> DispatchIndex(b, i)]
<1>1. IsFiniteSet(S) /\ Cardinality(S) = b
  BY FS_Interval, MaxBlocksAssumption
<1>2. \A i, j \in S : f[i] = f[j] => i = j
  BY BlockIsFound
<1>3. f \in [S -> T] /\ \A t \in T : \E i \in S : f[i] = t
  OBVIOUS
<1>4. f \in Bijection(S, T)
  BY <1>2, <1>3 DEF Bijection, Injection, Surjection, IsInjective
<1>5. Cardinality(T) = Cardinality(S)
  BY <1>1, <1>4, FS_Bijection, Zenon DEF ExistsBijection
<1> QED
  BY <1>1, <1>5

\* Blocks have distinct indexes, none of them ends the program, and every case that is
\* built has a block.
THEOREM BlocksAreTold ==
  ASSUME Room
  PROVE  Spec => []IndicesDistinct
<1>1. ASSUME Constants PROVE IndicesDistinct
  <2>1. Cardinality({DispatchIndex(n, i) : i \in 0 .. (n - 1)}) = n
    BY <1>1, IndicesCounted DEF Constants
  <2>2. ASSUME NEW i \in 0 .. (n - 1) PROVE DispatchIndex(n, i).high # 0
    <3>1. DispatchIndex(n, i) \in [high : 1 .. (Byte - 1), low : 0 .. (Byte - 1)]
      BY <1>1, BlockIsFound DEF Constants
    <3> QED
      BY <3>1, ByteAssumption
  <2>3. ASSUME NEW r \in 0 .. (Shape[n].outer - 1)
        PROVE  r * Shape[n].inner + Cases(n, r) <= n
    <3>1. Shape[n].inner * r + Cases(n, r) <= n
      BY <1>1, RowsShareBlocks DEF Constants
    <3>2. r * Shape[n].inner = Shape[n].inner * r
      <4>1. Shape[n].inner \in 1 .. Byte /\ Shape[n].outer \in 1 .. (Byte - 1)
        BY <1>1, ShapeFits DEF Constants
      <4> QED
        BY <4>1, ByteAssumption
    <3> QED
      BY <3>1, <3>2, Zenon
  <2> QED
    BY <2>1, <2>2, <2>3 DEF IndicesDistinct
<1>2. IInv => IndicesDistinct
  BY <1>1 DEF IInv
<1> QED
  BY <1>2, Invariance, PTL
=============================================================================
