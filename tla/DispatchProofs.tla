--------------------------- MODULE DispatchProofs ---------------------------
(***************************************************************************)
(* The numbering of blocks and the shape of the switch fit each other, for *)
(* cells of any size and every number of blocks that the shape the search  *)
(* starts from can hold (Room): every block is found under its index, and  *)
(* nothing else is found.                                                  *)
(***************************************************************************)
EXTENDS Dispatch, ListLemmas

\* The seed shape can hold every program that is accepted.
Room == MaxBlocks <= (Byte - 2) * (Byte - 1)

----------------------------------------------------------------------------
(* Arithmetic. *)

\* Quotient and remainder.
LEMMA DivMod ==
  ASSUME NEW a \in Nat, NEW k \in Nat \ {0}
  PROVE  /\ a \div k \in Nat /\ a % k \in 0 .. (k - 1)
         /\ a = k * (a \div k) + (a % k)
BY SMT

\* They are the only ones.
LEMMA DivUnique ==
  ASSUME NEW a \in Nat, NEW k \in Nat \ {0}, NEW q \in Nat, NEW r \in 0 .. (k - 1),
         a = k * q + r
  PROVE  a \div k = q /\ a % k = r
BY SMT

\* A product grows with its factor.
LEMMA ProductMonotone ==
  ASSUME NEW a \in Nat, NEW b \in Nat, NEW k \in Nat, a <= b
  PROVE  k * a <= k * b
BY SMT

\* Products are natural numbers, a fact the provers need to be told.
LEMMA ProductInNat ==
  ASSUME NEW a \in Nat, NEW k \in Nat
  PROVE  k * a \in Nat
BY SMT

\* One factor more.
LEMMA ProductStep ==
  ASSUME NEW a \in Nat, NEW k \in Nat
  PROVE  k * (a + 1) = k * a + k
BY SMT

----------------------------------------------------------------------------
(* The shape. *)

\* Rows of inner cases hold b blocks, and fewer rows do not.
LEMMA RowsHold ==
  ASSUME NEW b \in Nat \ {0}, NEW k \in Nat \ {0}
  PROVE  /\ Rows(b, k) \in Nat \ {0}
         /\ b <= k * Rows(b, k)
         /\ \A m \in Nat : b <= k * m => Rows(b, k) <= m
<1>1. PICK a \in Nat, q \in Nat, r \in 0 .. (k - 1) :
        a = b + k - 1 /\ Rows(b, k) = q /\ a = k * q + r
  <2>1. b + k - 1 \in Nat
    OBVIOUS
  <2> QED
    BY <2>1, DivMod DEF Rows
<1>2. k * q \in Nat /\ b <= k * q
  BY <1>1
<1>3. q # 0
  BY <1>1, SMT
<1>4. ASSUME NEW m \in Nat, b <= k * m PROVE q <= m
  <2>1. SUFFICES ASSUME m + 1 <= q PROVE FALSE
    OBVIOUS
  <2>2. k * (m + 1) <= k * q
    BY <2>1, ProductMonotone
  <2>3. k * (m + 1) = k * m + k
    BY SMT
  <2> QED
    BY <2>2, <2>3, <1>1, <1>4, <1>2, k * m \in Nat
<1> QED
  BY <1>1, <1>2, <1>3, <1>4

\* Every shape the search looks at has room for b blocks.
LEMMA SearchedHold ==
  ASSUME Room, NEW b \in 1 .. MaxBlocks, NEW s \in Searched(b)
  PROVE  /\ s.outer \in 1 .. (Byte - 1)
         /\ s.inner \in 1 .. Byte
         /\ s.outer <= s.inner
         /\ b <= s.inner * s.outer
<1> USE ByteAssumption, MaxBlocksAssumption
<1>1. CASE s = Seed
  <2>1. s.outer = Byte - 2 /\ s.inner = Byte - 1
    BY <1>1 DEF Seed, Result
  <2>2. (Byte - 1) * (Byte - 2) = (Byte - 2) * (Byte - 1)
    BY SMT
  <2>3. b <= (Byte - 1) * (Byte - 2)
    BY <2>2 DEF Room
  <2> QED
    BY <2>1, <2>3
<1>2. CASE s \in Candidates(b)
  <2>1. PICK k \in 1 .. Byte, rows \in Nat \ {0} :
          rows = Rows(b, k) /\ rows < Byte /\ s = Result(rows, k) /\ b <= k * rows
    <3>1. PICK k \in 1 .. Byte : Rows(b, k) < Byte /\ s = Result(Rows(b, k), k)
      BY <1>2 DEF Candidates
    <3> QED
      BY <3>1, RowsHold
  <2>2. k * rows = rows * k
    BY SMT
  <2>3. CASE rows <= k
    <3>1. s.outer = rows /\ s.inner = k
      BY <2>1, <2>3 DEF Result
    <3> QED
      BY <3>1, <2>1, <2>3
  <2>4. CASE ~ (rows <= k)
    <3>1. s.outer = k /\ s.inner = rows
      BY <2>1, <2>4 DEF Result
    <3> QED
      BY <3>1, <2>1, <2>2, <2>4
  <2> QED
    BY <2>3, <2>4
<1> QED
  BY <1>1, <1>2 DEF Searched

\* There is a best shape, and it is the one that Shape chooses.
LEMMA ShapeIsBest ==
  ASSUME Room, NEW b \in 1 .. MaxBlocks
  PROVE  Shape[b] \in Searched(b) /\ \A t \in Searched(b) : ~ Better(t, Shape[b])
<1> DEFINE S == Searched(b)
           Lengths == {Length(s) : s \in S}
<1>1. \A s \in S : Length(s) \in Nat /\ Excess(s) \in Nat
  BY SearchedHold, ByteAssumption DEF Length, Excess
<1>2. PICK l \in Lengths : \A k \in Lengths : l <= k
  <2>1. Lengths \in SUBSET Nat /\ Lengths # {}
    BY <1>1 DEF Searched
  <2> QED
    BY <2>1, LeastNatural
<1> DEFINE Excesses == {Excess(s) : s \in {t \in S : Length(t) = l}}
<1>3. PICK e \in Excesses : \A k \in Excesses : e <= k
  <2>1. Excesses \in SUBSET Nat /\ Excesses # {}
    BY <1>1, <1>2
  <2> QED
    BY <2>1, LeastNatural
<1>4. PICK s \in S : Length(s) = l /\ Excess(s) = e
  BY <1>3
<1>5. ASSUME NEW t \in S PROVE ~ Better(t, s)
  <2>1. l <= Length(t) /\ {l, Length(t), e, Excess(t)} \subseteq Nat
    BY <1>1, <1>2, <1>4
  <2>2. Length(t) = l => e <= Excess(t)
    BY <1>3
  <2> QED
    BY <2>1, <2>2, <1>4 DEF Better
<1>6. \E best \in S : \A t \in S : ~ Better(t, best)
  BY <1>4, <1>5
<1> QED
  BY <1>6 DEF Shape

\* No row of the chosen shape is empty: a shape with a row fewer would be better.
LEMMA ShapeFits ==
  ASSUME Room, NEW b \in 1 .. MaxBlocks
  PROVE  /\ Shape[b].outer \in 1 .. (Byte - 1)
         /\ Shape[b].inner \in 1 .. Byte
         /\ b <= Shape[b].inner * Shape[b].outer
         /\ Shape[b].inner * (Shape[b].outer - 1) < b
<1> USE ByteAssumption, MaxBlocksAssumption
<1>1. PICK outer, inner : outer = Shape[b].outer /\ inner = Shape[b].inner
  OBVIOUS
<1>2. /\ outer \in 1 .. (Byte - 1) /\ inner \in 1 .. Byte
      /\ outer <= inner /\ b <= inner * outer
  BY <1>1, ShapeIsBest, SearchedHold
<1>3. ASSUME b <= inner * (outer - 1) PROVE FALSE
  <2>1. PICK rows \in Nat \ {0} : rows = Rows(b, inner) /\ rows <= outer - 1
    <3>1. outer - 1 \in Nat /\ inner \in Nat \ {0} /\ b \in Nat \ {0}
      BY <1>2
    <3> QED
      BY <3>1, <1>3, RowsHold
  <2>2. Result(rows, inner) \in Searched(b)
    BY <2>1, <1>2 DEF Searched, Candidates
  <2>3. Length(Result(rows, inner)) = rows + inner
    BY <2>1, <1>2 DEF Length, Result
  <2>4. Length(Shape[b]) = outer + inner
    BY <1>1 DEF Length
  <2>5. Better(Result(rows, inner), Shape[b])
    BY <2>1, <2>3, <2>4, <1>2 DEF Better
  <2> QED
    BY <2>2, <2>5, ShapeIsBest
<1>4. inner * (outer - 1) \in Nat
  BY <1>2
<1> QED
  BY <1>1, <1>2, <1>3, <1>4

----------------------------------------------------------------------------
(* Indices. *)

\* The rows share out the blocks: each ends where the next begins, the last with the
\* last block.
LEMMA RowsShareBlocks ==
  ASSUME Room, NEW b \in 1 .. MaxBlocks, NEW r \in 0 .. (Shape[b].outer - 1)
  PROVE  /\ Cases(b, r) \in 1 .. Shape[b].inner
         /\ Shape[b].inner * r + Cases(b, r) <= b
         /\ r + 1 < Shape[b].outer => Cases(b, r) = Shape[b].inner
         /\ r + 1 = Shape[b].outer => Shape[b].inner * r + Cases(b, r) = b
<1> USE ByteAssumption, MaxBlocksAssumption
<1>1. PICK outer \in Nat \ {0}, inner \in Nat \ {0} :
        /\ outer = Shape[b].outer /\ inner = Shape[b].inner
        /\ b <= inner * outer /\ inner * (outer - 1) < b
  BY ShapeFits
<1>2. CASE r + 1 < outer
  <2>1. Cases(b, r) = inner
    BY <1>1, <1>2 DEF Cases
  <2>2. inner * (r + 1) <= inner * (outer - 1)
    BY <1>1, <1>2, ProductMonotone
  <2>3. inner * (r + 1) = inner * r + inner /\ inner * r \in Nat /\ inner * (outer - 1) \in Nat
    BY <1>1
  <2> QED
    BY <1>1, <1>2, <2>1, <2>2, <2>3
<1>3. CASE r + 1 = outer
  <2>0. r \in Nat /\ outer - 1 = r /\ outer = r + 1
    BY <1>1, <1>3
  <2>1. inner * outer = inner * r + inner /\ inner * r \in Nat /\ inner * (outer - 1) = inner * r
    BY <2>0, ProductStep, ProductInNat
  <2>2. PICK rest \in 0 .. (inner - 1) : b - 1 = inner * r + rest
    <3>1. b - 1 - inner * r \in 0 .. (inner - 1)
      BY <1>1, <2>1
    <3> QED
      BY <3>1, <2>1
  <2>3. (b - 1) % inner = rest
    <3>1. b - 1 \in Nat
      OBVIOUS
    <3>2. r \in Nat
      BY <1>1
    <3> QED
      BY <3>1, <3>2, <2>2, DivUnique, Zenon
  <2>4. Cases(b, r) = rest + 1
    BY <1>1, <1>3, <2>3 DEF Cases
  <2> QED
    BY <1>1, <1>3, <2>1, <2>2, <2>4
<1> QED
  BY <1>1, <1>2, <1>3

\* A block has a row and a case that are built, and an index that says so.
LEMMA BlockIsBuilt ==
  ASSUME Room, NEW b \in 1 .. MaxBlocks, NEW i \in 0 .. (b - 1)
  PROVE  \E r \in 0 .. (Shape[b].outer - 1) : \E c \in 0 .. (Cases(b, r) - 1) :
           i = Shape[b].inner * r + c /\ DispatchIndex(b, i) = [high |-> r + 1, low |-> c]
<1> USE ByteAssumption, MaxBlocksAssumption
<1>1. PICK outer \in 1 .. (Byte - 1), inner \in Nat \ {0} :
        /\ outer = Shape[b].outer /\ inner = Shape[b].inner
        /\ b <= inner * outer
  BY ShapeFits
<1>2. PICK r \in Nat, c \in 0 .. (inner - 1) :
        i \div inner = r /\ i % inner = c /\ i = inner * r + c
  <2>1. i \in Nat
    OBVIOUS
  <2> QED
    BY <2>1, DivMod, Zenon
<1>3. outer \in Nat /\ inner * r \in Nat /\ inner * outer \in Nat
  BY ProductInNat
<1>4. r < outer
  <2>1. SUFFICES ASSUME outer <= r PROVE FALSE
    BY <1>3
  <2>2. inner * outer <= inner * r
    <3>1. inner \in Nat
      OBVIOUS
    <3> QED
      BY <3>1, <2>1, <1>3, ProductMonotone, Zenon
  <2> QED
    BY <2>2, <1>1, <1>2, <1>3
<1>5. c < Cases(b, r)
  <2>1. r \in 0 .. (outer - 1)
    BY <1>3, <1>4
  <2>2. /\ Cases(b, r) \in 1 .. inner
        /\ r + 1 < outer => Cases(b, r) = inner
        /\ r + 1 = outer => inner * r + Cases(b, r) = b
    BY <2>1, <1>1, RowsShareBlocks, Zenon
  <2>3. i < b /\ b \in Nat
    OBVIOUS
  <2>4. CASE r + 1 < outer
    BY <2>2, <2>4
  <2>5. CASE r + 1 = outer
    BY <2>2, <2>3, <2>5, <1>2, <1>3
  <2> QED
    BY <2>4, <2>5, <1>3, <1>4
<1>6. (r + 1) % Byte = r + 1
  BY <1>4
<1>7. DispatchIndex(b, i) = [high |-> r + 1, low |-> c]
  BY <1>1, <1>2, <1>6, Zenon DEF DispatchIndex
<1>8. r \in 0 .. (outer - 1) /\ c \in 0 .. (Cases(b, r) - 1)
  <2>1. r \in 0 .. (outer - 1)
    BY <1>3, <1>4
  <2>2. Cases(b, r) \in 1 .. inner
    BY <2>1, <1>1, RowsShareBlocks, Zenon
  <2> QED
    BY <2>1, <2>2, <1>5
<1> QED
  BY <1>1, <1>2, <1>7, <1>8, Zenon

\* The switch finds block i under the index of block i.
LEMMA BlockIsFound ==
  ASSUME Room, NEW b \in 1 .. MaxBlocks, NEW i \in 0 .. (b - 1)
  PROVE  /\ Selected(b, DispatchIndex(b, i)) = i
         /\ DispatchIndex(b, i) \in [high : 1 .. (Byte - 1), low : 0 .. (Byte - 1)]
<1> USE ByteAssumption, MaxBlocksAssumption
<1>1. PICK r \in 0 .. (Shape[b].outer - 1) : \E c \in 0 .. (Cases(b, r) - 1) :
        i = Shape[b].inner * r + c /\ DispatchIndex(b, i) = [high |-> r + 1, low |-> c]
  BY BlockIsBuilt, Zenon
<1>2. PICK c \in 0 .. (Cases(b, r) - 1) :
        i = Shape[b].inner * r + c /\ DispatchIndex(b, i) = [high |-> r + 1, low |-> c]
  BY <1>1, Zenon
<1>3. PICK outer \in 1 .. (Byte - 1), inner \in 1 .. Byte :
        outer = Shape[b].outer /\ inner = Shape[b].inner
  BY ShapeFits, Zenon
<1>4. Cases(b, r) \in 1 .. inner
  BY <1>3, RowsShareBlocks, Zenon
<1>5. r \in Nat /\ r < outer /\ (r + 1) - 1 = r /\ r + 1 \in 1 .. (Byte - 1) /\ c \in 0 .. (Byte - 1)
  BY <1>3, <1>4
<1>6. DispatchIndex(b, i) \in [high : 1 .. (Byte - 1), low : 0 .. (Byte - 1)]
  BY <1>2, <1>5
<1>7. Selected(b, DispatchIndex(b, i)) = r * inner + c
  <2>1. DispatchIndex(b, i).high = r + 1 /\ DispatchIndex(b, i).low = c
    BY <1>2
  <2> QED
    BY <2>1, <1>1, <1>2, <1>3, <1>5, Zenon DEF Selected
<1>8. i = inner * r + c
  BY <1>2, <1>3, Zenon
<1>9. r * inner = inner * r
  BY <1>5
<1> QED
  BY <1>6, <1>7, <1>8, <1>9, Zenon

\* What the switch finds is a block, and the index is the index of that block.
LEMMA FoundIsBlock ==
  ASSUME Room, NEW b \in 1 .. MaxBlocks,
         NEW ix \in [high : 1 .. (Byte - 1), low : 0 .. (Byte - 1)],
         Selected(b, ix) # NoBlock
  PROVE  /\ Selected(b, ix) \in 0 .. (b - 1)
         /\ DispatchIndex(b, Selected(b, ix)) = ix
<1> USE ByteAssumption, MaxBlocksAssumption
<1>1. PICK outer \in 1 .. (Byte - 1), inner \in 1 .. Byte :
        outer = Shape[b].outer /\ inner = Shape[b].inner
  BY ShapeFits, Zenon
<1>0. PICK r \in 0 .. (outer - 1) : \E c \in 0 .. (Cases(b, r) - 1) :
        r = ix.high - 1 /\ c = ix.low /\ Selected(b, ix) = r * inner + c
  BY <1>1, Zenon DEF Selected
<1>2. PICK c \in 0 .. (Cases(b, r) - 1) :
        r = ix.high - 1 /\ c = ix.low /\ Selected(b, ix) = r * inner + c
  BY <1>0, Zenon
<1>3. Cases(b, r) \in 1 .. inner /\ inner * r + Cases(b, r) <= b
  BY <1>1, RowsShareBlocks, Zenon
<1>4. r \in Nat /\ inner \in Nat \ {0} /\ c \in 0 .. (inner - 1) /\ r * inner = inner * r
  BY <1>2, <1>3
<1>5. inner * r \in Nat
  BY <1>4, ProductInNat
<1>6. Selected(b, ix) = inner * r + c
  BY <1>2, <1>4, Zenon
<1>7. Selected(b, ix) \in 0 .. (b - 1)
  BY <1>2, <1>3, <1>5, <1>6
<1>8. Selected(b, ix) \div inner = r /\ Selected(b, ix) % inner = c
  <2>1. Selected(b, ix) \in Nat
    BY <1>7
  <2> QED
    BY <2>1, <1>4, <1>6, DivUnique, Zenon
<1>9. (r + 1) % Byte = ix.high
  <2>1. r + 1 = ix.high /\ ix.high \in 1 .. (Byte - 1)
    BY <1>2
  <2> QED
    BY <2>1
<1>10. ix = [high |-> (r + 1) % Byte, low |-> c]
  BY <1>2, <1>9
<1> QED
  BY <1>1, <1>7, <1>8, <1>10, Zenon DEF DispatchIndex

=============================================================================
