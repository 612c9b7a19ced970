------------------------ MODULE SlotAllocatorProofs ------------------------
(***************************************************************************)
(* The slots of a frame tile its local area, for every request size, every *)
(* bound and every sequence of declarations, requests and frees.           *)
(*                                                                         *)
(* The arithmetic of the merge is in the lemmas on Merged; the invariant   *)
(* adds to the tiling what the flush on leaving a scope relies on.         *)
(***************************************************************************)
EXTENDS SlotAllocator, FiniteSetTheorems, WellFoundedInduction, TLAPS

\* A property that some number has, some least number has.
LEMMA LeastNat ==
  ASSUME NEW T \in SUBSET Nat, T # {}
  PROVE  \E x \in T : \A y \in T : x <= y
<1>1. PICK x \in T : \A y \in T : ~ (<<y, x>> \in OpToRel(<, Nat))
  BY NatLessThanWellFounded, WFMin, Zenon
<1>2. \A y \in T : ~ (y < x)
  BY <1>1 DEF OpToRel
<1> QED BY <1>2

----------------------------------------------------------------------------
(* What markSlotAvailable and mergeAvailableSlots do to a vector S that is  *)
(* tiled: the parts of the tiling, stated of any vector.                    *)

Typed(S) == \A i \in DOMAIN S : S[i] \in Slot

Disjoint(S) ==
  \A i, j \in DOMAIN S : i # j => CellsOf(S[i]) \cap CellsOf(S[j]) = {}

Inside(S) ==
  \A i \in DOMAIN S :
    LocalBase <= S[i].offset /\ S[i].offset + S[i].size <= AreaEnd

Covers(S) ==
  \A c \in LocalBase .. (AreaEnd - 1) : \E i \in DOMAIN S : c \in CellsOf(S[i])

Apart(S) ==
  \A i, j \in Available(S) : S[i].offset + S[i].size # S[j].offset

\* Free cells lie in the local area.
LEMMA FreeCellsBounds ==
  ASSUME area \in Nat, NEW S, Typed(S), Inside(S), NEW c \in FreeCells(S)
  PROVE  c \in LocalBase .. (AreaEnd - 1)
<1>1. PICK i \in Available(S) : c \in CellsOf(S[i])
  BY DEF FreeCells
<1>2. i \in DOMAIN S /\ S[i].offset \in Nat /\ S[i].size \in Nat
  BY <1>1 DEF Available, Typed, Slot
<1>3. LocalBase <= S[i].offset /\ S[i].offset + S[i].size <= AreaEnd
  BY <1>2 DEF Inside
<1>4. LocalBase \in Int /\ AreaEnd \in Int
  BY ReturnValueAssumption DEF LocalBase, AreaEnd, ReturnValueStart
<1> QED BY <1>1, <1>2, <1>3, <1>4 DEF CellsOf

\* A run of free cells ends inside the area: the CHOOSE of RunEnd has a witness.
LEMMA RunEndProperty ==
  ASSUME area \in Nat, NEW S, Typed(S), Inside(S), NEW i \in Available(S)
  PROVE  /\ RunEnd(S, i) \in (S[i].offset + S[i].size) .. AreaEnd
         /\ RunEnd(S, i) \notin FreeCells(S)
         /\ S[i].offset .. (RunEnd(S, i) - 1) \subseteq FreeCells(S)
<1> DEFINE o == S[i].offset
           n == S[i].size
           T == {k \in Nat : o + n + k \notin FreeCells(S)}
<1>1. o \in Nat /\ n \in Nat \ {0} /\ i \in DOMAIN S
  BY DEF Available, Typed, Slot
<1>2. o + n <= AreaEnd /\ AreaEnd \in Int
  BY <1>1, ReturnValueAssumption DEF Inside, LocalBase, AreaEnd, ReturnValueStart
<1>3. AreaEnd \notin FreeCells(S)
  BY <1>2, FreeCellsBounds
<1>4. AreaEnd - (o + n) \in T
  BY <1>1, <1>2, <1>3
<1>5. PICK k \in T : \A l \in T : k <= l
  BY <1>4, LeastNat
<1> DEFINE end == o + n + k
<1>6. k \in Nat /\ end \notin FreeCells(S) /\ end \in (o + n) .. AreaEnd
  BY <1>1, <1>2, <1>4, <1>5
<1>7. o .. (end - 1) \subseteq FreeCells(S)
  <2>1. SUFFICES ASSUME NEW c \in o .. (end - 1)
                 PROVE  c \in FreeCells(S)
    OBVIOUS
  <2>2. CASE c < o + n
    <3>1. c \in CellsOf(S[i])
      BY <1>1, <2>1, <2>2 DEF CellsOf
    <3> QED BY <3>1 DEF FreeCells
  <2>3. CASE c >= o + n
    <3>1. c - (o + n) \in Nat /\ c - (o + n) < k /\ o + n + (c - (o + n)) = c
      BY <1>1, <1>6, <2>1, <2>3
    <3>2. c - (o + n) \notin T
      BY <1>5, <1>6, <3>1
    <3> QED BY <3>1, <3>2
  <2> QED BY <1>1, <1>6, <2>1, <2>2, <2>3
<1>8. \E e \in (o + n) .. AreaEnd :
        e \notin FreeCells(S) /\ o .. (e - 1) \subseteq FreeCells(S)
  <2> HIDE DEF end, o, n, T
  <2> QED BY <1>6, <1>7
<1> QED BY <1>8 DEF RunEnd

\* markSlotAvailable changes no extent: the slots still tile the area.
LEMMA MarkedTiled ==
  ASSUME NEW S, Typed(S), Disjoint(S), Inside(S), Covers(S), NEW freed
  PROVE  /\ Typed(Marked(S, freed))
         /\ Disjoint(Marked(S, freed))
         /\ Inside(Marked(S, freed))
         /\ Covers(Marked(S, freed))
<1> DEFINE M == Marked(S, freed)
<1>1. DOMAIN M = DOMAIN S
  BY DEF Marked
<1>2. \A i \in DOMAIN S : M[i] \in Slot /\ M[i].offset = S[i].offset /\ M[i].size = S[i].size
  BY DEF Marked, FreeSlot, Typed, Slot, FunctionLevel
<1>3. \A i \in DOMAIN S : CellsOf(M[i]) = CellsOf(S[i])
  BY <1>2 DEF CellsOf
<1>4. Typed(M)
  BY <1>1, <1>2 DEF Typed
<1>5. Disjoint(M)
  BY <1>1, <1>3 DEF Disjoint
<1>6. Inside(M)
  BY <1>1, <1>2 DEF Inside
<1>7. Covers(M)
  BY <1>1, <1>3 DEF Covers
<1> QED BY <1>4, <1>5, <1>6, <1>7

\* A run of free cells that starts left of a free slot and reaches it continues
\* into it, so that slot does not start a run.
LEMMA RunsApart ==
  ASSUME area \in Nat, NEW S, Typed(S), Inside(S),
         NEW i \in Available(S), NEW j \in Available(S),
         StartsRun(S, j), S[i].offset < S[j].offset
  PROVE  RunEnd(S, i) < S[j].offset
<1>1. S[i].offset \in Nat /\ S[j].offset \in Nat
  BY DEF Available, Typed, Slot
<1>2. S[j].offset - 1 \notin FreeCells(S)
  BY DEF StartsRun
<1>3. RunEnd(S, i) \in Int /\ \A c \in S[i].offset .. (RunEnd(S, i) - 1) : c \in FreeCells(S)
  BY RunEndProperty
<1> QED BY <1>1, <1>2, <1>3

\* Every free cell lies in the run of a free slot that starts one.
LEMMA RunStartExists ==
  ASSUME area \in Nat, NEW S, Typed(S), Inside(S), NEW c \in FreeCells(S)
  PROVE  \E i \in Available(S) :
           StartsRun(S, i) /\ S[i].offset <= c /\ c < RunEnd(S, i)
<1> DEFINE T == {k \in Nat : c - k \notin FreeCells(S)}
<1>1. c \in Int /\ LocalBase <= c /\ LocalBase \in Nat
  BY FreeCellsBounds, ReturnValueAssumption
  DEF LocalBase, AreaEnd, ReturnValueStart
<1>2. c - (LocalBase - 1) \in T
  <2>1. LocalBase - 1 \notin FreeCells(S)
    BY <1>1, FreeCellsBounds
  <2> QED BY <1>1, <2>1
<1>3. PICK k \in T : \A l \in T : k <= l
  BY <1>2, LeastNat
<1>4. k \in Nat \ {0} /\ c - k \notin FreeCells(S)
  BY <1>1, <1>3
<1>5. \A d \in (c - k + 1) .. c : d \in FreeCells(S)
  <2>1. SUFFICES ASSUME NEW d \in (c - k + 1) .. c
                 PROVE  d \in FreeCells(S)
    OBVIOUS
  <2>2. c - d \in Nat /\ c - d < k /\ c - (c - d) = d
    BY <1>1, <1>4, <2>1
  <2>3. c - d \notin T
    BY <1>3, <1>4, <2>2
  <2> QED BY <2>2, <2>3
<1>6. PICK i \in Available(S) : c - k + 1 \in CellsOf(S[i])
  <2>1. c - k + 1 \in FreeCells(S)
    BY <1>1, <1>4, <1>5
  <2> QED BY <2>1 DEF FreeCells
<1>7. S[i].offset \in Nat /\ S[i].size \in Nat \ {0}
  BY DEF Available, Typed, Slot
<1>8. S[i].offset = c - k + 1
  <2>1. CellsOf(S[i]) \subseteq FreeCells(S)
    BY DEF FreeCells
  <2>2. c - k \notin CellsOf(S[i])
    BY <2>1, <1>4
  <2> QED BY <1>1, <1>4, <1>6, <1>7, <2>2 DEF CellsOf
<1>9. StartsRun(S, i)
  BY <1>1, <1>4, <1>8 DEF StartsRun
<1>10. c < RunEnd(S, i)
  <2>1. RunEnd(S, i) \in Int /\ RunEnd(S, i) >= S[i].offset /\ RunEnd(S, i) \notin FreeCells(S)
    BY <1>7, RunEndProperty
  <2> QED BY <1>1, <1>4, <1>5, <1>8, <2>1
<1> QED BY <1>1, <1>4, <1>8, <1>9, <1>10

\* mergeAvailableSlots keeps the tiling and leaves no two free slots adjacent.
LEMMA MergedShape ==
  ASSUME area \in Nat, NEW S, Typed(S), Inside(S)
  PROVE  /\ DOMAIN Merged(S) \subseteq DOMAIN S
         /\ \A i \in DOMAIN S : S[i].kind # "Available" =>
              i \in DOMAIN Merged(S) /\ Merged(S)[i] = S[i]
         /\ \A i \in DOMAIN Merged(S) : S[i].kind # "Available" \/
              (/\ i \in Available(S) /\ StartsRun(S, i)
               /\ Merged(S)[i] = FreeSlot(S[i].offset, RunEnd(S, i) - S[i].offset)
               /\ CellsOf(Merged(S)[i]) = S[i].offset .. (RunEnd(S, i) - 1))
         /\ \A i \in Available(S) : StartsRun(S, i) => i \in DOMAIN Merged(S)
         /\ Available(Merged(S)) = {i \in Available(S) : StartsRun(S, i)}
<1>1. \A i \in Available(S) :
        /\ S[i].offset \in Nat
        /\ RunEnd(S, i) \in Int
        /\ CellsOf(FreeSlot(S[i].offset, RunEnd(S, i) - S[i].offset))
             = S[i].offset .. (RunEnd(S, i) - 1)
  <2>1. SUFFICES ASSUME NEW i \in Available(S)
                 PROVE  /\ S[i].offset \in Nat
                        /\ RunEnd(S, i) \in Int
                        /\ CellsOf(FreeSlot(S[i].offset, RunEnd(S, i) - S[i].offset))
                             = S[i].offset .. (RunEnd(S, i) - 1)
    OBVIOUS
  <2>2. S[i].offset \in Nat /\ RunEnd(S, i) \in Int
    BY RunEndProperty DEF Available, Typed, Slot
  <2>3. S[i].offset + (RunEnd(S, i) - S[i].offset) - 1 = RunEnd(S, i) - 1
    BY <2>2
  <2> QED BY <2>2, <2>3 DEF CellsOf, FreeSlot
<1> QED BY <1>1 DEF Merged, Available, FreeSlot

\* What mergeAvailableSlots leaves are slots.
LEMMA MergedTyped ==
  ASSUME area \in Nat, NEW S, Typed(S), Inside(S)
  PROVE  Typed(Merged(S)) /\ Inside(Merged(S))
<1>1. SUFFICES ASSUME NEW i \in DOMAIN Merged(S)
               PROVE  /\ Merged(S)[i] \in Slot
                      /\ LocalBase <= Merged(S)[i].offset
                      /\ Merged(S)[i].offset + Merged(S)[i].size <= AreaEnd
  BY DEF Typed, Inside
<1>2. i \in DOMAIN S
  BY MergedShape
<1>3. CASE S[i].kind # "Available"
  <2>1. Merged(S)[i] = S[i]
    BY <1>2, <1>3, MergedShape
  <2> QED BY <1>2, <2>1 DEF Typed, Inside
<1>4. CASE S[i].kind = "Available"
  <2>1. i \in Available(S) /\ Merged(S)[i] = FreeSlot(S[i].offset, RunEnd(S, i) - S[i].offset)
    BY <1>2, <1>4, MergedShape DEF Available
  <2>2. S[i].offset \in Nat /\ S[i].size \in Nat \ {0} /\ LocalBase <= S[i].offset
    BY <1>2 DEF Typed, Slot, Inside
  <2>3. RunEnd(S, i) \in (S[i].offset + S[i].size) .. AreaEnd
    BY <2>1, RunEndProperty
  <2>4. AreaEnd \in Int
    BY ReturnValueAssumption DEF AreaEnd, LocalBase, ReturnValueStart
  <2>5. RunEnd(S, i) - S[i].offset \in Nat \ {0}
    BY <2>2, <2>3, <2>4
  <2>6. S[i].offset + (RunEnd(S, i) - S[i].offset) <= AreaEnd
    BY <2>2, <2>3, <2>4
  <2> QED BY <2>1, <2>2, <2>5, <2>6 DEF FreeSlot, Slot, FunctionLevel
<1> QED BY <1>3, <1>4

\* mergeAvailableSlots makes no two slots share a cell: a run that was joined
\* overlaps neither a live slot nor another run.
LEMMA MergedDisjoint ==
  ASSUME area \in Nat, NEW S, Typed(S), Inside(S), Disjoint(S)
  PROVE  Disjoint(Merged(S))
<1> DEFINE M == Merged(S)
<1>1. SUFFICES ASSUME NEW i \in DOMAIN M, NEW j \in DOMAIN M, i # j,
                      NEW c \in CellsOf(M[i]), c \in CellsOf(M[j]),
                      \/ S[j].kind # "Available"
                      \/ /\ S[i].kind = "Available" /\ S[j].kind = "Available"
                         /\ S[i].offset <= S[j].offset
               PROVE  FALSE
  <2>1. \A k \in DOMAIN M : S[k].offset \in Nat
    BY MergedShape DEF Typed, Slot
  <2> QED BY <2>1 DEF Disjoint
<1>2. i \in DOMAIN S /\ j \in DOMAIN S /\ CellsOf(S[i]) \cap CellsOf(S[j]) = {}
  BY <1>1, MergedShape DEF Disjoint
<1>3. CASE S[j].kind # "Available"
  <2>1. c \in CellsOf(S[j])
    BY <1>1, <1>2, <1>3, MergedShape
  <2>2. CASE S[i].kind # "Available"
    BY <1>2, <2>1, <2>2, MergedShape
  <2>3. CASE S[i].kind = "Available"
    <3>1. i \in Available(S) /\ c \in S[i].offset .. (RunEnd(S, i) - 1)
      BY <2>3, MergedShape
    <3>2. c \in FreeCells(S)
      BY <3>1, RunEndProperty
    <3>3. PICK k \in Available(S) : c \in CellsOf(S[k])
      BY <3>2 DEF FreeCells
    <3>4. k \in DOMAIN S /\ k # j
      BY <1>3, <3>3 DEF Available
    <3> QED BY <1>2, <2>1, <3>3, <3>4 DEF Disjoint
  <2> QED BY <2>2, <2>3
<1>4. CASE S[i].kind = "Available" /\ S[j].kind = "Available" /\ S[i].offset <= S[j].offset
  <2>1. i \in Available(S) /\ j \in Available(S) /\ StartsRun(S, j)
    BY <1>2, <1>4, MergedShape DEF Available
  <2>2. c \in S[i].offset .. (RunEnd(S, i) - 1) /\ c \in S[j].offset .. (RunEnd(S, j) - 1)
    BY <1>1, <1>4, MergedShape
  <2>3. /\ S[i].offset \in Nat /\ S[j].offset \in Nat
        /\ S[i].size \in Nat \ {0} /\ S[j].size \in Nat \ {0}
    BY <1>2 DEF Typed, Slot
  <2>4. S[i].offset # S[j].offset
    <3>1. S[i].offset \in CellsOf(S[i]) /\ S[j].offset \in CellsOf(S[j])
      BY <2>3 DEF CellsOf
    <3> QED BY <1>2, <3>1
  <2>5. RunEnd(S, i) < S[j].offset
    BY <1>4, <2>1, <2>3, <2>4, RunsApart
  <2>6. RunEnd(S, i) \in Int /\ RunEnd(S, j) \in Int
    BY <2>1, RunEndProperty
  <2> QED BY <2>2, <2>3, <2>5, <2>6
<1> QED BY <1>1, <1>3, <1>4

\* mergeAvailableSlots loses no cell: what it erases, the run it joins covers.
LEMMA MergedCovers ==
  ASSUME area \in Nat, NEW S, Typed(S), Inside(S), Covers(S)
  PROVE  Covers(Merged(S))
<1>1. SUFFICES ASSUME NEW c \in LocalBase .. (AreaEnd - 1)
               PROVE  \E i \in DOMAIN Merged(S) : c \in CellsOf(Merged(S)[i])
  BY DEF Covers
<1>2. PICK k \in DOMAIN S : c \in CellsOf(S[k])
  BY DEF Covers
<1>3. CASE S[k].kind # "Available"
  BY <1>2, <1>3, MergedShape
<1>4. CASE S[k].kind = "Available"
  <2>1. c \in FreeCells(S)
    BY <1>2, <1>4 DEF FreeCells, Available
  <2>2. PICK i \in Available(S) :
          StartsRun(S, i) /\ S[i].offset <= c /\ c < RunEnd(S, i)
    BY <2>1, RunStartExists
  <2>3. i \in DOMAIN Merged(S) /\ S[i].kind = "Available"
    BY <2>2, MergedShape DEF Available
  <2>4. CellsOf(Merged(S)[i]) = S[i].offset .. (RunEnd(S, i) - 1)
    BY <2>3, MergedShape
  <2>5. S[i].offset \in Nat /\ RunEnd(S, i) \in Int /\ c \in Int
    BY <2>2, RunEndProperty, ReturnValueAssumption
    DEF Available, Typed, Slot, LocalBase, AreaEnd, ReturnValueStart
  <2> QED BY <2>2, <2>3, <2>4, <2>5
<1> QED BY <1>3, <1>4

\* After mergeAvailableSlots no free slot ends where another begins.
LEMMA MergedApart ==
  ASSUME area \in Nat, NEW S, Typed(S), Inside(S)
  PROVE  Apart(Merged(S))
<1> DEFINE M == Merged(S)
<1>1. SUFFICES ASSUME NEW i \in Available(M), NEW j \in Available(M),
                      M[i].offset + M[i].size = M[j].offset
               PROVE  FALSE
  BY DEF Apart
<1>2. /\ i \in Available(S) /\ j \in Available(S) /\ StartsRun(S, j)
      /\ i \in DOMAIN M /\ j \in DOMAIN M
  BY MergedShape DEF Available
<1>3. /\ M[i] = FreeSlot(S[i].offset, RunEnd(S, i) - S[i].offset)
      /\ M[j] = FreeSlot(S[j].offset, RunEnd(S, j) - S[j].offset)
  BY <1>2, MergedShape DEF Available
<1>4. S[i].offset \in Nat /\ S[i].size \in Nat \ {0} /\ S[j].offset \in Nat
  BY <1>2 DEF Available, Typed, Slot
<1>5. RunEnd(S, i) \in Int /\ RunEnd(S, i) >= S[i].offset + S[i].size
  BY <1>2, <1>4, RunEndProperty
<1>6. RunEnd(S, i) = S[j].offset
  BY <1>1, <1>3, <1>4, <1>5 DEF FreeSlot
<1>7. S[j].offset - 1 \in S[i].offset .. (RunEnd(S, i) - 1)
  BY <1>4, <1>5, <1>6
<1>8. S[j].offset - 1 \in FreeCells(S)
  BY <1>2, <1>7, RunEndProperty
<1> QED BY <1>2, <1>8 DEF StartsRun

----------------------------------------------------------------------------
(* What allocSlot does to the tiling, one lemma for each way it serves a    *)
(* request.                                                                 *)

\* Slots that share no cell lie one before the other.
LEMMA CellsApart ==
  ASSUME NEW s \in Slot, NEW t \in Slot
  PROVE  CellsOf(s) \cap CellsOf(t) = {}
           <=> (s.offset + s.size <= t.offset \/ t.offset + t.size <= s.offset)
<1>1. /\ s.offset \in Nat /\ s.size \in Nat \ {0}
      /\ t.offset \in Nat /\ t.size \in Nat \ {0}
  BY DEF Slot
<1>2. ASSUME s.offset + s.size <= t.offset \/ t.offset + t.size <= s.offset
      PROVE  CellsOf(s) \cap CellsOf(t) = {}
  BY <1>1, <1>2 DEF CellsOf
<1>3. ASSUME ~ (s.offset + s.size <= t.offset), ~ (t.offset + t.size <= s.offset)
      PROVE  CellsOf(s) \cap CellsOf(t) # {}
  <2>1. CASE s.offset <= t.offset
    <3>1. t.offset \in CellsOf(s) /\ t.offset \in CellsOf(t)
      BY <1>1, <1>3, <2>1 DEF CellsOf
    <3> QED BY <3>1
  <2>2. CASE t.offset <= s.offset
    <3>1. s.offset \in CellsOf(s) /\ s.offset \in CellsOf(t)
      BY <1>1, <1>3, <2>2 DEF CellsOf
    <3> QED BY <3>1
  <2> QED BY <1>1, <2>1, <2>2
<1> QED BY <1>2, <1>3

\* The part of TypeOK that is about the vector.
SlotsTyped ==
  /\ DOMAIN slots \subseteq 1 .. (next - 1)
  /\ Typed(slots)
  /\ next \in Nat \ {0}
  /\ area \in Nat

\* Everything the frame's layout promises.
Layout == SlotsTyped /\ Disjoint(slots) /\ Inside(slots) /\ Covers(slots) /\ Apart(slots)

\* What a request leaves alone: the live slots, and the reserved extent.
Keeps ==
  /\ area' >= area
  /\ DOMAIN slots \subseteq DOMAIN slots'
  /\ \A i \in DOMAIN slots : slots[i].kind # "Available" => slots'[i] = slots[i]

\* What a request adds: one live slot, and perhaps a free remainder.
Adds(kind) ==
  \A i \in DOMAIN slots' :
    \/ i \in DOMAIN slots /\ slots'[i] = slots[i]
    \/ slots'[i].kind = kind /\ slots'[i].scope = IF kind = "Cache" THEN FunctionLevel ELSE CurrentScope
    \/ slots'[i].kind = "Available" /\ slots'[i].scope = FunctionLevel

\* What allocSlot hands out is a slot.
LEMMA NewSlotTyped ==
  ASSUME CurrentScope \in Nat, NEW kind \in LiveKinds, NEW o \in Nat, NEW n \in Nat \ {0}
  PROVE  /\ NewSlot(kind, o, n) \in Slot
         /\ NewSlot(kind, o, n).kind # "Available"
         /\ FreeSlot(o, n) \in Slot
BY DEF NewSlot, FreeSlot, Slot, LiveKinds, FunctionLevel

\* Reusing a hole, whole or in part, keeps the tiling and pins what is in use.
LEMMA TakeHoleKeepsLayout ==
  ASSUME Layout, CurrentScope \in Nat, NEW kind \in LiveKinds, NEW n \in Nat \ {0},
         NEW near, TakeHole(kind, n, near)
  PROVE  Layout' /\ Keeps /\ Adds(kind)
<1> USE DEF Layout
<1>1. PICK i \in DOMAIN slots :
        /\ Selected(i, n, near)
        /\ LET hole == slots[i] IN
             IF hole.size = n
             THEN /\ slots' = [slots EXCEPT ![i] = NewSlot(kind, hole.offset, n)]
                  /\ UNCHANGED next
             ELSE /\ next <= MaxObjects
                  /\ slots' = [j \in DOMAIN slots \cup {next} |->
                                 IF j = i THEN NewSlot(kind, hole.offset, n)
                                 ELSE IF j = next THEN FreeSlot(hole.offset + n, hole.size - n)
                                 ELSE slots[j]]
                  /\ next' = next + 1
  BY DEF TakeHole
<1> DEFINE hole == slots[i]
<1>2. hole \in Slot /\ hole.kind = "Available" /\ hole.size >= n
  BY <1>1 DEF Selected, BestFitting, Fitting, Available, SlotsTyped, Typed
<1>3. hole.offset \in Nat /\ hole.size \in Nat \ {0}
  BY <1>2 DEF Slot
<1>4. area' = area /\ AreaEnd' = AreaEnd /\ LocalBase' = LocalBase
  BY DEF TakeHole, AreaEnd, LocalBase
<1>5. next \notin DOMAIN slots /\ next \in Nat \ {0}
  BY DEF SlotsTyped
<1>6. CASE hole.size = n
  <2>1. DOMAIN slots' = DOMAIN slots /\ next' = next
    BY <1>1, <1>6
  <2>2. slots'[i] = NewSlot(kind, hole.offset, n)
    BY <1>1, <1>6
  <2>3. \A j \in DOMAIN slots : j # i => slots'[j] = slots[j]
    BY <1>1, <1>6
  <2>4. \A j \in DOMAIN slots :
          slots'[j] \in Slot /\ slots'[j].offset = slots[j].offset /\ slots'[j].size = slots[j].size
    BY <1>3, <1>6, <2>2, <2>3, NewSlotTyped DEF NewSlot, SlotsTyped, Typed
  <2>5. \A j \in DOMAIN slots : CellsOf(slots'[j]) = CellsOf(slots[j])
    BY <2>4 DEF CellsOf
  <2>6. SlotsTyped'
    BY <1>4, <2>1, <2>4 DEF SlotsTyped, Typed
  <2>7. Disjoint(slots)' /\ Covers(slots)'
    BY <1>4, <2>1, <2>5 DEF Disjoint, Covers
  <2>8. Inside(slots)'
    BY <1>4, <2>1, <2>4 DEF Inside
  <2>9. Available(slots') \subseteq Available(slots)
    BY <1>3, <2>1, <2>2, <2>3, NewSlotTyped DEF Available
  <2>10. Apart(slots)'
    BY <2>1, <2>4, <2>9 DEF Apart, Available
  <2>11. Keeps /\ Adds(kind)
    BY <1>2, <1>4, <2>1, <2>2, <2>3 DEF Keeps, Adds, NewSlot, SlotsTyped
  <2> QED BY <2>6, <2>7, <2>8, <2>10, <2>11
<1>7. CASE hole.size # n
  <2> DEFINE rest == FreeSlot(hole.offset + n, hole.size - n)
             taken == NewSlot(kind, hole.offset, n)
  <2>1. DOMAIN slots' = DOMAIN slots \cup {next} /\ next' = next + 1
    BY <1>1, <1>7
  <2>2. slots'[i] = taken /\ slots'[next] = rest
    BY <1>1, <1>5, <1>7
  <2>3. \A j \in DOMAIN slots : j # i => slots'[j] = slots[j]
    BY <1>1, <1>5, <1>7
  <2>4. /\ taken \in Slot /\ taken.offset = hole.offset /\ taken.size = n
        /\ taken.kind # "Available"
        /\ rest \in Slot /\ rest.offset = hole.offset + n /\ rest.size = hole.size - n
        /\ hole.size - n \in Nat \ {0}
    <3>1. hole.size - n \in Nat \ {0} /\ hole.offset + n \in Nat
      BY <1>2, <1>3, <1>7
    <3> QED BY <1>3, <3>1, NewSlotTyped DEF NewSlot, FreeSlot
  <2>5. SlotsTyped'
    BY <1>4, <1>5, <2>1, <2>2, <2>3, <2>4 DEF SlotsTyped, Typed
  <2>6. \A j \in DOMAIN slots : j # i =>
          \/ slots[j].offset + slots[j].size <= hole.offset
          \/ hole.offset + hole.size <= slots[j].offset
    BY <1>2, CellsApart DEF Disjoint, SlotsTyped, Typed
  <2>7. \A j \in DOMAIN slots :
          slots[j] \in Slot /\ slots[j].offset \in Nat /\ slots[j].size \in Nat \ {0}
    BY DEF SlotsTyped, Typed, Slot
  <2>8. Disjoint(slots')
    <3>1. CellsOf(taken) \cap CellsOf(rest) = {}
      BY <1>3, <2>4, CellsApart
    <3>2. \A j \in DOMAIN slots : j # i =>
            CellsOf(slots[j]) \cap CellsOf(taken) = {} /\ CellsOf(slots[j]) \cap CellsOf(rest) = {}
      <4>1. SUFFICES ASSUME NEW j \in DOMAIN slots, j # i
                     PROVE  CellsOf(slots[j]) \cap CellsOf(taken) = {} /\ CellsOf(slots[j]) \cap CellsOf(rest) = {}
        OBVIOUS
      <4>2. /\ slots[j].offset + slots[j].size <= hole.offset \/ hole.offset + n <= slots[j].offset
            /\ slots[j].offset + slots[j].size <= hole.offset + n
                 \/ (hole.offset + n) + (hole.size - n) <= slots[j].offset
        BY <1>2, <1>3, <2>6, <2>7, <4>1
      <4> HIDE DEF taken, rest, hole
      <4> QED BY <2>4, <2>7, <4>2, CellsApart
    <3> HIDE DEF taken, rest, hole
    <3> QED BY <1>5, <2>1, <2>2, <2>3, <3>1, <3>2 DEF Disjoint
  <2>9. Inside(slots)'
    <3>1. LocalBase <= hole.offset /\ hole.offset + hole.size <= AreaEnd
          /\ LocalBase \in Int /\ AreaEnd \in Int
      BY ReturnValueAssumption DEF Inside, LocalBase, AreaEnd, SlotsTyped, ReturnValueStart
    <3>2. /\ hole.offset + n <= AreaEnd
          /\ LocalBase <= hole.offset + n
          /\ (hole.offset + n) + (hole.size - n) <= AreaEnd
      BY <1>2, <1>3, <3>1
    <3> HIDE DEF taken, rest, hole
    <3> QED BY <1>4, <2>1, <2>2, <2>3, <2>4, <3>1, <3>2 DEF Inside
  <2>10. Covers(slots)'
    <3>1. CellsOf(hole) \subseteq CellsOf(taken) \cup CellsOf(rest)
      BY <1>3, <2>4 DEF CellsOf
    <3> HIDE DEF taken, rest, hole
    <3>2. SUFFICES ASSUME NEW c \in LocalBase .. (AreaEnd - 1)
                   PROVE  \E j \in DOMAIN slots' : c \in CellsOf(slots'[j])
      BY <1>4 DEF Covers
    <3>3. PICK j \in DOMAIN slots : c \in CellsOf(slots[j])
      BY DEF Covers
    <3>4. CASE j = i
      BY <2>1, <2>2, <3>1, <3>3, <3>4 DEF hole
    <3> QED BY <2>1, <2>3, <3>3, <3>4
  <2>11. Apart(slots')
    <3>1. SUFFICES ASSUME NEW j \in Available(slots'), NEW k \in Available(slots'),
                          slots'[j].offset + slots'[j].size = slots'[k].offset
                   PROVE  FALSE
      BY DEF Apart
    <3>2. /\ j = next \/ (j \in Available(slots) /\ j # i /\ slots'[j] = slots[j])
          /\ k = next \/ (k \in Available(slots) /\ k # i /\ slots'[k] = slots[k])
      BY <1>5, <2>1, <2>2, <2>3, <2>4 DEF Available
    <3>3. i \in Available(slots) /\ (hole.offset + n) + (hole.size - n) = hole.offset + hole.size
      BY <1>2, <1>3 DEF Available
    <3> HIDE DEF taken, rest, hole
    <3>4. CASE j = next /\ k = next
      BY <1>2, <1>3, <2>2, <2>4, <3>1, <3>4
    <3>5. CASE j = next /\ k # next
      <4>1. hole.offset + hole.size = slots[k].offset
        BY <2>2, <2>4, <3>1, <3>2, <3>3, <3>5
      <4> QED BY <3>2, <3>3, <3>5, <4>1 DEF Apart, hole
    <3>6. CASE j # next /\ k = next
      <4>1. slots[j].offset + slots[j].size = hole.offset + n /\ j \in DOMAIN slots /\ j # i
        BY <2>2, <2>4, <3>1, <3>2, <3>6 DEF Available
      <4> QED BY <1>2, <1>3, <2>6, <2>7, <4>1
    <3>7. CASE j # next /\ k # next
      BY <3>1, <3>2, <3>7 DEF Apart
    <3> QED BY <3>4, <3>5, <3>6, <3>7
  <2>12. Keeps /\ Adds(kind)
    BY <1>2, <1>4, <1>5, <2>1, <2>2, <2>3 DEF Keeps, Adds, NewSlot, FreeSlot, SlotsTyped
  <2> QED BY <1>4, <2>5, <2>8, <2>9, <2>10, <2>11, <2>12 DEF Disjoint, Apart
<1> QED BY <1>6, <1>7

\* Growing the free slot at the end keeps the tiling and pins what is in use.
LEMMA GrowTailKeepsLayout ==
  ASSUME Layout, CurrentScope \in Nat, NEW kind \in LiveKinds, NEW n \in Nat \ {0},
         GrowTail(kind, n)
  PROVE  Layout' /\ Keeps /\ Adds(kind)
<1> USE DEF Layout
<1>1. PICK i \in FreeTails :
        /\ area' = area + n - slots[i].size
        /\ slots' = [slots EXCEPT ![i] = NewSlot(kind, slots[i].offset, n)]
  BY DEF GrowTail
<1> DEFINE tail == slots[i]
           taken == NewSlot(kind, tail.offset, n)
<1>2. /\ i \in DOMAIN slots /\ i \in Available(slots) /\ tail \in Slot /\ tail.kind = "Available"
      /\ tail.offset \in Nat /\ tail.size \in Nat \ {0}
      /\ tail.offset + tail.size = AreaEnd
  BY <1>1 DEF FreeTails, Available, SlotsTyped, Typed, Slot
<1>3. tail.size < n
  BY <1>2 DEF GrowTail, Fitting
<1>4. /\ LocalBase \in Nat /\ AreaEnd = LocalBase + area /\ LocalBase' = LocalBase
      /\ AreaEnd' = LocalBase + area'
  BY ReturnValueAssumption DEF LocalBase, AreaEnd, ReturnValueStart
<1>5. area' \in Nat /\ area' > area /\ AreaEnd' = tail.offset + n /\ AreaEnd <= AreaEnd'
  BY <1>1, <1>2, <1>3, <1>4 DEF SlotsTyped
<1>6. DOMAIN slots' = DOMAIN slots /\ next' = next /\ slots'[i] = taken
  BY <1>1, <1>2 DEF GrowTail
<1>7. \A j \in DOMAIN slots : j # i => slots'[j] = slots[j]
  BY <1>1
<1>8. taken \in Slot /\ taken.offset = tail.offset /\ taken.size = n /\ taken.kind # "Available"
  BY <1>2, NewSlotTyped DEF NewSlot
<1>9. \A j \in DOMAIN slots :
        slots[j] \in Slot /\ slots[j].offset \in Nat /\ slots[j].size \in Nat \ {0}
  BY DEF SlotsTyped, Typed, Slot
<1>10. \A j \in DOMAIN slots : j # i => slots[j].offset + slots[j].size <= tail.offset
  <2>1. SUFFICES ASSUME NEW j \in DOMAIN slots, j # i
                 PROVE  slots[j].offset + slots[j].size <= tail.offset
    OBVIOUS
  <2>2. \/ slots[j].offset + slots[j].size <= tail.offset
        \/ tail.offset + tail.size <= slots[j].offset
    BY <1>2, <1>9, <2>1, CellsApart DEF Disjoint
  <2>3. slots[j].offset + slots[j].size <= AreaEnd
    BY DEF Inside
  <2> QED BY <1>2, <1>9, <2>2, <2>3
<1> HIDE DEF tail, taken
<1>11. SlotsTyped'
  BY <1>5, <1>6, <1>7, <1>8 DEF SlotsTyped, Typed
<1>12. Disjoint(slots')
  <2>1. \A j \in DOMAIN slots : j # i => CellsOf(slots[j]) \cap CellsOf(taken) = {}
    BY <1>8, <1>9, <1>10, CellsApart
  <2> QED BY <1>6, <1>7, <2>1 DEF Disjoint
<1>13. Inside(slots)'
  <2>1. LocalBase <= tail.offset
    BY <1>2 DEF Inside, tail
  <2>2. \A j \in DOMAIN slots : j # i =>
          LocalBase <= slots[j].offset /\ slots[j].offset + slots[j].size <= AreaEnd'
    BY <1>2, <1>4, <1>5, <1>9 DEF Inside, SlotsTyped
  <2> QED BY <1>4, <1>5, <1>6, <1>7, <1>8, <2>1, <2>2 DEF Inside
<1>14. Covers(slots)'
  <2>1. SUFFICES ASSUME NEW c \in LocalBase .. (AreaEnd' - 1)
                 PROVE  \E j \in DOMAIN slots' : c \in CellsOf(slots'[j])
    BY <1>4 DEF Covers
  <2>2. c \in Int /\ AreaEnd \in Int /\ AreaEnd' \in Int
    BY <1>4, <1>5 DEF SlotsTyped
  <2>3. CASE c >= tail.offset
    <3>1. c \in CellsOf(taken)
      BY <1>2, <1>5, <1>8, <2>2, <2>3, <2>1 DEF CellsOf
    <3> QED BY <1>2, <1>6, <3>1
  <2>4. CASE c < tail.offset
    <3>1. c \in LocalBase .. (AreaEnd - 1)
      BY <1>2, <1>4, <2>1, <2>2, <2>4
    <3>2. PICK j \in DOMAIN slots : c \in CellsOf(slots[j])
      BY <3>1 DEF Covers
    <3>3. j # i
      BY <1>2, <2>4, <3>2 DEF CellsOf, tail
    <3> QED BY <1>6, <1>7, <3>2, <3>3
  <2> QED BY <1>2, <2>2, <2>3, <2>4
<1>15. Apart(slots')
  <2>1. \A j \in Available(slots') : j \in Available(slots) /\ slots'[j] = slots[j]
    BY <1>6, <1>7, <1>8 DEF Available
  <2> QED BY <2>1 DEF Apart
<1>16. Keeps /\ Adds(kind)
  BY <1>2, <1>5, <1>6, <1>7 DEF Keeps, Adds, NewSlot, SlotsTyped, tail, taken
<1> QED BY <1>11, <1>12, <1>13, <1>14, <1>15, <1>16 DEF Disjoint, Apart

\* Appending a slot keeps the tiling and pins what is in use.
LEMMA AppendSlotKeepsLayout ==
  ASSUME Layout, CurrentScope \in Nat, NEW kind \in LiveKinds, NEW n \in Nat \ {0},
         AppendSlot(kind, n)
  PROVE  Layout' /\ Keeps /\ Adds(kind)
<1> USE DEF Layout
<1> DEFINE taken == NewSlot(kind, AreaEnd, n)
<1>1. /\ slots' = [j \in DOMAIN slots \cup {next} |-> IF j = next THEN taken ELSE slots[j]]
      /\ next' = next + 1 /\ area' = area + n
  BY DEF AppendSlot
<1>2. next \notin DOMAIN slots /\ next \in Nat \ {0} /\ area \in Nat
  BY DEF SlotsTyped
<1>3. /\ LocalBase \in Nat /\ AreaEnd = LocalBase + area /\ LocalBase' = LocalBase
      /\ AreaEnd \in Nat /\ AreaEnd' = AreaEnd + n
  BY <1>1, <1>2, ReturnValueAssumption DEF LocalBase, AreaEnd, ReturnValueStart
<1>4. taken \in Slot /\ taken.offset = AreaEnd /\ taken.size = n /\ taken.kind # "Available"
  BY <1>3, NewSlotTyped DEF NewSlot
<1>5. DOMAIN slots' = DOMAIN slots \cup {next} /\ slots'[next] = taken
  BY <1>1
<1>6. \A j \in DOMAIN slots : slots'[j] = slots[j]
  BY <1>1, <1>2
<1>7. \A j \in DOMAIN slots :
        /\ slots[j] \in Slot /\ slots[j].offset \in Nat /\ slots[j].size \in Nat \ {0}
        /\ LocalBase <= slots[j].offset /\ slots[j].offset + slots[j].size <= AreaEnd
  BY DEF SlotsTyped, Typed, Slot, Inside
<1> HIDE DEF taken
<1>8. SlotsTyped'
  BY <1>1, <1>2, <1>4, <1>5, <1>6 DEF SlotsTyped, Typed
<1>9. Disjoint(slots')
  <2>1. \A j \in DOMAIN slots : CellsOf(slots[j]) \cap CellsOf(taken) = {}
    BY <1>4, <1>7, CellsApart
  <2> QED BY <1>2, <1>5, <1>6, <2>1 DEF Disjoint
<1>10. Inside(slots)'
  <2>1. \A j \in DOMAIN slots : slots[j].offset + slots[j].size <= AreaEnd'
    BY <1>3, <1>7
  <2> QED BY <1>2, <1>3, <1>4, <1>5, <1>6, <1>7, <2>1 DEF Inside
<1>11. Covers(slots)'
  <2>1. SUFFICES ASSUME NEW c \in LocalBase .. (AreaEnd' - 1)
                 PROVE  \E j \in DOMAIN slots' : c \in CellsOf(slots'[j])
    BY <1>3 DEF Covers
  <2>2. CASE c >= AreaEnd
    <3>1. c \in CellsOf(taken)
      BY <1>3, <1>4, <2>1, <2>2 DEF CellsOf
    <3> QED BY <1>5, <3>1
  <2>3. CASE c < AreaEnd
    <3>1. c \in LocalBase .. (AreaEnd - 1)
      BY <1>3, <2>1, <2>3
    <3> QED BY <1>5, <1>6, <3>1 DEF Covers
  <2> QED BY <1>3, <2>1, <2>2, <2>3
<1>12. Apart(slots')
  <2>1. \A j \in Available(slots') : j \in Available(slots) /\ slots'[j] = slots[j]
    BY <1>4, <1>5, <1>6 DEF Available
  <2> QED BY <2>1 DEF Apart
<1>13. Keeps /\ Adds(kind)
  BY <1>1, <1>2, <1>5, <1>6 DEF Keeps, Adds, NewSlot, taken
<1> QED BY <1>8, <1>9, <1>10, <1>11, <1>12, <1>13 DEF Disjoint, Apart

\* Whichever way allocSlot takes, the tiling is kept and what is in use is pinned.
LEMMA AllocKeepsLayout ==
  ASSUME Layout, CurrentScope \in Nat, NEW kind \in LiveKinds, NEW n \in Nat \ {0},
         NEW near, AllocSlot(kind, n, near)
  PROVE  Layout' /\ Keeps /\ Adds(kind)
BY TakeHoleKeepsLayout, GrowTailKeepsLayout, AppendSlotKeepsLayout DEF AllocSlot

\* Freeing a set of slots frees those and changes no other live slot.
LEMMA FreeKeepsLayout ==
  ASSUME Layout, NEW freed, FreeAll(freed), UNCHANGED <<next, area>>
  PROVE  /\ Layout'
         /\ DOMAIN slots' \subseteq DOMAIN slots
         /\ \A i \in DOMAIN slots : slots[i].kind # "Available" /\ i \notin freed =>
              i \in DOMAIN slots' /\ slots'[i] = slots[i]
         /\ \A i \in DOMAIN slots' :
              \/ i \notin freed /\ slots[i].kind # "Available" /\ slots'[i] = slots[i]
              \/ slots'[i].kind = "Available" /\ slots'[i].scope = FunctionLevel
<1> DEFINE M == Marked(slots, freed)
<1>1. slots' = Merged(M) /\ AreaEnd' = AreaEnd /\ LocalBase' = LocalBase
  BY DEF FreeAll, AreaEnd, LocalBase
<1>2. area \in Nat /\ Typed(M) /\ Disjoint(M) /\ Inside(M) /\ Covers(M)
  BY MarkedTiled DEF Layout, SlotsTyped
<1>3. /\ Typed(Merged(M)) /\ Inside(Merged(M)) /\ Disjoint(Merged(M))
      /\ Covers(Merged(M)) /\ Apart(Merged(M))
  BY <1>2, MergedTyped, MergedDisjoint, MergedCovers, MergedApart
<1>4. DOMAIN M = DOMAIN slots
  BY DEF Marked
<1>5. \A i \in DOMAIN slots :
        M[i] = IF i \in freed THEN FreeSlot(slots[i].offset, slots[i].size) ELSE slots[i]
  BY DEF Marked
<1> HIDE DEF M
<1>6. /\ DOMAIN Merged(M) \subseteq DOMAIN slots
      /\ \A i \in DOMAIN slots : M[i].kind # "Available" =>
           i \in DOMAIN Merged(M) /\ Merged(M)[i] = M[i]
      /\ \A i \in DOMAIN Merged(M) : M[i].kind # "Available" \/
           Merged(M)[i] = FreeSlot(M[i].offset, RunEnd(M, i) - M[i].offset)
  BY <1>2, <1>4, MergedShape
<1>7. Layout'
  <2>1. SlotsTyped'
    BY <1>1, <1>3, <1>6 DEF Layout, SlotsTyped, Typed
  <2>2. (Inside(slots) /\ Covers(slots) /\ Disjoint(slots) /\ Apart(slots))'
    BY <1>1, <1>3 DEF Inside, Covers, Disjoint, Apart
  <2> QED BY <2>1, <2>2 DEF Layout
<1>8. \A i \in DOMAIN slots : slots[i].kind # "Available" /\ i \notin freed =>
        i \in DOMAIN slots' /\ slots'[i] = slots[i]
  BY <1>1, <1>5, <1>6
<1>9. \A i \in DOMAIN slots' :
        \/ i \notin freed /\ slots[i].kind # "Available" /\ slots'[i] = slots[i]
        \/ slots'[i].kind = "Available" /\ slots'[i].scope = FunctionLevel
  <2>1. SUFFICES ASSUME NEW i \in DOMAIN slots'
                 PROVE  \/ i \notin freed /\ slots[i].kind # "Available" /\ slots'[i] = slots[i]
                        \/ slots'[i].kind = "Available" /\ slots'[i].scope = FunctionLevel
    OBVIOUS
  <2>2. CASE M[i].kind # "Available"
    <3>1. i \in DOMAIN slots /\ slots'[i] = M[i]
      BY <1>1, <1>6, <2>2
    <3>2. ASSUME i \in freed PROVE FALSE
      <4>1. M[i] = FreeSlot(slots[i].offset, slots[i].size)
        BY <1>5, <3>1, <3>2
      <4> QED BY <2>2, <4>1 DEF FreeSlot
    <3>3. M[i] = slots[i]
      BY <1>5, <3>1, <3>2
    <3> QED BY <2>2, <3>1, <3>2, <3>3
  <2>3. CASE M[i].kind = "Available"
    BY <1>1, <1>6, <2>3 DEF FreeSlot
  <2> QED BY <2>2, <2>3
<1> QED BY <1>1, <1>6, <1>7, <1>8, <1>9

----------------------------------------------------------------------------
(* The invariant.  Layout is preserved by allocSlot and by the merge; the   *)
(* other two parts say who owns what while a scope is left: everything a    *)
(* scope owns is doomed when the flush begins, and during the flush a scope *)
(* can only gain temporaries.                                               *)

Variables == 
  /\ scopes \in Seq(Nat \ {0})
  /\ lastScope \in Nat
  /\ doomed \subseteq OfKind(slots, "Local") \cup OfKind(slots, "Temp")
  /\ phase \in {"body", "closing", "ended", "meta"}

Ownership ==
  /\ \A i \in OfKind(slots, "Available") \cup OfKind(slots, "Cache") :
       slots[i].scope = FunctionLevel
  /\ phase # "closing" => doomed = {}
  /\ phase = "closing" =>
       /\ scopes # <<>>
       /\ \A i \in OfKind(slots, "Local") : slots[i].scope = CurrentScope => i \in doomed

IInv == Layout /\ Variables /\ Ownership /\ OwnersOpen

\* The current scope is a rank, or the function level.
LEMMA ScopeIsNat == Variables => CurrentScope \in Nat
<1>1. ASSUME Variables PROVE CurrentScope \in Nat
  <2>1. CASE scopes = <<>>
    BY <2>1 DEF CurrentScope, FunctionLevel
  <2>2. CASE scopes # <<>>
    <3>1. scopes \in Seq(Nat \ {0}) /\ Len(scopes) \in 1 .. Len(scopes)
      BY <1>1, <2>2 DEF Variables
    <3>2. scopes[Len(scopes)] \in Nat \ {0}
      BY <3>1
    <3> QED BY <2>2, <3>2 DEF CurrentScope
  <2> QED BY <2>1, <2>2
<1> QED BY <1>1

\* A step that allocates keeps the invariant.
LEMMA AllocKeepsInvariant ==
  ASSUME IInv, NEW kind \in LiveKinds, NEW n \in Nat \ {0}, NEW near,
         AllocSlot(kind, n, near), kind = "Local" => phase = "body",
         UNCHANGED <<scopes, lastScope, doomed, phase>>
  PROVE  IInv'
<1>1. CurrentScope \in Nat /\ CurrentScope' = CurrentScope
  BY ScopeIsNat DEF IInv, CurrentScope
<1>2. Layout' /\ Keeps /\ Adds(kind)
  BY <1>1, AllocKeepsLayout DEF IInv
<1>3. Variables'
  BY <1>2 DEF IInv, Variables, Keeps, OfKind
<1>4. Ownership'
  BY <1>1, <1>2 DEF IInv, Ownership, Adds, OfKind, Keeps, LiveKinds
<1>5. CurrentScope = FunctionLevel \/ \E d \in DOMAIN scopes : scopes[d] = CurrentScope
  BY DEF CurrentScope, IInv, Variables
<1>6. OwnersOpen'
  BY <1>2, <1>5 DEF IInv, OwnersOpen, Adds, OfKind
<1> QED BY <1>2, <1>3, <1>4, <1>6 DEF IInv

\* A step that frees slots that are not doomed keeps the invariant.
LEMMA FreeKeepsInvariant ==
  ASSUME IInv, NEW freed, freed \cap doomed = {}, FreeAll(freed),
         UNCHANGED <<next, area, scopes, lastScope, doomed>>,
         phase' \in {"body", "closing", "ended", "meta"}, phase' = "closing" <=> phase = "closing"
  PROVE  IInv'
<1>1. /\ Layout'
      /\ DOMAIN slots' \subseteq DOMAIN slots
      /\ \A i \in DOMAIN slots : slots[i].kind # "Available" /\ i \notin freed =>
           i \in DOMAIN slots' /\ slots'[i] = slots[i]
      /\ \A i \in DOMAIN slots' :
           \/ i \notin freed /\ slots[i].kind # "Available" /\ slots'[i] = slots[i]
           \/ slots'[i].kind = "Available" /\ slots'[i].scope = FunctionLevel
  BY FreeKeepsLayout DEF IInv
<1>2. CurrentScope' = CurrentScope
  BY DEF CurrentScope
<1>3. Variables'
  BY <1>1 DEF IInv, Variables, OfKind
<1>4. Ownership'
  BY <1>1, <1>2 DEF IInv, Ownership, OfKind
<1>5. OwnersOpen'
  BY <1>1 DEF IInv, OwnersOpen, OfKind
<1> QED BY <1>1, <1>3, <1>4, <1>5 DEF IInv

\* A step that leaves the vector alone keeps the layout.
LEMMA LayoutUnchanged ==
  ASSUME Layout, UNCHANGED <<slots, next, area>>
  PROVE  Layout'
BY DEF Layout, SlotsTyped, Typed, Disjoint, Inside, Covers, Apart, Available, AreaEnd, LocalBase

\* The frame of a new function satisfies the inductive invariant.
THEOREM InitInvariant == Init => IInv
<1> SUFFICES ASSUME Init PROVE IInv
  OBVIOUS
<1>1. DOMAIN slots = {} /\ next = 1 /\ area = 0 /\ AreaEnd = LocalBase /\ LocalBase \in Nat
  BY ReturnValueAssumption DEF Init, AreaEnd, LocalBase, ReturnValueStart
<1>2. Layout
  BY <1>1 DEF Layout, SlotsTyped, Typed, Disjoint, Inside, Covers, Apart, Available
<1>3. Variables /\ Ownership /\ OwnersOpen
  BY <1>1 DEF Init, Variables, Ownership, OwnersOpen, OfKind
<1> QED BY <1>2, <1>3 DEF IInv

\* Every operation of the allocator keeps the inductive invariant.
THEOREM StepInvariant == IInv /\ [Next]_vars => IInv'
<1> SUFFICES ASSUME IInv, [Next]_vars PROVE IInv'
  OBVIOUS
<1> USE DEF IInv
<1>1. ASSUME NEW n \in Sizes, DeclareLocal(n) PROVE IInv'
  BY <1>1, AllocKeepsInvariant, SizesAssumption DEF DeclareLocal, LiveKinds
<1>2. ASSUME NEW n \in Sizes, NEW near \in Hints, GetTemp(n, near) PROVE IInv'
  BY <1>2, AllocKeepsInvariant, SizesAssumption DEF GetTemp, LiveKinds
<1>3. ASSUME NEW n \in Sizes, NEW near \in Hints, GetCache(n, near) PROVE IInv'
  BY <1>3, AllocKeepsInvariant, SizesAssumption DEF GetCache, LiveKinds
<1>4. ASSUME NEW i \in DOMAIN slots, FreeTempSlot(i) PROVE IInv'
  BY <1>4, FreeKeepsInvariant DEF FreeTempSlot, Variables
<1>5. ASSUME NEW i \in DOMAIN slots, FreeCacheSlot(i) PROVE IInv'
  <2>1. {i} \cap doomed = {}
    BY <1>5 DEF FreeCacheSlot, Variables, OfKind
  <2> QED BY <1>5, <2>1, FreeKeepsInvariant DEF FreeCacheSlot, Variables
<1>6. CASE BeginScope
  <2>1. Layout' /\ Variables' /\ Ownership'
    BY <1>6, LayoutUnchanged DEF BeginScope, Variables, Ownership, OfKind
  <2>2. \A d \in DOMAIN scopes : d \in DOMAIN scopes' /\ scopes'[d] = scopes[d]
    BY <1>6 DEF BeginScope, Variables
  <2>3. OwnersOpen'
    BY <1>6, <2>2 DEF BeginScope, OwnersOpen, OfKind
  <2> QED BY <2>1, <2>3
<1>7. ASSUME scopes # <<>>, scopes' = SubSeq(scopes, 1, Len(scopes) - 1),
             \A i \in DOMAIN slots' :
               \/ slots'[i].scope = FunctionLevel
               \/ i \in DOMAIN slots /\ slots'[i] = slots[i] /\ slots[i].scope # CurrentScope
                    /\ slots[i].kind # "Available"
      PROVE  scopes' \in Seq(Nat \ {0}) /\ OwnersOpen'
  <2>1. scopes \in Seq(Nat \ {0}) /\ Len(scopes) \in Nat \ {0}
    BY <1>7 DEF Variables
  <2>2. scopes' \in Seq(Nat \ {0})
    BY <1>7, <2>1
  <2>3. \A d \in DOMAIN scopes : d # Len(scopes) => d \in DOMAIN scopes' /\ scopes'[d] = scopes[d]
    BY <1>7, <2>1
  <2>4. CurrentScope = scopes[Len(scopes)]
    BY <1>7 DEF CurrentScope
  <2>5. SUFFICES ASSUME NEW i \in DOMAIN slots', slots'[i].scope # FunctionLevel
                 PROVE  \E d \in DOMAIN scopes' : scopes'[d] = slots'[i].scope
    BY <2>2 DEF OwnersOpen, OfKind
  <2>6. i \in DOMAIN slots /\ slots'[i] = slots[i] /\ slots[i].scope # CurrentScope
    BY <1>7, <2>5
  <2>7. slots[i].kind \in {"Local", "Temp"}
    BY <2>5, <2>6 DEF Ownership, OfKind, Layout, SlotsTyped, Typed, Slot, LiveKinds
  <2>8. PICK d \in DOMAIN scopes : scopes[d] = slots[i].scope
    BY <2>5, <2>6, <2>7 DEF OwnersOpen, OfKind
  <2> QED BY <2>3, <2>4, <2>6, <2>8
<1>8. CASE EndScope
  <2> DEFINE owned == {i \in DOMAIN slots : slots[i].scope = CurrentScope}
  <2>1. Layout'
    BY <1>8, LayoutUnchanged DEF EndScope
  <2>2. CASE owned = {}
    <3>1. /\ scopes # <<>> /\ scopes' = SubSeq(scopes, 1, Len(scopes) - 1)
          /\ UNCHANGED <<slots, next, area, lastScope, doomed, phase>> /\ phase = "body"
      BY <1>8, <2>2 DEF EndScope
    <3>2. \A i \in DOMAIN slots' :
            \/ slots'[i].scope = FunctionLevel
            \/ i \in DOMAIN slots /\ slots'[i] = slots[i] /\ slots[i].scope # CurrentScope
                 /\ slots[i].kind # "Available"
      BY <2>2, <3>1 DEF Ownership, OfKind
    <3>3. scopes' \in Seq(Nat \ {0}) /\ OwnersOpen'
      BY <1>7, <3>1, <3>2
    <3>4. Variables' /\ Ownership'
      BY <3>1, <3>3 DEF Variables, Ownership, OfKind
    <3> QED BY <2>1, <3>3, <3>4
  <2>3. CASE owned # {}
    <3>1. /\ scopes # <<>> /\ doomed' = owned /\ phase' = "closing"
          /\ UNCHANGED <<slots, next, area, lastScope, scopes>>
      BY <1>8, <2>3 DEF EndScope
    <3>2. CurrentScope \in Nat \ {0}
      <4>1. Len(scopes) \in DOMAIN scopes
        BY <3>1 DEF Variables
      <4> QED BY <3>1, <4>1 DEF CurrentScope, Variables
    <3>3. owned \subseteq OfKind(slots, "Local") \cup OfKind(slots, "Temp")
      BY <3>2 DEF Ownership, OfKind, Layout, SlotsTyped, Typed, Slot, LiveKinds, FunctionLevel
    <3>4. Variables'
      BY <3>1, <3>3 DEF Variables, OfKind
    <3>5. Ownership' /\ OwnersOpen'
      BY <3>1 DEF Ownership, OwnersOpen, OfKind, CurrentScope
    <3> QED BY <2>1, <3>4, <3>5
  <2> QED BY <2>2, <2>3
<1>9. CASE FinishScope
  <2>1. /\ scopes # <<>> /\ scopes' = SubSeq(scopes, 1, Len(scopes) - 1)
        /\ UNCHANGED <<next, area, lastScope>> /\ doomed' = {} /\ phase' = "body"
        /\ FreeAll(doomed) /\ phase = "closing"
    BY <1>9 DEF FinishScope, Ownership
  <2>2. /\ Layout'
        /\ \A i \in DOMAIN slots' :
             \/ i \notin doomed /\ slots[i].kind # "Available" /\ slots'[i] = slots[i]
             \/ slots'[i].kind = "Available" /\ slots'[i].scope = FunctionLevel
        /\ DOMAIN slots' \subseteq DOMAIN slots
    BY <2>1, FreeKeepsLayout
  <2>3. \A i \in DOMAIN slots' :
          \/ slots'[i].scope = FunctionLevel
          \/ i \in DOMAIN slots /\ slots'[i] = slots[i] /\ slots[i].scope # CurrentScope
               /\ slots[i].kind # "Available"
    <3>1. SUFFICES ASSUME NEW i \in DOMAIN slots, i \notin doomed,
                          slots[i].kind # "Available", slots[i].scope # FunctionLevel
                   PROVE  slots[i].scope # CurrentScope
      BY <2>2
    <3>2. i \in OfKind(slots, "Local") \cup OfKind(slots, "Temp")
      BY <3>1 DEF Ownership, OfKind, Layout, SlotsTyped, Typed, Slot, LiveKinds
    <3> QED BY <1>9, <2>1, <3>1, <3>2 DEF FinishScope, Ownership
  <2>4. scopes' \in Seq(Nat \ {0}) /\ OwnersOpen'
    BY <1>7, <2>1, <2>3
  <2>5. Variables' /\ Ownership'
    BY <2>1, <2>2, <2>4 DEF Variables, Ownership, OfKind
  <2> QED BY <2>2, <2>4, <2>5
<1>10. CASE EndFunction
  <2>1. OfKind(slots, "Temp") \cap doomed = {}
    BY <1>10 DEF EndFunction, Ownership
  <2> QED BY <1>10, <2>1, FreeKeepsInvariant DEF EndFunction
<1>11. CASE BeginMetaBlock \/ EndMetaBlock \/ UNCHANGED vars
  <2>1. Layout'
    BY <1>11, LayoutUnchanged DEF BeginMetaBlock, EndMetaBlock, vars
  <2>2. Variables' /\ Ownership' /\ OwnersOpen'
    BY <1>11 DEF BeginMetaBlock, EndMetaBlock, vars, Variables, Ownership, OwnersOpen, OfKind, CurrentScope
  <2> QED BY <2>1, <2>2
<1> QED BY <1>1, <1>2, <1>3, <1>4, <1>5, <1>6, <1>8, <1>9, <1>10, <1>11 DEF Next

\* The inductive invariant implies the invariants that the runs check.
LEMMA InvariantImplies == IInv => TypeOK /\ Tiling /\ Coalesced /\ OwnersOpen
<1> SUFFICES ASSUME IInv PROVE TypeOK /\ Tiling /\ Coalesced /\ OwnersOpen
  OBVIOUS
<1>1. TypeOK
  BY DEF IInv, Layout, SlotsTyped, Typed, Variables, TypeOK, OfKind
<1>2. Tiling
  BY DEF IInv, Layout, Disjoint, Inside, Covers, Tiling, SlotsDisjoint, SlotsInsideArea, AreaCovered
<1>3. Coalesced
  BY DEF IInv, Layout, Apart, Coalesced
<1> QED BY <1>1, <1>2, <1>3 DEF IInv

----------------------------------------------------------------------------
(* What localAreaSize() sums up. *)

\* The cells of some of the slots.
CellsIn(s) == UNION {CellsOf(slots[i]) : i \in s}

\* Slots that share no cell take as many cells as each of them takes.
LEMMA CellsAdd ==
  ASSUME area \in Nat, Typed(slots), Disjoint(slots), Inside(slots),
         NEW s \in SUBSET DOMAIN slots, NEW x \in s
  PROVE  /\ Cardinality(CellsIn(s)) = slots[x].size + Cardinality(CellsIn(s \ {x}))
         /\ Cardinality(CellsIn(s)) \in Nat
<1>1. LocalBase \in Int /\ AreaEnd \in Int
  BY ReturnValueAssumption DEF LocalBase, AreaEnd, ReturnValueStart
<1>2. IsFiniteSet(LocalBase .. (AreaEnd - 1))
  BY <1>1, FS_Interval
<1>3. \A i \in DOMAIN slots : CellsOf(slots[i]) \subseteq LocalBase .. (AreaEnd - 1)
  BY <1>1 DEF Typed, Slot, Inside, CellsOf
<1>4. CellsIn(s \ {x}) \in SUBSET (LocalBase .. (AreaEnd - 1)) /\ CellsOf(slots[x]) \in SUBSET (LocalBase .. (AreaEnd - 1))
  BY <1>3 DEF CellsIn
<1>5. IsFiniteSet(CellsIn(s \ {x})) /\ IsFiniteSet(CellsOf(slots[x]))
  BY <1>2, <1>4, FS_Subset, Zenon
<1>6. Cardinality(CellsOf(slots[x])) = slots[x].size /\ slots[x].size \in Nat
  <2>1. PICK o \in Nat, z \in Nat \ {0} : slots[x].offset = o /\ slots[x].size = z
    BY DEF Typed, Slot
  <2>2. CellsOf(slots[x]) = o .. (o + z - 1)
    BY <2>1 DEF CellsOf
  <2>3. Cardinality(o .. (o + z - 1)) = z
    BY FS_Interval
  <2> QED
    BY <2>1, <2>2, <2>3
<1>7. CellsIn(s) = CellsOf(slots[x]) \cup CellsIn(s \ {x})
  BY DEF CellsIn
<1>8. CellsOf(slots[x]) \cap CellsIn(s \ {x}) = {}
  BY DEF CellsIn, Disjoint
<1>9. Cardinality(CellsOf(slots[x]) \cup CellsIn(s \ {x})) =
        Cardinality(CellsOf(slots[x])) + Cardinality(CellsIn(s \ {x}))
          - Cardinality(CellsOf(slots[x]) \cap CellsIn(s \ {x}))
  BY <1>5, FS_Union, Zenon
<1>10. Cardinality({}) = 0 /\ Cardinality(CellsIn(s \ {x})) \in Nat
  BY <1>5, FS_EmptySet, FS_CardinalityType, Zenon
<1>11. PICK m \in Nat, z \in Nat : m = Cardinality(CellsIn(s \ {x})) /\ z = slots[x].size
  BY <1>6, <1>10
<1>12. Cardinality(CellsIn(s)) = z + m - 0
  BY <1>6, <1>7, <1>8, <1>9, <1>10, <1>11, Zenon
<1> QED
  BY <1>11, <1>12

\* The sum over a vector, in whatever order it is made, is the number of its cells.
LEMMA SumIsCells ==
  ASSUME area \in Nat, Typed(slots), Disjoint(slots), Inside(slots), IsFiniteSet(DOMAIN slots)
  PROVE  MapThenSumSet(LAMBDA i : slots[i].size, DOMAIN slots) = Cardinality(CellsIn(DOMAIN slots))
<1> DEFINE D == DOMAIN slots
           Pick(s) == CHOOSE x \in s : TRUE
           Sums(g) == g = [s \in SUBSET D |->
                             IF s = {} THEN 0 ELSE slots[Pick(s)].size + g[s \ {Pick(s)}]]
           cells == [s \in SUBSET D |-> Cardinality(CellsIn(s))]
           sum == CHOOSE g : Sums(g)
<1>1. \A s \in SUBSET D : s # {} => Pick(s) \in s
  OBVIOUS
<1>2. cells[{}] = 0
  BY FS_EmptySet DEF CellsIn
<1>3. ASSUME NEW s \in SUBSET D, s # {}
      PROVE  cells[s] = slots[Pick(s)].size + cells[s \ {Pick(s)}]
  <2> HIDE DEF Pick
  <2>1. Pick(s) \in s /\ s \ {Pick(s)} \in SUBSET D
    BY <1>1, <1>3
  <2> QED
    BY <2>1, CellsAdd
<1>4. Sums(cells)
  <2> HIDE DEF Pick
  <2>1. ASSUME NEW s \in SUBSET D
        PROVE  Cardinality(CellsIn(s)) = IF s = {} THEN 0 ELSE slots[Pick(s)].size + cells[s \ {Pick(s)}]
    BY <1>2, <1>3, Zenon
  <2> QED
    BY <2>1
<1>5. Sums(sum)
  <2> HIDE DEF Sums, cells
  <2> QED
    BY <1>4
<1>6. MapThenSumSet(LAMBDA i : slots[i].size, D) = sum[D]
  BY DEF MapThenSumSet, MapThenFoldSet
<1> HIDE DEF sum
<1>7. ASSUME NEW s \in SUBSET D, sum[s] # cells[s]
      PROVE  \E t \in SUBSET D : sum[t] # cells[t] /\ Cardinality(t) < Cardinality(s)
  <2>1. s # {}
    BY <1>2, <1>5, <1>7
  <2>2. Pick(s) \in s
    BY <1>1, <2>1
  <2> HIDE DEF Pick
  <2>3. sum[s] = slots[Pick(s)].size + sum[s \ {Pick(s)}]
    BY <1>5, <2>1
  <2>4. sum[s \ {Pick(s)}] # cells[s \ {Pick(s)}]
    BY <1>3, <1>7, <2>1, <2>3
  <2>5. IsFiniteSet(s)
    BY FS_Subset
  <2>6. Cardinality(s \ {Pick(s)}) = Cardinality(s) - 1 /\ Cardinality(s) \in Nat
    BY <2>2, <2>5, FS_RemoveElement, FS_CardinalityType
  <2> QED
    BY <2>4, <2>6
<1>8. sum[D] = cells[D]
  <2> DEFINE T == {Cardinality(s) : s \in {t \in SUBSET D : sum[t] # cells[t]}}
  <2>1. T \in SUBSET Nat
    <3>1. \A s \in SUBSET D : Cardinality(s) \in Nat
      BY FS_Subset, FS_CardinalityType, Zenon
    <3> QED
      BY <3>1
  <2>2. SUFFICES ASSUME T # {} PROVE FALSE
    OBVIOUS
  <2>3. PICK c \in T : \A d \in T : c <= d
    <3> HIDE DEF T
    <3> QED
      BY <2>1, <2>2, LeastNat, Zenon
  <2>4. PICK s \in SUBSET D : sum[s] # cells[s] /\ c = Cardinality(s)
    BY <2>3
  <2>5. PICK t \in SUBSET D : sum[t] # cells[t] /\ Cardinality(t) < c
    BY <1>7, <2>4
  <2>6. PICK d \in T : d = Cardinality(t)
    BY <2>5
  <2>7. c <= d /\ d < c /\ c \in Nat /\ d \in Nat
    <3> HIDE DEF T
    <3> QED
      BY <2>1, <2>3, <2>5, <2>6
  <2> QED
    BY <2>7
<1> QED
  BY <1>6, <1>8

\* A vector that tiles the local area sums up to it.
LEMMA TilingSums ==
  ASSUME TypeOK, Tiling
  PROVE  AreaIsSum
<1>1. area \in Nat /\ Typed(slots) /\ Disjoint(slots) /\ Inside(slots) /\ Covers(slots)
  BY DEF TypeOK, Tiling, SlotsDisjoint, SlotsInsideArea, AreaCovered, Typed, Disjoint, Inside, Covers
<1>2. IsFiniteSet(DOMAIN slots)
  <2>1. IsFiniteSet(1 .. (next - 1)) /\ DOMAIN slots \in SUBSET (1 .. (next - 1))
    BY FS_Interval DEF TypeOK
  <2> QED
    BY <2>1, FS_Subset, Zenon
<1>3. LocalBase \in Int /\ AreaEnd = LocalBase + area
  BY ReturnValueAssumption DEF LocalBase, AreaEnd, ReturnValueStart
<1>4. CellsIn(DOMAIN slots) = LocalBase .. (AreaEnd - 1)
  <2>1. \A i \in DOMAIN slots : CellsOf(slots[i]) \subseteq LocalBase .. (AreaEnd - 1)
    BY <1>1, <1>3 DEF Typed, Slot, Inside, CellsOf
  <2> QED
    BY <1>1, <2>1 DEF CellsIn, Covers
<1>5. Cardinality(LocalBase .. (AreaEnd - 1)) = area
  BY <1>1, <1>3, FS_Interval
<1> QED
  BY <1>1, <1>2, <1>4, <1>5, SumIsCells DEF AreaIsSum

----------------------------------------------------------------------------
(* The merge loop: whatever pairs it joins, it leaves what Merged says. *)

\* A vector between two rounds: a function (that Merged, which builds one, may leave
\* as it is), of finitely many slots that are apart, the free ones on function level.
AFunction(S) == S = [i \in DOMAIN S |-> S[i]]

Vector(S) ==
  /\ AFunction(S)
  /\ DOMAIN S \subseteq Nat /\ IsFiniteSet(DOMAIN S)
  /\ Typed(S) /\ Disjoint(S) /\ Inside(S)
  /\ \A i \in Available(S) : S[i].scope = FunctionLevel

\* Joining two free slots that touch changes no free cell.
LEMMA JoinedVector ==
  ASSUME area \in Nat, NEW S, Vector(S), NEW l \in Available(S), NEW r \in Available(S) \ {l},
         Adjoins(S, l, r)
  PROVE  LET T == Joined(S, l, r) IN
         /\ Vector(T) /\ DOMAIN T = DOMAIN S \ {r}
         /\ Available(T) = Available(S) \ {r} /\ FreeCells(T) = FreeCells(S)
         /\ \A i \in DOMAIN T : T[i].offset = S[i].offset /\ T[i].kind = S[i].kind
         /\ \A i \in DOMAIN T \ Available(T) : T[i] = S[i]
<1>1. PICK T : T = Joined(S, l, r)
  OBVIOUS
<1>2. l \in DOMAIN S /\ r \in DOMAIN S /\ S[l] \in Slot /\ S[r] \in Slot /\ l # r
  BY DEF Vector, Typed, Available
<1>3. PICK o \in Nat, n \in Nat \ {0}, m \in Nat \ {0} :
        S[l].offset = o /\ S[l].size = n /\ S[r].offset = o + n /\ S[r].size = m
  BY <1>2 DEF Slot, Adjoins
<1>4. DOMAIN T = DOMAIN S \ {r} /\ T[l] = [S[l] EXCEPT !.size = n + m]
      /\ \A i \in DOMAIN T \ {l} : T[i] = S[i]
  BY <1>1, <1>2, <1>3 DEF Joined
<1>5. T[l] \in Slot /\ T[l].offset = o /\ T[l].size = n + m /\ T[l].kind = S[l].kind
      /\ T[l].scope = S[l].scope
  BY <1>2, <1>3, <1>4 DEF Slot
<1>6. CellsOf(T[l]) = CellsOf(S[l]) \cup CellsOf(S[r])
  BY <1>3, <1>5 DEF CellsOf
<1>7. \A i \in DOMAIN T : T[i].offset = S[i].offset /\ T[i].kind = S[i].kind /\ T[i].scope = S[i].scope
  BY <1>3, <1>4, <1>5
<1>8. Available(T) = Available(S) \ {r} /\ l \in Available(T)
  BY <1>2, <1>4, <1>7 DEF Available
<1>9. FreeCells(T) = FreeCells(S)
  <2>1. ASSUME NEW c \in FreeCells(T) PROVE c \in FreeCells(S)
    <3>1. PICK i \in Available(T) : c \in CellsOf(T[i])
      BY <2>1 DEF FreeCells
    <3>2. CASE i = l
      BY <1>6, <3>1, <3>2 DEF FreeCells
    <3>3. CASE i # l
      <4>1. i \in Available(S) /\ T[i] = S[i]
        BY <1>4, <1>8, <3>1, <3>3 DEF Available
      <4> QED
        BY <3>1, <4>1 DEF FreeCells
    <3> QED
      BY <3>2, <3>3
  <2>2. ASSUME NEW c \in FreeCells(S) PROVE c \in FreeCells(T)
    <3>1. PICK i \in Available(S) : c \in CellsOf(S[i])
      BY <2>2 DEF FreeCells
    <3>2. CASE i \in {l, r}
      BY <1>6, <1>8, <3>1, <3>2 DEF FreeCells
    <3>3. CASE i \notin {l, r}
      <4>1. i \in Available(T) /\ T[i] = S[i]
        BY <1>4, <1>8, <3>1, <3>3 DEF Available
      <4> QED
        BY <3>1, <4>1 DEF FreeCells
    <3> QED
      BY <3>2, <3>3
  <2> QED
    BY <2>1, <2>2
<1>10. Vector(T)
  <2>1. DOMAIN T \subseteq Nat /\ IsFiniteSet(DOMAIN T)
    BY <1>4, FS_Subset DEF Vector
  <2>2. Typed(T)
    BY <1>4, <1>5 DEF Vector, Typed
  <2>3. Disjoint(T)
    <3>1. ASSUME NEW i \in DOMAIN T, i # l PROVE CellsOf(T[i]) \cap CellsOf(T[l]) = {}
      <4>1. i \in DOMAIN S /\ i # l /\ i # r /\ T[i] = S[i]
        BY <1>4, <3>1
      <4>2. CellsOf(S[i]) \cap CellsOf(S[l]) = {} /\ CellsOf(S[i]) \cap CellsOf(S[r]) = {}
        BY <1>2, <4>1 DEF Vector, Disjoint
      <4> QED
        BY <1>6, <4>1, <4>2
    <3>2. ASSUME NEW i \in DOMAIN T \ {l}, NEW j \in DOMAIN T \ {l}, i # j
          PROVE  CellsOf(T[i]) \cap CellsOf(T[j]) = {}
      BY <1>4, <3>2 DEF Vector, Disjoint
    <3> QED
      BY <3>1, <3>2 DEF Disjoint
  <2>4. Inside(T)
    <3>1. LocalBase <= T[l].offset /\ T[l].offset + T[l].size <= AreaEnd
      <4>1. LocalBase <= o /\ (o + n) + m <= AreaEnd
        BY <1>2, <1>3 DEF Vector, Inside
      <4>2. LocalBase \in Int /\ AreaEnd \in Int
        BY ReturnValueAssumption DEF LocalBase, AreaEnd, ReturnValueStart
      <4> QED
        BY <1>5, <4>1, <4>2
    <3> QED
      BY <1>4, <3>1 DEF Vector, Inside
  <2>5. \A i \in Available(T) : T[i].scope = FunctionLevel
    BY <1>7, <1>8 DEF Vector, Available
  <2>6. AFunction(T)
    BY <1>1 DEF AFunction, Joined
  <2> QED
    BY <2>1, <2>2, <2>3, <2>4, <2>5, <2>6 DEF Vector
<1>11. \A i \in DOMAIN T \ Available(T) : T[i] = S[i]
  BY <1>4, <1>8
<1> QED
  BY <1>1, <1>4, <1>7, <1>8, <1>9, <1>10, <1>11

\* The run that a free slot begins in is a matter of the free cells.
LEMMA RunEndOfCells ==
  ASSUME area \in Nat, NEW S, Vector(S), NEW T, Vector(T), FreeCells(S) = FreeCells(T),
         NEW i \in Available(S), i \in Available(T), S[i].offset = T[i].offset
  PROVE  RunEnd(S, i) = RunEnd(T, i)
<1>1. PICK o \in Nat : o = S[i].offset
  BY DEF Vector, Typed, Available, Slot
<1>2. PICK e : e = RunEnd(S, i)
  OBVIOUS
<1>3. PICK d : d = RunEnd(T, i)
  OBVIOUS
<1>4. AreaEnd \in Int
  BY ReturnValueAssumption DEF LocalBase, AreaEnd, ReturnValueStart
<1>5. e \in Int /\ o < e /\ e \notin FreeCells(S) /\ o .. (e - 1) \subseteq FreeCells(S)
  <2>1. e \in (S[i].offset + S[i].size) .. AreaEnd /\ e \notin FreeCells(S)
        /\ S[i].offset .. (e - 1) \subseteq FreeCells(S)
    BY <1>2, RunEndProperty DEF Vector
  <2>2. S[i].size \in Nat \ {0}
    BY DEF Vector, Typed, Available, Slot
  <2> QED
    BY <1>1, <1>4, <2>1, <2>2
<1>6. d \in Int /\ o < d /\ d \notin FreeCells(S) /\ o .. (d - 1) \subseteq FreeCells(S)
  <2>1. d \in (T[i].offset + T[i].size) .. AreaEnd /\ d \notin FreeCells(T)
        /\ T[i].offset .. (d - 1) \subseteq FreeCells(T)
    BY <1>3, RunEndProperty DEF Vector
  <2>2. T[i].size \in Nat \ {0}
    BY DEF Vector, Typed, Available, Slot
  <2> QED
    BY <1>1, <1>4, <2>1, <2>2
<1>7. ~ (e < d) /\ ~ (d < e)
  <2>1. ASSUME e < d PROVE FALSE
    <3>1. e \in o .. (d - 1)
      BY <1>5, <1>6, <2>1
    <3> QED
      BY <1>5, <1>6, <3>1
  <2>2. ASSUME d < e PROVE FALSE
    <3>1. d \in o .. (e - 1)
      BY <1>5, <1>6, <2>2
    <3> QED
      BY <1>5, <1>6, <3>1
  <2> QED
    BY <2>1, <2>2
<1> QED
  BY <1>2, <1>3, <1>5, <1>6, <1>7

\* A pair that is joined makes no difference to the result.
LEMMA JoinedMerges ==
  ASSUME area \in Nat, NEW S, Vector(S), NEW l \in Available(S), NEW r \in Available(S) \ {l},
         Adjoins(S, l, r)
  PROVE  Merged(Joined(S, l, r)) = Merged(S)
<1>1. PICK T : T = Joined(S, l, r)
  OBVIOUS
<1>2. /\ Vector(T) /\ DOMAIN T = DOMAIN S \ {r}
      /\ Available(T) = Available(S) \ {r} /\ FreeCells(T) = FreeCells(S)
      /\ \A i \in DOMAIN T : T[i].offset = S[i].offset /\ T[i].kind = S[i].kind
      /\ \A i \in DOMAIN T \ Available(T) : T[i] = S[i]
  BY <1>1, JoinedVector
<1>3. S[r].kind = "Available" /\ ~ StartsRun(S, r)
  <2>1. PICK o \in Nat, n \in Nat \ {0} : S[l].offset = o /\ S[l].size = n /\ S[r].offset = o + n
    BY DEF Vector, Typed, Available, Slot, Adjoins
  <2>2. (o + n) - 1 \in CellsOf(S[l])
    BY <2>1 DEF CellsOf
  <2> QED
    BY <2>1, <2>2 DEF StartsRun, FreeCells, Available
<1>4. \A i \in DOMAIN T : StartsRun(T, i) <=> StartsRun(S, i)
  BY <1>2 DEF StartsRun
<1>5. {i \in DOMAIN T : T[i].kind = "Available" => StartsRun(T, i)} =
        {i \in DOMAIN S : S[i].kind = "Available" => StartsRun(S, i)}
  BY <1>2, <1>3, <1>4
<1>6. ASSUME NEW i \in DOMAIN T
      PROVE  (IF T[i].kind = "Available" THEN FreeSlot(T[i].offset, RunEnd(T, i) - T[i].offset) ELSE T[i])
             = (IF S[i].kind = "Available" THEN FreeSlot(S[i].offset, RunEnd(S, i) - S[i].offset) ELSE S[i])
  <2>1. CASE T[i].kind = "Available"
    <3>1. i \in Available(T) /\ i \in Available(S) /\ S[i].kind = "Available" /\ S[i].offset = T[i].offset
      BY <1>2, <2>1 DEF Available
    <3>2. RunEnd(S, i) = RunEnd(T, i)
      BY <1>2, <3>1, RunEndOfCells
    <3> QED
      BY <2>1, <3>1, <3>2
  <2>2. CASE T[i].kind # "Available"
    <3>1. i \notin Available(T) /\ S[i].kind # "Available"
      BY <1>2, <2>2 DEF Available
    <3>2. T[i] = S[i]
      BY <1>2, <3>1
    <3> QED
      BY <2>2, <3>1, <3>2
  <2> QED
    BY <2>1, <2>2
<1>7. {i \in DOMAIN T : T[i].kind = "Available" => StartsRun(T, i)} \subseteq DOMAIN T
  OBVIOUS
<1>8. Merged(T) = Merged(S)
  <2> DEFINE D == {i \in DOMAIN T : T[i].kind = "Available" => StartsRun(T, i)}
             E == {i \in DOMAIN S : S[i].kind = "Available" => StartsRun(S, i)}
             f(i) == IF T[i].kind = "Available" THEN FreeSlot(T[i].offset, RunEnd(T, i) - T[i].offset) ELSE T[i]
             g(i) == IF S[i].kind = "Available" THEN FreeSlot(S[i].offset, RunEnd(S, i) - S[i].offset) ELSE S[i]
  <2>1. Merged(T) = [i \in D |-> f(i)] /\ Merged(S) = [i \in E |-> g(i)]
    BY DEF Merged
  <2>2. D = E /\ \A i \in D : f(i) = g(i)
    BY <1>5, <1>6, <1>7
  <2> HIDE DEF D, E, f, g
  <2>3. [i \in D |-> f(i)] = [i \in E |-> g(i)]
    BY <2>2
  <2> QED
    BY <2>1, <2>3
<1> QED
  BY <1>1, <1>8

\* Where no two free slots touch there is nothing to merge.
LEMMA MergedAlready ==
  ASSUME area \in Nat, NEW S, Vector(S), Mergeable(S) = {}
  PROVE  Merged(S) = S
<1>1. ASSUME NEW i \in Available(S), NEW j \in Available(S) PROVE ~ Adjoins(S, i, j)
  <2>1. PICK o \in Nat, n \in Nat \ {0} : S[i].offset = o /\ S[i].size = n
    BY DEF Vector, Typed, Available, Slot
  <2>2. o + n # o
    OBVIOUS
  <2>3. ASSUME Adjoins(S, i, j) PROVE FALSE
    <3>1. i # j
      BY <2>1, <2>2, <2>3 DEF Adjoins
    <3> QED
      BY <2>3, <3>1 DEF Mergeable, Touching
  <2> QED
    BY <2>3
<1>2. ASSUME NEW i \in Available(S)
      PROVE  StartsRun(S, i) /\ FreeSlot(S[i].offset, RunEnd(S, i) - S[i].offset) = S[i]
  <2>1. PICK o \in Nat, n \in Nat \ {0} : S[i].offset = o /\ S[i].size = n
    BY DEF Vector, Typed, Available, Slot
  <2>2. ASSUME NEW c, c = o - 1 \/ c = o + n PROVE c \notin FreeCells(S)
    <3>1. SUFFICES ASSUME NEW j \in Available(S), c \in CellsOf(S[j]) PROVE FALSE
      BY DEF FreeCells
    <3>2. PICK p \in Nat, m \in Nat \ {0} : S[j].offset = p /\ S[j].size = m
      BY DEF Vector, Typed, Available, Slot
    <3>3. c \in p .. (p + m - 1) /\ p + m # o /\ o + n # p
      BY <1>1, <2>1, <3>1, <3>2 DEF Adjoins, CellsOf
    <3>4. i # j
      BY <2>1, <2>2, <3>2, <3>3
    <3>5. o \notin p .. (p + m - 1) /\ p \notin o .. (o + n - 1)
      <4>1. CellsOf(S[i]) \cap CellsOf(S[j]) = {}
        BY <3>4 DEF Vector, Disjoint, Available
      <4>2. o \in CellsOf(S[i]) /\ p \in CellsOf(S[j])
        BY <2>1, <3>2 DEF CellsOf
      <4>3. CellsOf(S[i]) = o .. (o + n - 1) /\ CellsOf(S[j]) = p .. (p + m - 1)
        BY <2>1, <3>2 DEF CellsOf
      <4> QED
        BY <4>1, <4>2, <4>3
    <3> QED
      BY <2>2, <3>3, <3>5
  <2>3. StartsRun(S, i)
    BY <2>1, <2>2 DEF StartsRun
  <2>4. RunEnd(S, i) = o + n
    <3>1. PICK e : e = RunEnd(S, i)
      OBVIOUS
    <3>2. e \in (o + n) .. AreaEnd /\ o .. (e - 1) \subseteq FreeCells(S)
      BY <2>1, <3>1, RunEndProperty DEF Vector
    <3>3. AreaEnd \in Int
      BY ReturnValueAssumption DEF LocalBase, AreaEnd, ReturnValueStart
    <3>4. o + n \notin FreeCells(S)
      BY <2>2
    <3>5. ~ (o + n <= e - 1)
      <4>1. ASSUME o + n <= e - 1 PROVE o + n \in o .. (e - 1)
        BY <2>1, <3>2, <3>3, <4>1
      <4> QED
        BY <3>2, <3>4, <4>1
    <3> QED
      BY <2>1, <3>1, <3>2, <3>3, <3>5
  <2>5. FreeSlot(o, n) = S[i]
    <3>1. S[i] \in Slot /\ S[i].kind = "Available" /\ S[i].scope = FunctionLevel
      BY DEF Vector, Typed, Available
    <3> QED
      BY <2>1, <3>1 DEF Slot, FreeSlot
  <2>6. (o + n) - o = n
    OBVIOUS
  <2> QED
    BY <2>1, <2>3, <2>4, <2>5, <2>6
<1>3. {i \in DOMAIN S : S[i].kind = "Available" => StartsRun(S, i)} = DOMAIN S
  BY <1>2 DEF Available
<1>4. \A i \in DOMAIN S :
        (IF S[i].kind = "Available" THEN FreeSlot(S[i].offset, RunEnd(S, i) - S[i].offset) ELSE S[i]) = S[i]
  BY <1>2 DEF Available
<1>5. Merged(S) = [i \in DOMAIN S |-> S[i]]
  BY <1>3, <1>4 DEF Merged
<1>6. S = [i \in DOMAIN S |-> S[i]]
  BY DEF Vector, AFunction
<1> QED
  BY <1>5, <1>6

\* A round changes nothing but to join a pair that touches.
LEMMA RoundMerges ==
  ASSUME area \in Nat, NEW S, Vector(S)
  PROVE  /\ Vector(MergeRound(S)) /\ Merged(MergeRound(S)) = Merged(S)
         /\ Mergeable(S) = {} => MergeRound(S) = S
         /\ Mergeable(S) # {} => \E x \in DOMAIN S : DOMAIN MergeRound(S) = DOMAIN S \ {x}
<1>1. CASE Mergeable(S) = {}
  BY <1>1 DEF MergeRound
<1>2. CASE Mergeable(S) # {}
  <2>1. ASSUME NEW set \in SUBSET Nat, set # {} PROVE FirstOf(set) \in set
    BY <2>1, LeastNat DEF FirstOf
  <2>2. PICK a : a = FirstOf(Mergeable(S))
    OBVIOUS
  <2>3. a \in Mergeable(S)
    BY <1>2, <2>1, <2>2 DEF Mergeable, Available, Vector
  <2>4. PICK b : b = FirstOf(Touching(S, a))
    OBVIOUS
  <2>5. b \in Touching(S, a)
    BY <2>1, <2>3, <2>4 DEF Mergeable, Touching, Available, Vector
  <2>6. PICK l, r : /\ l \in Available(S) /\ r \in Available(S) \ {l} /\ Adjoins(S, l, r)
                    /\ MergeRound(S) = Joined(S, l, r)
    <3>1. MergeRound(S) = IF Adjoins(S, a, b) THEN Joined(S, a, b) ELSE Joined(S, b, a)
      BY <1>2, <2>2, <2>4 DEF MergeRound
    <3>2. a \in Available(S) /\ b \in Available(S) /\ a # b /\ (Adjoins(S, a, b) \/ Adjoins(S, b, a))
      BY <2>3, <2>5 DEF Mergeable, Touching
    <3> QED
      BY <3>1, <3>2
  <2>7. Vector(Joined(S, l, r)) /\ DOMAIN Joined(S, l, r) = DOMAIN S \ {r}
    BY <2>6, JoinedVector
  <2>8. Merged(Joined(S, l, r)) = Merged(S)
    BY <2>6, JoinedMerges
  <2>9. r \in DOMAIN S
    BY <2>6 DEF Available
  <2> QED
    BY <1>2, <2>6, <2>7, <2>8, <2>9
<1> QED
  BY <1>1, <1>2

\* A property of 0 that is handed on holds up to any number.
LEMMA UpFromZero ==
  ASSUME NEW n \in Nat, NEW T, 0 \in T, \A k \in 0 .. (n - 1) : k \in T => k + 1 \in T
  PROVE  0 .. n \subseteq T
<1> DEFINE U == {k \in 0 .. n : k \notin T}
<1>1. SUFFICES ASSUME U # {} PROVE FALSE
  OBVIOUS
<1>2. PICK m \in U : \A k \in U : m <= k
  <2>1. U \in SUBSET Nat
    OBVIOUS
  <2> QED
    BY <1>1, <2>1, LeastNat, Zenon
<1>3. m # 0 /\ m - 1 \in 0 .. (n - 1)
  BY <1>2
<1>4. m - 1 \in T
  BY <1>2, <1>3
<1>5. (m - 1) + 1 \in T
  BY <1>3, <1>4
<1> QED
  BY <1>2, <1>3, <1>5

\* The rounds, one after the other: the recursive function of the loop exists.
LEMMA RoundsExist ==
  ASSUME NEW S, NEW n \in Nat
  PROVE  \E g : g = [k \in 0 .. n |-> IF k = 0 THEN S ELSE MergeRound(g[k - 1])]
<1> DEFINE Built(m) == \E g : g = [k \in 0 .. m |-> IF k = 0 THEN S ELSE MergeRound(g[k - 1])]
           T == {m \in 0 .. n : Built(m)}
<1>1. Built(0)
  <2> DEFINE g == [k \in 0 .. 0 |-> S]
  <2>1. g = [k \in 0 .. 0 |-> IF k = 0 THEN S ELSE MergeRound(g[k - 1])]
    OBVIOUS
  <2> QED
    BY <2>1, Zenon
<1>2. ASSUME NEW m \in Nat, Built(m) PROVE Built(m + 1)
  <2>1. PICK g : g = [k \in 0 .. m |-> IF k = 0 THEN S ELSE MergeRound(g[k - 1])]
    BY <1>2
  <2> DEFINE h == [k \in 0 .. (m + 1) |-> IF k = 0 THEN S ELSE MergeRound(g[k - 1])]
  <2>2. ASSUME NEW k \in 0 .. m PROVE h[k] = g[k]
    <3>1. g[k] = IF k = 0 THEN S ELSE MergeRound(g[k - 1])
      BY <2>1
    <3>2. k \in 0 .. (m + 1)
      BY <1>2
    <3> HIDE DEF h
    <3>3. h[k] = IF k = 0 THEN S ELSE MergeRound(g[k - 1])
      BY <3>2 DEF h
    <3> QED
      BY <3>1, <3>3
  <2>3. ASSUME NEW k \in 0 .. (m + 1), k # 0 PROVE h[k - 1] = g[k - 1]
    <3>1. k - 1 \in 0 .. m
      BY <1>2, <2>3
    <3> HIDE DEF h
    <3> QED
      BY <2>2, <3>1
  <2>4. h = [k \in 0 .. (m + 1) |-> IF k = 0 THEN S ELSE MergeRound(h[k - 1])]
    BY <2>3, Zenon
  <2> QED
    BY <2>4, Zenon
<1> HIDE DEF Built
<1>3. 0 \in T /\ \A k \in 0 .. (n - 1) : k \in T => k + 1 \in T
  BY <1>1, <1>2
<1>4. 0 .. n \subseteq T
  BY <1>3, UpFromZero, Zenon
<1>5. Built(n)
  BY <1>4
<1> QED
  BY <1>5 DEF Built

\* The loop ends, and what it leaves is what Merged says.
LEMMA LoopMerges ==
  ASSUME area \in Nat, NEW S, Vector(S)
  PROVE  MergeLoop(S) = Merged(S)
<1>1. PICK n \in Nat : n = Cardinality(DOMAIN S)
  BY FS_CardinalityType DEF Vector
<1> DEFINE Rounds(g) == g = [k \in 0 .. n |-> IF k = 0 THEN S ELSE MergeRound(g[k - 1])]
           after == CHOOSE g : Rounds(g)
<1>2. Rounds(after)
  <2>1. \E g : Rounds(g)
    BY RoundsExist
  <2> HIDE DEF Rounds
  <2> QED
    BY <2>1
<1>3. MergeLoop(S) = after[n]
  BY <1>1, Zenon DEF MergeLoop
<1> HIDE DEF after
<1>4. after[0] = S /\ \A k \in 0 .. (n - 1) : after[k + 1] = MergeRound(after[k])
  <2>1. after[0] = S
    BY <1>2
  <2>2. ASSUME NEW k \in 0 .. (n - 1) PROVE after[k + 1] = MergeRound(after[k])
    <3>1. k + 1 \in 0 .. n /\ k + 1 # 0 /\ (k + 1) - 1 = k
      OBVIOUS
    <3> QED
      BY <1>2, <3>1
  <2> QED
    BY <2>1, <2>2
<1> HIDE DEF Rounds
<1> DEFINE Left(k) == Cardinality(DOMAIN after[k])
           T == {k \in 0 .. n : /\ Vector(after[k]) /\ Merged(after[k]) = Merged(S)
                                /\ Mergeable(after[k]) = {} \/ Left(k) + k <= n}
<1>5. 0 \in T
  BY <1>1, <1>4
<1>6. ASSUME NEW k \in 0 .. (n - 1), k \in T PROVE k + 1 \in T
  <2>1. PICK V : V = after[k]
    OBVIOUS
  <2>2. after[k + 1] = MergeRound(V) /\ Vector(V) /\ Merged(V) = Merged(S)
        /\ (Mergeable(V) = {} \/ Cardinality(DOMAIN V) + k <= n)
    BY <1>4, <1>6, <2>1
  <2>3. Vector(MergeRound(V)) /\ Merged(MergeRound(V)) = Merged(S)
    BY <2>2, RoundMerges
  <2>4. Mergeable(MergeRound(V)) = {} \/ Cardinality(DOMAIN MergeRound(V)) + (k + 1) <= n
    <3>1. CASE Mergeable(V) = {}
      BY <2>2, <3>1, RoundMerges
    <3>2. CASE Mergeable(V) # {}
      <4>1. PICK x \in DOMAIN V : DOMAIN MergeRound(V) = DOMAIN V \ {x}
        BY <2>2, <3>2, RoundMerges
      <4>2. IsFiniteSet(DOMAIN V)
        BY <2>2 DEF Vector
      <4>3. Cardinality(DOMAIN V \ {x}) = Cardinality(DOMAIN V) - 1 /\ Cardinality(DOMAIN V) \in Nat
        BY <4>2, FS_RemoveElement, FS_CardinalityType
      <4> QED
        BY <2>2, <3>2, <4>1, <4>3
    <3> QED
      BY <3>1, <3>2
  <2>5. k + 1 \in 0 .. n
    OBVIOUS
  <2> QED
    BY <2>2, <2>3, <2>4, <2>5
<1>7. n \in T
  <2> HIDE DEF T
  <2>1. 0 .. n \subseteq T
    BY <1>5, <1>6, UpFromZero, Zenon
  <2> QED
    BY <2>1
<1>8. PICK V : V = after[n]
  OBVIOUS
<1>9. Vector(V) /\ Merged(V) = Merged(S) /\ (Mergeable(V) = {} \/ Cardinality(DOMAIN V) + n <= n)
  BY <1>7, <1>8
<1>10. Mergeable(V) = {}
  <2>1. SUFFICES ASSUME Cardinality(DOMAIN V) + n <= n PROVE Mergeable(V) = {}
    BY <1>9
  <2>2. IsFiniteSet(DOMAIN V) /\ Cardinality(DOMAIN V) \in Nat
    BY <1>9, FS_CardinalityType DEF Vector
  <2>3. Cardinality(DOMAIN V) = 0
    BY <2>1, <2>2
  <2>4. DOMAIN V = {}
    BY <2>2, <2>3, FS_EmptySet
  <2> QED
    BY <2>4 DEF Mergeable, Available
<1> QED
  BY <1>3, <1>8, <1>9, <1>10, MergedAlready

\* What is freed in a frame that satisfies the invariant is a vector for the loop.
LEMMA MarkedVector ==
  ASSUME IInv, NEW freed
  PROVE  area \in Nat /\ Vector(Marked(slots, freed))
<1>1. area \in Nat /\ Typed(slots) /\ Disjoint(slots) /\ Inside(slots) /\ Covers(slots)
      /\ DOMAIN slots \subseteq 1 .. (next - 1)
  BY DEF IInv, Layout, SlotsTyped, Typed
<1>2. DOMAIN Marked(slots, freed) = DOMAIN slots
  BY DEF Marked
<1>3. IsFiniteSet(DOMAIN slots) /\ DOMAIN slots \subseteq Nat
  <2>1. IsFiniteSet(1 .. (next - 1)) /\ DOMAIN slots \in SUBSET (1 .. (next - 1))
    BY <1>1, FS_Interval DEF IInv, Layout, SlotsTyped
  <2>2. IsFiniteSet(DOMAIN slots)
    BY <2>1, FS_Subset, Zenon
  <2> QED
    BY <2>1, <2>2
<1>4. Typed(Marked(slots, freed)) /\ Disjoint(Marked(slots, freed)) /\ Inside(Marked(slots, freed))
  BY <1>1, MarkedTiled
<1>5. \A i \in Available(Marked(slots, freed)) : Marked(slots, freed)[i].scope = FunctionLevel
  BY DEF Marked, Available, FreeSlot, IInv, Ownership, OfKind
<1>6. AFunction(Marked(slots, freed))
  BY DEF AFunction, Marked
<1> QED
  BY <1>1, <1>2, <1>3, <1>4, <1>5, <1>6 DEF Vector

\* The inductive invariant holds throughout the construction of a function.
THEOREM Invariance == Spec => []IInv
BY InitInvariant, StepInvariant, PTL DEF Spec

\* Every variable keeps its type, and the vector holds only created objects.
THEOREM TypeCorrect == Spec => []TypeOK
BY Invariance, InvariantImplies, PTL

\* The slots of a frame always tile its local area: no two share a cell, and
\* none is lost, whatever allocSlot and mergeAvailableSlots were asked for.
THEOREM SlotsTile == Spec => []Tiling
BY Invariance, InvariantImplies, PTL

\* The sum that localAreaSize() makes of a frame's vector is where its slots end: it
\* may be used as the place of a new slot and as what pushFrame skips.
THEOREM SumIsArea == Spec => []AreaIsSum
BY Invariance, InvariantImplies, TilingSums, PTL

\* mergeAvailableSlots, run as it is written on a vector of any length, leaves of each
\* run of free cells the leftmost slot, grown over the run.
THEOREM LoopIsMerge == Spec => []MergeIsLoop
<1>1. ASSUME IInv PROVE MergeIsLoop
  BY <1>1, MarkedVector, LoopMerges DEF MergeIsLoop
<1> QED
  BY <1>1, Invariance, PTL

\* Between operations no two free slots touch.
THEOREM HolesMerged == Spec => []Coalesced
BY Invariance, InvariantImplies, PTL

\* No local and no temporary outlives the scope that owns it.
THEOREM ScopesOwn == Spec => []OwnersOpen
BY Invariance, InvariantImplies, PTL

\* A slot that stays in use keeps its cells, and the area never shrinks.
THEOREM SlotsStay == Spec => StoragePinned
<1> DEFINE Pinned ==
      /\ area' >= area
      /\ \A i \in DOMAIN slots :
           (/\ slots[i].kind # "Available"
            /\ i \in DOMAIN slots'
            /\ slots'[i].kind # "Available") => slots'[i] = slots[i]
<1>1. IInv /\ [Next]_vars => [Pinned]_vars
  <2> SUFFICES ASSUME IInv, Next PROVE Pinned
    BY DEF vars
  <2> USE DEF IInv
  <2>1. CurrentScope \in Nat /\ area \in Nat
    BY ScopeIsNat DEF Layout, SlotsTyped
  <2>2. ASSUME NEW kind \in LiveKinds, NEW n \in Sizes, NEW near, AllocSlot(kind, n, near)
        PROVE  Pinned
    BY <2>1, <2>2, AllocKeepsLayout, SizesAssumption DEF Keeps
  <2>3. ASSUME NEW freed, FreeAll(freed), UNCHANGED <<next, area>> PROVE Pinned
    <3>1. \A i \in DOMAIN slots' :
            \/ slots'[i] = slots[i]
            \/ slots'[i].kind = "Available"
      BY <2>3, FreeKeepsLayout
    <3> QED BY <2>1, <2>3, <3>1
  <2>4. CASE \E n \in Sizes : DeclareLocal(n)
    BY <2>2, <2>4 DEF DeclareLocal, LiveKinds
  <2>5. CASE \E n \in Sizes, near \in Hints : GetTemp(n, near)
    BY <2>2, <2>5 DEF GetTemp, LiveKinds
  <2>6. CASE \E n \in Sizes, near \in Hints : GetCache(n, near)
    BY <2>2, <2>6 DEF GetCache, LiveKinds
  <2>7. CASE \E i \in DOMAIN slots : FreeTempSlot(i) \/ FreeCacheSlot(i)
    BY <2>3, <2>7 DEF FreeTempSlot, FreeCacheSlot
  <2>8. CASE FinishScope
    BY <2>3, <2>8 DEF FinishScope
  <2>9. CASE EndFunction
    BY <2>3, <2>9 DEF EndFunction
  <2>10. CASE BeginScope \/ EndScope \/ BeginMetaBlock \/ EndMetaBlock
    BY <2>1, <2>10 DEF BeginScope, EndScope, BeginMetaBlock, EndMetaBlock
  <2> QED BY <2>4, <2>5, <2>6, <2>7, <2>8, <2>9, <2>10 DEF Next
<1> QED BY <1>1, Invariance, PTL DEF Spec, StoragePinned

\* The frame grows only for a request larger than every hole.
THEOREM GrowthForced == Spec => GrowthIsForced
<1> DEFINE Served(n) ==
      \E i \in DOMAIN slots' :
        /\ slots'[i].kind # "Available"
        /\ i \in Available(slots) \cup {next}
        /\ slots'[i].size = n
        /\ Fitting(n) = {}
<1> DEFINE Forced ==
      area' > area =>
        \E i \in DOMAIN slots' :
          /\ slots'[i].kind # "Available"
          /\ i \in Available(slots) \cup {next}
          /\ \A j \in Available(slots) : slots[j].size < slots'[i].size
<1>1. IInv /\ [Next]_vars => [Forced]_vars
  <2> SUFFICES ASSUME IInv, Next, area' > area PROVE Forced
    BY DEF vars
  <2>1. /\ area \in Nat
        /\ \A j \in Available(slots) : slots[j].size \in Nat
    BY DEF IInv, Layout, SlotsTyped, Typed, Slot, Available
  <2>2. ASSUME NEW n \in Sizes, Served(n) PROVE Forced
    BY <2>1, <2>2, SizesAssumption DEF Fitting
  <2>3. ASSUME NEW kind \in LiveKinds, NEW n \in Sizes, NEW near, AllocSlot(kind, n, near)
        PROVE  Served(n)
    <3>1. kind # "Available"
      BY DEF LiveKinds
    <3>2. CASE TakeHole(kind, n, near)
      BY <2>1, <3>2 DEF TakeHole
    <3>3. CASE GrowTail(kind, n)
      <4>1. PICK i \in FreeTails : slots' = [slots EXCEPT ![i] = NewSlot(kind, slots[i].offset, n)]
        BY <3>3 DEF GrowTail
      <4>2. i \in DOMAIN slots' /\ i \in Available(slots) /\ slots'[i] = NewSlot(kind, slots[i].offset, n)
        BY <4>1 DEF FreeTails, Available
      <4> QED BY <3>1, <3>3, <4>2 DEF GrowTail, NewSlot
    <3>4. CASE AppendSlot(kind, n)
      <4>1. next \in DOMAIN slots' /\ slots'[next] = NewSlot(kind, AreaEnd, n)
        BY <3>4 DEF AppendSlot
      <4> QED BY <3>1, <3>4, <4>1 DEF AppendSlot, NewSlot
    <3> QED BY <2>3, <3>2, <3>3, <3>4 DEF AllocSlot
  <2>4. area' # area
    BY <2>1
  <2>5. CASE \E n \in Sizes : DeclareLocal(n)
    BY <2>2, <2>3, <2>5 DEF DeclareLocal, LiveKinds
  <2>6. CASE \E n \in Sizes, near \in Hints : GetTemp(n, near)
    BY <2>2, <2>3, <2>6 DEF GetTemp, LiveKinds
  <2>7. CASE \E n \in Sizes, near \in Hints : GetCache(n, near)
    BY <2>2, <2>3, <2>7 DEF GetCache, LiveKinds
  <2> QED
    BY <2>4, <2>5, <2>6, <2>7
    DEF Next, FreeTempSlot, FreeCacheSlot, BeginScope, EndScope, FinishScope, EndFunction,
        BeginMetaBlock, EndMetaBlock
<1> QED BY <1>1, Invariance, PTL DEF Spec, GrowthIsForced

============================================================================
