-------------------------- MODULE ExecutionProofs --------------------------
(***************************************************************************)
(* What the dispatched blocks do to the chain of frames, and the           *)
(* invariants of a program that runs.                                      *)
(***************************************************************************)
EXTENDS FrameProofs

----------------------------------------------------------------------------
(* What the code of a block does to the chain. *)

Runs(n, s, h) ==
  /\ IsTable(program, blocks) /\ tape \in Tapes
  /\ Chain(program, blocks, tape, ptr, n, s, h)

\* What is left alone by code that works in its own frame and on globals.
PointersKept(t) ==
  \A j \in DOMAIN Function.pointers :
    t[ptr + LocalBase(Function) + j] = tape[ptr + LocalBase(Function) + j]
Kept(t) ==
  /\ t \in Tapes /\ \A c \in DOMAIN tape : t[c].marker = tape[c].marker
  /\ \A c \in First(program) .. ptr : t[c] = tape[c]
  /\ PointersKept(t)

\* The block that runs is the last of the chain.
LEMMA RunningBlock ==
  ASSUME Room, NEW n, NEW s, NEW h, Runs(n, s, h), tape[ptr].high # 0
  PROVE  /\ n \in Nat \ {0} /\ n \in 1 .. n /\ h[n] \in Table(program) /\ h[n].kind # "nothing"
         /\ Running = h[n] /\ Function = Owner(program, h[n]) /\ Names(blocks, tape, ptr, h[n])
         /\ Function \in Range(program.functions) /\ Function.name = h[n].function
         /\ PointersStand(program, blocks, tape, ptr, Function)
         /\ ptr \in First(program) .. (TapeLength - 1) /\ First(program) = program.globals + 2
         /\ program.globals \in Nat /\ TapeLength \in Nat /\ DOMAIN tape = 0 .. (TapeLength - 1)
         /\ ptr + StackFrameSize(Function) <= TapeLength
<1>1. n \in Nat \ {0} /\ n \in 1 .. n /\ h[n] \in Table(program) /\ s[n] = ptr
  <2>1. n \in Nat \ {0} /\ s[n] = ptr /\ h \in [1 .. n -> Table(program)]
    BY DEF Runs, Chain, Shaped
  <2>2. n \in 1 .. n
    BY <2>1
  <2> QED
    BY <2>1, <2>2
<1>2. /\ h[n].kind # "nothing" /\ Names(blocks, tape, ptr, h[n])
      /\ ptr + SizeAt(program, h[n]) <= TapeLength
  BY DEF Runs, Chain, Topped
<1>3. Running = At(blocks, TargetOf(tape, ptr))
  BY DEF Running, TargetBlock, At
<1>4. Running = h[n]
  BY <1>1, <1>2, <1>3, IndexFinds DEF Runs, Names
<1>5. Function = Owner(program, h[n])
  BY <1>4 DEF Function, Owner
<1>6. Function \in Range(program.functions) /\ Function.name = h[n].function
  BY <1>1, <1>5, BlockSizes DEF Runs
<1>7. PointersStand(program, blocks, tape, ptr, Function)
  BY <1>1, <1>5 DEF Runs, Chain, Pointing
<1>8. ptr \in First(program) .. (TapeLength - 1)
  BY BasesFound DEF Runs
<1>9. First(program) = program.globals + 2 /\ program.globals \in Nat
  BY FrameSizes DEF Runs
<1>10. DOMAIN tape = 0 .. (TapeLength - 1) /\ TapeLength \in Nat
  BY TapeAssumption DEF Runs, Tapes
<1> QED
  BY <1>1, <1>2, <1>4, <1>5, <1>6, <1>7, <1>8, <1>9, <1>10 DEF SizeAt

\* Pointers are held in locals.
LEMMA PointerCells ==
  ASSUME Room, NEW n, NEW s, NEW h, Runs(n, s, h), tape[ptr].high # 0,
         NEW j \in DOMAIN Function.pointers
  PROVE  /\ ptr + LocalBase(Function) + j \in 0 .. (TapeLength - 1)
         /\ ptr + LocalBase(Function) + j # ptr
         /\ Function.returns => ptr + LocalBase(Function) + j # ptr + 1
<1>1. /\ ptr \in First(program) .. (TapeLength - 1) /\ First(program) \in Nat /\ TapeLength \in Nat
      /\ ptr + StackFrameSize(Function) <= TapeLength /\ Function \in Range(program.functions)
  BY RunningBlock
<1>2. /\ Function.locals \in Nat /\ DOMAIN Function.pointers \subseteq 0 .. (Function.locals - 1)
      /\ LocalBase(Function) = IF Function.returns THEN 2 ELSE 1
      /\ StackFrameSize(Function) = LocalBase(Function) + Function.locals
  BY <1>1, FrameSizes DEF Runs
<1>3. j \in 0 .. (Function.locals - 1)
  BY <1>2
<1> QED
  BY <1>1, <1>2, <1>3

\* A place is a global or a local of the frame that holds no pointer.
LEMMA PlaceInFrame ==
  ASSUME Room, NEW n, NEW s, NEW h, Runs(n, s, h), tape[ptr].high # 0,
         NEW place, IsPlace(program, Function, place), place # Nowhere
  PROVE  /\ place.kind \in {"local", "global"}
         /\ Address(place) \in 0 .. (TapeLength - 1) /\ Address(place) \notin First(program) .. ptr
         /\ Address(place) < ptr + StackFrameSize(Function)
         /\ \A j \in DOMAIN Function.pointers : Address(place) # ptr + LocalBase(Function) + j
<1>1. /\ ptr \in First(program) .. (TapeLength - 1) /\ First(program) = program.globals + 2
      /\ program.globals \in Nat /\ TapeLength \in Nat
      /\ Function \in Range(program.functions) /\ ptr + StackFrameSize(Function) <= TapeLength
  BY RunningBlock
<1>2. /\ Function.locals \in Nat /\ DOMAIN Function.pointers \subseteq 0 .. (Function.locals - 1)
      /\ LocalBase(Function) \in 1 .. 2 /\ StackFrameSize(Function) = LocalBase(Function) + Function.locals
  BY <1>1, FrameSizes DEF Runs
<1>3. CASE \E k \in (0 .. (Function.locals - 1)) \ DOMAIN Function.pointers : place = Local(k)
  <2>1. PICK k \in (0 .. (Function.locals - 1)) \ DOMAIN Function.pointers : place = Local(k)
    BY <1>3
  <2>2. place.kind = "local" /\ Address(place) = ptr + LocalBase(Function) + k
    BY <2>1 DEF Local, Address
  <2>3. \A j \in DOMAIN Function.pointers : j # k /\ j \in Int
    BY <1>2, <2>1
  <2> QED
    BY <1>1, <1>2, <2>2, <2>3
<1>4. CASE \E k \in 0 .. (program.globals - 1) : place = Global(k)
  <2>1. PICK k \in 0 .. (program.globals - 1) : place = Global(k)
    BY <1>4
  <2>2. place.kind = "global" /\ Address(place) = 1 + k
    BY <2>1 DEF Global, Address, GlobalCell
  <2>3. \A j \in DOMAIN Function.pointers : j \in Nat
    BY <1>2
  <2> QED
    BY <1>1, <1>2, <2>2, <2>3
<1> QED
  BY <1>3, <1>4 DEF IsPlace

\* The operand of a computation is a byte.
LEMMA ValueIsByte ==
  ASSUME Room, NEW n, NEW s, NEW h, Runs(n, s, h), tape[ptr].high # 0,
         NEW t \in Tapes, NEW input \in Inputs, NEW o, IsValue(program, Function, o, Words)
  PROVE  Fields(t, o, input).low \in Words
<1>1. CASE IsPlace(program, Function, o) /\ o # Nowhere
  <2>1. o.kind \in {"local", "global"} /\ Address(o) \in 0 .. (TapeLength - 1)
    BY <1>1, PlaceInFrame
  <2>2. Fields(t, o, input).low = t[Address(o)].low
    BY <2>1 DEF Fields
  <2> QED
    BY <2>1, <2>2 DEF Tapes
<1>2. CASE \E v \in Words : o = Constant(v)
  <2>1. PICK v \in Words : o = Constant(v)
    BY <1>2
  <2>2. o.kind = "constant" /\ o.value = v
    BY <2>1 DEF Constant
  <2>3. Fields(t, o, input).low = v
    BY <2>2 DEF Fields
  <2> QED
    BY <2>3
<1>3. CASE o = Input
  <2>1. o.kind = "input"
    BY <1>3 DEF Input
  <2>2. Fields(t, o, input).low = input
    BY <2>1 DEF Fields
  <2> QED
    BY <2>2, ProgramsAssumption DEF Words
<1> QED
  BY <1>1, <1>2, <1>3 DEF IsValue

\* The operand of a call is the index of the entry of a function of its type.
LEMMA AddressIsIndex ==
  ASSUME Room, NEW n, NEW s, NEW h, Runs(n, s, h), tape[ptr].high # 0,
         NEW t, PointersKept(t), NEW input, NEW o, NEW type, IsAddress(program, Function, o, type),
         \A g \in Range(program.functions) :
           o = FunctionAddress(g.name) => IsCallable(program, g.name)
  PROVE  \E g \in Range(program.functions) :
           g.type = type /\ IsCallable(program, g.name) /\ Fields(t, o, input) = EntryIx(blocks, g)
<1>1. CASE \E g \in Range(program.functions) : g.type = type /\ o = FunctionAddress(g.name)
  <2>1. PICK g \in Range(program.functions) : g.type = type /\ o = FunctionAddress(g.name)
    BY <1>1
  <2>2. o.kind = "function" /\ o.name = g.name
    BY <2>1 DEF FunctionAddress
  <2>3. Fields(t, o, input) = EntryIndex(g.name)
    BY <2>2 DEF Fields
  <2>4. FunctionOf(program, g.name) = g
    BY NamesDetermine DEF Runs, IsTable
  <2>5. EntryIndex(g.name) = EntryIx(blocks, g)
    BY <2>4 DEF EntryIndex, EntryIx, Index, Ix
  <2> QED
    BY <2>1, <2>3, <2>5
<1>2. CASE \E k \in DOMAIN Function.pointers : Function.pointers[k] = type /\ o = Local(k)
  <2>1. PICK k \in DOMAIN Function.pointers : Function.pointers[k] = type /\ o = Local(k)
    BY <1>2
  <2>2. o.kind = "local" /\ o.at = k
    BY <2>1 DEF Local
  <2>3. Address(o) = ptr + LocalBase(Function) + k
    BY <2>2 DEF Address
  <2>4. t[Address(o)] = tape[Address(o)]
    BY <2>1, <2>3 DEF PointersKept
  <2>5. Fields(t, o, input) = TargetOf(tape, Address(o))
    BY <2>2, <2>4 DEF Fields, TargetOf
  <2>6. Points(program, blocks, tape, ptr + LocalBase(Function) + k, type)
    BY <2>1, RunningBlock DEF PointersStand
  <2> QED
    BY <2>3, <2>5, <2>6 DEF Points
<1> QED
  BY <1>1, <1>2 DEF IsAddress

\* One field of one cell is assigned: the rest of the tape stays as it was.
LEMMA LowAssigned ==
  ASSUME NEW t \in Tapes, NEW c \in 0 .. (TapeLength - 1), NEW v \in Words,
         NEW u, u = [t EXCEPT ![c].low = v]
  PROVE  /\ u \in Tapes /\ DOMAIN u = DOMAIN t /\ DOMAIN t = 0 .. (TapeLength - 1)
         /\ u[c].low = v /\ u[c].high = t[c].high /\ u[c].marker = t[c].marker
         /\ \A d \in DOMAIN t : d # c => u[d] = t[d]
<1>1. t \in [0 .. (TapeLength - 1) -> [low : Words, high : Words, marker : 0 .. 1]]
  BY DEF Tapes
<1>2. t[c] \in [low : Words, high : Words, marker : 0 .. 1]
  BY <1>1
<1>3. u \in Tapes
  BY <1>1, <1>2 DEF Tapes
<1> QED
  BY <1>1, <1>2, <1>3

\* The same of the high field.
LEMMA HighAssigned ==
  ASSUME NEW t \in Tapes, NEW c \in 0 .. (TapeLength - 1), NEW v \in Words,
         NEW u, u = [t EXCEPT ![c].high = v]
  PROVE  /\ u \in Tapes /\ DOMAIN u = DOMAIN t /\ DOMAIN t = 0 .. (TapeLength - 1)
         /\ u[c].low = t[c].low /\ u[c].high = v /\ u[c].marker = t[c].marker
         /\ \A d \in DOMAIN t : d # c => u[d] = t[d]
<1>1. t \in [0 .. (TapeLength - 1) -> [low : Words, high : Words, marker : 0 .. 1]]
  BY DEF Tapes
<1>2. t[c] \in [low : Words, high : Words, marker : 0 .. 1]
  BY <1>1
<1>3. u \in Tapes
  BY <1>1, <1>2 DEF Tapes
<1> QED
  BY <1>1, <1>2, <1>3

\* The same of the marker.
LEMMA MarkerAssigned ==
  ASSUME NEW t \in Tapes, NEW c \in 0 .. (TapeLength - 1), NEW m \in 0 .. 1,
         NEW u, u = [t EXCEPT ![c].marker = m]
  PROVE  /\ u \in Tapes /\ DOMAIN u = DOMAIN t /\ DOMAIN t = 0 .. (TapeLength - 1)
         /\ u[c].low = t[c].low /\ u[c].high = t[c].high /\ u[c].marker = m
         /\ \A d \in DOMAIN t : d # c => u[d] = t[d]
<1>1. t \in [0 .. (TapeLength - 1) -> [low : Words, high : Words, marker : 0 .. 1]]
  BY DEF Tapes
<1>2. t[c] \in [low : Words, high : Words, marker : 0 .. 1]
  BY <1>1
<1>3. u \in Tapes
  BY <1>1, <1>2 DEF Tapes
<1> QED
  BY <1>1, <1>2, <1>3

\* An assignment to a place leaves the chain alone.
LEMMA StoreKept ==
  ASSUME Room, NEW n, NEW s, NEW h, Runs(n, s, h), tape[ptr].high # 0,
         NEW t, Kept(t), NEW place, IsPlace(program, Function, place), NEW v \in Words
  PROVE  Kept(Store(t, place, v))
<1>1. CASE place.kind = "nowhere"
  BY <1>1 DEF Store
<1>2. CASE place.kind # "nowhere"
  <2>1. place # Nowhere
    BY <1>2 DEF Nowhere
  <2> DEFINE a == Address(place)
             u == [t EXCEPT ![a].low = v]
  <2>2. /\ a \in 0 .. (TapeLength - 1) /\ a \notin First(program) .. ptr
        /\ \A j \in DOMAIN Function.pointers : a # ptr + LocalBase(Function) + j
    BY <2>1, PlaceInFrame
  <2>3. /\ DOMAIN tape = 0 .. (TapeLength - 1) /\ TapeLength \in Nat
        /\ ptr \in First(program) .. (TapeLength - 1) /\ ptr + StackFrameSize(Function) <= TapeLength
        /\ First(program) \in Nat /\ Function \in Range(program.functions)
    BY RunningBlock
  <2>4. /\ LocalBase(Function) \in Nat /\ Function.locals \in Nat
        /\ DOMAIN Function.pointers \subseteq 0 .. (Function.locals - 1)
        /\ StackFrameSize(Function) = LocalBase(Function) + Function.locals
    BY <2>3, FrameSizes DEF Runs
  <2>5. /\ DOMAIN t = 0 .. (TapeLength - 1) /\ u \in Tapes /\ u[a].marker = t[a].marker
        /\ \A d \in DOMAIN t : d # a => u[d] = t[d]
    <3>1. t \in Tapes
      BY DEF Kept
    <3>2. u = [t EXCEPT ![a].low = v]
      OBVIOUS
    <3> HIDE DEF a, u
    <3> QED
      BY <2>2, <3>1, <3>2, LowAssigned
  <2>6. Store(t, place, v) = u
    BY <1>2 DEF Store
  <2> HIDE DEF a, u
  <2>7. \A c \in DOMAIN tape : u[c].marker = tape[c].marker
    BY <2>3, <2>5 DEF Kept
  <2>8. \A c \in First(program) .. ptr : u[c] = tape[c]
    BY <2>2, <2>3, <2>5 DEF Kept
  <2>9. ASSUME NEW j \in DOMAIN Function.pointers
        PROVE  u[ptr + LocalBase(Function) + j] = tape[ptr + LocalBase(Function) + j]
    <3>1. ptr + LocalBase(Function) + j \in DOMAIN t /\ ptr + LocalBase(Function) + j # a
      BY <2>2, <2>3, <2>4, <2>5
    <3> QED
      BY <3>1, <2>5 DEF Kept, PointersKept
  <2> QED
    BY <2>5, <2>6, <2>7, <2>8, <2>9 DEF Kept, PointersKept
<1> QED
  BY <1>1, <1>2

\* So does the computation of a block.
LEMMA ComputedKept ==
  ASSUME Room, NEW n, NEW s, NEW h, Runs(n, s, h), tape[ptr].high # 0,
         Running.kind \in UserKinds, NEW input \in Inputs
  PROVE  Kept(Computed(input))
<1>1. IsComputation(program, Function, Running.compute, Words)
  BY RunningBlock, TableBlock DEF Runs, IsTable, Owner
<1>2. tape \in Tapes /\ Kept(tape)
  BY DEF Runs, Kept, PointersKept
<1> DEFINE l == Fields(tape, Running.compute.left, input).low
           r == Fields(tape, Running.compute.right, input).low
<1>3. l \in Words /\ r \in Words
  BY <1>1, <1>2, ValueIsByte DEF IsComputation
<1> HIDE DEF l, r
<1>4. (l + r) % Byte \in Words
  BY <1>3, ByteAssumption DEF Words
<1>5. IsPlace(program, Function, Running.compute.dest)
  BY <1>1 DEF IsComputation
<1>6. Kept(Store(tape, Running.compute.dest, (l + r) % Byte))
  BY <1>2, <1>4, <1>5, StoreKept
<1> QED
  BY <1>6 DEF Computed, l, r

\* The next block of the frame: the differences between the indices lead to its own.
LEMMA NextBlockSet ==
  ASSUME Room, NEW n, NEW s, NEW h, Runs(n, s, h), tape[ptr].high # 0,
         NEW t, Kept(t), NEW c \in Table(program), c.function = h[n].function
  PROVE  LET u == SetNextBlock(t, c.name) IN
         /\ u \in Tapes /\ Names(blocks, u, ptr, c) /\ u[ptr].high # 0
         /\ u[ptr].marker = t[ptr].marker /\ DOMAIN u = DOMAIN t
         /\ \A d \in DOMAIN t : d # ptr => u[d] = t[d]
<1>1. /\ Running = h[n] /\ Names(blocks, tape, ptr, h[n]) /\ h[n] \in Table(program)
      /\ ptr \in First(program) .. (TapeLength - 1) /\ First(program) \in Nat /\ TapeLength \in Nat
  BY RunningBlock
<1>2. t \in Tapes /\ t[ptr] = tape[ptr]
  BY <1>1 DEF Kept
<1> DEFINE next == Ix(blocks, c.function, c.name)
           own == Ix(blocks, h[n].function, h[n].name)
<1>3. Index(Running.function, c.name) = next /\ Index(Running.function, Running.name) = own
  BY <1>1 DEF Index, Ix
<1>4. next \in Pairs /\ own \in Pairs
  BY <1>1, IndexFinds DEF Runs
<1>5. t[ptr].low = own.low /\ t[ptr].high = own.high
  <2>1. TargetOf(tape, ptr) = own
    BY <1>1 DEF Names
  <2> HIDE DEF own
  <2> QED
    BY <1>2, <2>1 DEF TargetOf
<1> HIDE DEF next, own
<1>6. /\ (own.low + Byte + next.low - own.low) % Byte = next.low
      /\ (own.high + Byte + next.high - own.high) % Byte = next.high
  <2>1. ASSUME NEW x \in Words, NEW y \in Words PROVE (x + Byte + y - x) % Byte = y
    <3>1. x + Byte + y - x = Byte + y /\ Byte + y \in Nat /\ Byte \in Nat \ {0} /\ y \in 0 .. (Byte - 1)
      BY ByteAssumption DEF Words
    <3>2. Byte + y = Byte * 1 + y
      BY <3>1
    <3> HIDE DEF Words
    <3>3. 1 \in Nat
      OBVIOUS
    <3>4. (Byte + y) % Byte = y
      BY <3>1, <3>2, <3>3, DivUnique, Zenon
    <3> QED
      BY <3>1, <3>4
  <2>2. next.low \in Words /\ own.low \in Words /\ next.high \in Words /\ own.high \in Words
    BY <1>4, ByteAssumption DEF Pairs, Words
  <2> QED
    BY <2>1, <2>2
<1> DEFINE u == [t EXCEPT ![ptr].low = next.low, ![ptr].high = next.high]
<1>7. SetNextBlock(t, c.name) = u
  <2>1. SetNextBlock(t, c.name) =
          [t EXCEPT ![ptr].low = (t[ptr].low + Byte + next.low - own.low) % Byte,
                    ![ptr].high = (t[ptr].high + Byte + next.high - own.high) % Byte]
    BY <1>1, <1>2, <1>3 DEF SetNextBlock, Tapes
  <2> QED
    BY <2>1, <1>5, <1>6
<1>8. /\ u \in Tapes /\ u[ptr].low = next.low /\ u[ptr].high = next.high /\ u[ptr].marker = t[ptr].marker
      /\ DOMAIN t = 0 .. (TapeLength - 1) /\ \A d \in DOMAIN t : d # ptr => u[d] = t[d]
  <2>1. /\ ptr \in 0 .. (TapeLength - 1) /\ next.low \in Words /\ next.high \in Words
    BY <1>1, <1>4, ByteAssumption DEF Pairs, Words
  <2>2. /\ t \in [0 .. (TapeLength - 1) -> [low : Words, high : Words, marker : 0 .. 1]]
        /\ t[ptr] \in [low : Words, high : Words, marker : 0 .. 1]
    BY <1>2, <2>1 DEF Tapes
  <2>3. u \in Tapes
    BY <2>1, <2>2 DEF Tapes
  <2> QED
    BY <2>1, <2>2, <2>3
<1> HIDE DEF u
<1>9. Names(blocks, u, ptr, c)
  <2>1. next = [high |-> next.high, low |-> next.low]
    BY <1>4 DEF Pairs
  <2> QED
    BY <2>1, <1>8 DEF Names, TargetOf, next
<1>10. u[ptr].high # 0
  BY <1>4, <1>8 DEF Pairs
<1>11. DOMAIN u = DOMAIN t
  BY <1>8 DEF Tapes
<1> QED
  BY <1>7, <1>8, <1>9, <1>10, <1>11

\* Such code leaves a chain behind, in which the frame may end the program.
LEMMA KeptChain ==
  ASSUME Room, NEW n, NEW s, NEW h, Runs(n, s, h), tape[ptr].high # 0,
         NEW t, Kept(t), NEW u, u = t \/ u = [t EXCEPT ![ptr].high = 0]
  PROVE  u \in Tapes /\ Chain(program, blocks, u, ptr, n, s, h)
<1>1. /\ h[n] \in Table(program) /\ Function = Owner(program, h[n]) /\ n \in 1 .. n
      /\ ptr \in First(program) .. (TapeLength - 1) /\ First(program) \in Nat /\ TapeLength \in Nat
      /\ DOMAIN tape = 0 .. (TapeLength - 1) /\ Function \in Range(program.functions)
      /\ ptr + StackFrameSize(Function) <= TapeLength
  BY RunningBlock
<1>3. t \in Tapes /\ DOMAIN t = DOMAIN tape /\ ptr \in 0 .. (TapeLength - 1) /\ 0 \in Words
  BY <1>1, ByteAssumption DEF Kept, Tapes, Words
<1>4. /\ u \in Tapes /\ DOMAIN u = DOMAIN tape /\ u[ptr].marker = t[ptr].marker
      /\ \A d \in DOMAIN t : d # ptr => u[d] = t[d]
      /\ u[ptr] = t[ptr] \/ u[ptr].high = 0
  <2>1. CASE u = t
    BY <1>3, <2>1
  <2>2. CASE u = [t EXCEPT ![ptr].high = 0]
    BY <1>3, <2>2, HighAssigned
  <2> QED
    BY <2>1, <2>2
<1>5. \A c \in DOMAIN tape : u[c].marker = tape[c].marker
  BY <1>3, <1>4 DEF Kept
<1>6. \A c \in First(program) .. (ptr - 1) : u[c] = tape[c]
  <2>1. \A c \in First(program) .. (ptr - 1) : c \in DOMAIN t /\ c # ptr /\ c \in First(program) .. ptr
    BY <1>1, <1>3
  <2> QED
    BY <1>4, <2>1 DEF Kept
<1>7. PointersStand(program, blocks, u, ptr, Function)
  <2>1. ASSUME NEW j \in DOMAIN Function.pointers
        PROVE  u[ptr + LocalBase(Function) + j] = tape[ptr + LocalBase(Function) + j]
    <3>1. ptr + LocalBase(Function) + j \in DOMAIN t /\ ptr + LocalBase(Function) + j # ptr
      BY <1>1, <1>3, PointerCells
    <3> QED
      BY <3>1, <1>4 DEF Kept, PointersKept
  <2> QED
    BY <2>1, RunningBlock DEF PointersStand, Points, TargetOf
<1>8. Topped(program, blocks, u, ptr, h[n])
  <2>1. t[ptr] = tape[ptr]
    BY <1>1 DEF Kept
  <2>2. Names(blocks, tape, ptr, h[n])
    BY RunningBlock
  <2>3. u[ptr].high = 0 \/ Names(blocks, u, ptr, h[n])
    BY <1>4, <2>1, <2>2 DEF Names, TargetOf
  <2> QED
    BY <2>3 DEF Runs, Chain, Topped
<1>9. Chain(program, blocks, u, ptr, n, s, [h EXCEPT ![n] = h[n]])
  BY <1>1, <1>4, <1>5, <1>6, <1>7, <1>8, ChainUpdated DEF Runs
<1>10. [h EXCEPT ![n] = h[n]] = h
  BY DEF Runs, Chain, Shaped
<1> QED
  BY <1>4, <1>9, <1>10

\* Or in which the frame goes on with another of its blocks.
LEMMA StepTaken ==
  ASSUME Room, NEW n, NEW s, NEW h, Runs(n, s, h), tape[ptr].high # 0,
         NEW t, Kept(t), NEW c \in Table(program), c.function = h[n].function, c.kind # "nothing",
         c.kind = "meta" /\ c.exit.into # Nowhere => ptr + StackFrameSize(Function) + 1 < TapeLength
  PROVE  LET u == SetNextBlock(t, c.name) IN
         /\ u \in Tapes /\ Chain(program, blocks, u, ptr, n, s, [h EXCEPT ![n] = c])
         /\ Names(blocks, u, ptr, c) /\ u[ptr].high # 0 /\ PointersKept(u)
         /\ \A d \in DOMAIN tape \ {ptr} : u[d] = t[d]
<1>1. /\ h[n] \in Table(program) /\ Function = Owner(program, h[n]) /\ n \in 1 .. n
      /\ ptr \in First(program) .. (TapeLength - 1) /\ First(program) \in Nat /\ TapeLength \in Nat
      /\ DOMAIN tape = 0 .. (TapeLength - 1) /\ Function \in Range(program.functions)
      /\ ptr + StackFrameSize(Function) <= TapeLength
  BY RunningBlock
<1>3. DOMAIN t = DOMAIN tape
  BY <1>1 DEF Kept, Tapes
<1>4. PICK u : u = SetNextBlock(t, c.name)
  OBVIOUS
<1>5. /\ u \in Tapes /\ Names(blocks, u, ptr, c) /\ u[ptr].high # 0
      /\ u[ptr].marker = t[ptr].marker /\ DOMAIN u = DOMAIN t
      /\ \A d \in DOMAIN t : d # ptr => u[d] = t[d]
  BY <1>4, NextBlockSet
<1>6. \A d \in DOMAIN tape : u[d].marker = tape[d].marker
  BY <1>3, <1>5 DEF Kept
<1>7. \A d \in First(program) .. (ptr - 1) : u[d] = tape[d]
  <2>1. \A d \in First(program) .. (ptr - 1) : d \in DOMAIN t /\ d # ptr /\ d \in First(program) .. ptr
    BY <1>1, <1>3
  <2> QED
    BY <1>5, <2>1 DEF Kept
<1>8. PointersKept(u)
  <2>1. ASSUME NEW j \in DOMAIN Function.pointers
        PROVE  u[ptr + LocalBase(Function) + j] = tape[ptr + LocalBase(Function) + j]
    <3>1. ptr + LocalBase(Function) + j \in DOMAIN t /\ ptr + LocalBase(Function) + j # ptr
      BY <1>1, <1>3, PointerCells
    <3> QED
      BY <3>1, <1>5 DEF Kept, PointersKept
  <2> QED
    BY <2>1 DEF PointersKept
<1>9. PointersStand(program, blocks, u, ptr, Function)
  BY <1>8, RunningBlock DEF PointersKept, PointersStand, Points, TargetOf
<1>10. Owner(program, c) = Function
  BY <1>1 DEF Owner
<1>11. Topped(program, blocks, u, ptr, c)
  BY <1>1, <1>5, <1>10 DEF Topped, SizeAt
<1>12. Chain(program, blocks, u, ptr, n, s, [h EXCEPT ![n] = c])
  BY <1>3, <1>5, <1>6, <1>7, <1>9, <1>10, <1>11, ChainUpdated DEF Runs
<1> QED
  BY <1>3, <1>4, <1>5, <1>8, <1>12

----------------------------------------------------------------------------
(* The blocks. *)

\* The block that a label of the running function stands for.
LEMMA LabelFound ==
  ASSUME Room, NEW n, NEW s, NEW h, Runs(n, s, h), tape[ptr].high # 0,
         NEW label \in {b.label : b \in Range(Function.blocks)}
  PROVE  \E c \in Users(program) :
           /\ c \in Table(program) /\ c.function = h[n].function /\ c.name = Label(label)
           /\ c.kind \in UserKinds /\ c.kind \notin {"nothing", "meta"}
<1>1. Function \in Range(program.functions) /\ Function.name = h[n].function
  BY RunningBlock
<1>2. PICK c \in Users(program) :
        c.function = Function.name /\ c.name = Label(label) /\ c.kind \in UserKinds
  BY <1>1, LabelBlock DEF Runs, IsTable
<1>3. c \in Table(program)
  BY DEF Table
<1>4. c.kind \notin {"nothing", "meta"}
  BY <1>2 DEF UserKinds
<1> QED
  BY <1>1, <1>2, <1>3, <1>4

\* The frame goes on with the block c of its function, and only its TargetBlock says so.
GoesOn(n, s, h, t, u, c) ==
  /\ c \in Table(program) /\ c.function = h[n].function /\ c.kind \in UserKinds
  /\ Chain(program, blocks, u, ptr, n, s, [h EXCEPT ![n] = c])
  /\ u[ptr].high # 0 /\ \A d \in DOMAIN tape \ {ptr} : u[d] = t[d]

\* A jump.
LEMMA JumpChain ==
  ASSUME Room, NEW n, NEW s, NEW h, Runs(n, s, h), NEW input \in Inputs, Jump(input)
  PROVE  /\ ptr' = ptr /\ tape' \in Tapes
         /\ \E c \in Users(program) :
              c.name = Label(h[n].exit.next) /\ GoesOn(n, s, h, Computed(input), tape', c)
<1>1. /\ tape[ptr].high # 0 /\ Running.kind = "jump" /\ ptr' = ptr
      /\ tape' = SetNextBlock(Computed(input), Label(Running.exit.next))
  BY DEF Jump, Dispatched
<1>2. Running = h[n] /\ Function = Owner(program, h[n]) /\ h[n] \in Table(program)
  BY <1>1, RunningBlock
<1>3. Running.kind \in UserKinds
  BY <1>1 DEF UserKinds
<1>4. IsExit(program, Function, h[n].exit, Words) /\ h[n].exit.kind = "jump"
  BY <1>1, <1>2, <1>3, TableBlock DEF Runs, IsTable, Owner
<1>5. h[n].exit.next \in {b.label : b \in Range(Function.blocks)}
  BY <1>4 DEF IsExit
<1>6. PICK c \in Users(program) :
        /\ c \in Table(program) /\ c.function = h[n].function /\ c.name = Label(h[n].exit.next)
        /\ c.kind \in UserKinds /\ c.kind \notin {"nothing", "meta"}
  BY <1>1, <1>5, LabelFound
<1>7. Kept(Computed(input))
  BY <1>1, <1>3, ComputedKept
<1>8. tape' = SetNextBlock(Computed(input), c.name)
  BY <1>1, <1>2, <1>6
<1>9. /\ tape' \in Tapes /\ Chain(program, blocks, tape', ptr, n, s, [h EXCEPT ![n] = c])
      /\ tape'[ptr].high # 0 /\ \A d \in DOMAIN tape \ {ptr} : tape'[d] = Computed(input)[d]
  BY <1>1, <1>6, <1>7, <1>8, StepTaken
<1> QED
  BY <1>1, <1>6, <1>9 DEF GoesOn

\* A branch, to one or the other.
LEMMA BranchChain ==
  ASSUME Room, NEW n, NEW s, NEW h, Runs(n, s, h), NEW input \in Inputs, Branch(input)
  PROVE  /\ ptr' = ptr /\ tape' \in Tapes
         /\ \E c \in Users(program) :
              /\ c.name = Label(IF Fields(Computed(input), h[n].exit.on, input).low # 0
                                THEN h[n].exit.next ELSE h[n].exit.otherwise)
              /\ GoesOn(n, s, h, Computed(input), tape', c)
<1> DEFINE label == IF Fields(Computed(input), Running.exit.on, input).low # 0
                    THEN Running.exit.next ELSE Running.exit.otherwise
<1>1. /\ tape[ptr].high # 0 /\ Running.kind = "branch" /\ ptr' = ptr
      /\ tape' = SetNextBlock(Computed(input), Label(label))
  BY DEF Branch, Dispatched
<1>2. Running = h[n] /\ Function = Owner(program, h[n]) /\ h[n] \in Table(program)
  BY <1>1, RunningBlock
<1>3. Running.kind \in UserKinds
  BY <1>1 DEF UserKinds
<1>4. IsExit(program, Function, h[n].exit, Words) /\ h[n].exit.kind = "branch"
  BY <1>1, <1>2, <1>3, TableBlock DEF Runs, IsTable, Owner
<1>5. {h[n].exit.next, h[n].exit.otherwise} \subseteq {b.label : b \in Range(Function.blocks)}
  BY <1>4 DEF IsExit
<1>6. label \in {b.label : b \in Range(Function.blocks)}
  BY <1>2, <1>5
<1> HIDE DEF label
<1>7. PICK c \in Users(program) :
        /\ c \in Table(program) /\ c.function = h[n].function /\ c.name = Label(label)
        /\ c.kind \in UserKinds /\ c.kind \notin {"nothing", "meta"}
  BY <1>1, <1>6, LabelFound
<1>8. Kept(Computed(input))
  BY <1>1, <1>3, ComputedKept
<1>9. tape' = SetNextBlock(Computed(input), c.name)
  BY <1>1, <1>7
<1>10. /\ tape' \in Tapes /\ Chain(program, blocks, tape', ptr, n, s, [h EXCEPT ![n] = c])
       /\ tape'[ptr].high # 0 /\ \A d \in DOMAIN tape \ {ptr} : tape'[d] = Computed(input)[d]
  BY <1>1, <1>7, <1>8, <1>9, StepTaken
<1>11. label = IF Fields(Computed(input), h[n].exit.on, input).low # 0
               THEN h[n].exit.next ELSE h[n].exit.otherwise
  BY <1>2 DEF label
<1> QED
  BY <1>1, <1>7, <1>10, <1>11 DEF GoesOn

\* The end of the program by an abort.
LEMMA AbortChain ==
  ASSUME Room, NEW n, NEW s, NEW h, Runs(n, s, h), NEW input \in Inputs, Abort(input)
  PROVE  ptr' = ptr /\ tape' \in Tapes /\ Chain(program, blocks, tape', ptr, n, s, h)
<1>1. /\ tape[ptr].high # 0 /\ Running.kind \in UserKinds /\ ptr' = ptr
      /\ tape' = [Computed(input) EXCEPT ![ptr].high = 0]
  BY DEF Abort, Dispatched, UserKinds
<1>2. Kept(Computed(input))
  BY <1>1, ComputedKept
<1> QED
  BY <1>1, <1>2, KeptChain

\* What a metablock fetches is beyond the frame.
LEMMA FetchedKept ==
  ASSUME Room, NEW n, NEW s, NEW h, Runs(n, s, h), tape[ptr].high # 0, Running.kind = "meta"
  PROVE  /\ Kept(Fetched) /\ h[n].exit.next \in {b.label : b \in Range(Function.blocks)}
         /\ IsPlace(program, Function, h[n].exit.into)
         /\ h[n].exit.into # Nowhere => ptr + StackFrameSize(Function) + 1 \in 0 .. (TapeLength - 1)
<1>1. /\ Running = h[n] /\ Function = Owner(program, h[n]) /\ h[n] \in Table(program)
      /\ ptr \in First(program) .. (TapeLength - 1) /\ First(program) \in Nat /\ TapeLength \in Nat
      /\ Function \in Range(program.functions) /\ DOMAIN tape = 0 .. (TapeLength - 1)
  BY RunningBlock
<1>2. IsExit(program, Function, h[n].exit, Words) /\ h[n].exit.kind = "call"
  BY <1>1, TableBlock DEF Runs, IsTable, Owner
<1>3. /\ h[n].exit.next \in {b.label : b \in Range(Function.blocks)}
      /\ IsPlace(program, Function, h[n].exit.into)
  BY <1>2 DEF IsExit, Suits
<1>4. StackFrameSize(Function) \in Nat \ {0}
  BY <1>1, FrameSizes DEF Runs
<1>5. h[n].exit.into # Nowhere => ptr + StackFrameSize(Function) + 1 < TapeLength
  BY <1>1 DEF Runs, Chain, Topped, SizeAt
<1>6. CASE h[n].exit.into = Nowhere
  <2>1. Fetched = tape
    BY <1>1, <1>6 DEF Fetched
  <2>2. Kept(tape)
    BY DEF Runs, Kept, PointersKept
  <2> QED
    BY <1>3, <1>6, <2>1, <2>2
<1>7. CASE h[n].exit.into # Nowhere
  <2> DEFINE cell == ptr + StackFrameSize(Function) + ReturnValueStart
             t == [tape EXCEPT ![cell].low = 0]
  <2>1. cell = ptr + StackFrameSize(Function) + 1
    BY DEF ReturnValueStart
  <2>2. cell \in 0 .. (TapeLength - 1) /\ cell \notin First(program) .. ptr
    BY <1>1, <1>4, <1>5, <1>7, <2>1
  <2>3. \A j \in DOMAIN Function.pointers :
          cell # ptr + LocalBase(Function) + j /\ ptr + LocalBase(Function) + j \in DOMAIN tape
    <3>1. ASSUME NEW j \in DOMAIN Function.pointers
          PROVE  ptr + LocalBase(Function) + j < cell
      <4>1. /\ j \in 0 .. (Function.locals - 1) /\ Function.locals \in Nat /\ LocalBase(Function) \in 1 .. 2
            /\ StackFrameSize(Function) = LocalBase(Function) + Function.locals
        BY <1>1, FrameSizes DEF Runs
      <4> QED
        BY <1>1, <2>1, <4>1
    <3>2. cell \in Nat
      BY <2>2
    <3> HIDE DEF cell
    <3> QED
      BY <1>1, <3>1, <3>2, PointerCells
  <2>4. tape[cell].low \in Words /\ 0 \in Words /\ tape \in Tapes
    BY <2>2, ByteAssumption DEF Runs, Tapes, Words
  <2>5. Fetched = Store(t, h[n].exit.into, tape[cell].low)
    BY <1>1, <1>7 DEF Fetched
  <2>6. /\ t \in Tapes /\ DOMAIN t = DOMAIN tape /\ t[cell].marker = tape[cell].marker
        /\ \A d \in DOMAIN tape : d # cell => t[d] = tape[d]
    <3>1. t = [tape EXCEPT ![cell].low = 0]
      OBVIOUS
    <3> HIDE DEF t, cell
    <3> QED
      BY <2>2, <2>4, <3>1, LowAssigned
  <2> HIDE DEF t, cell
  <2>7. Kept(t)
    <3>1. \A c \in First(program) .. ptr : c \in DOMAIN tape /\ c # cell
      BY <1>1, <2>2
    <3> QED
      BY <2>3, <2>6, <3>1 DEF Kept, PointersKept
  <2>8. Kept(Fetched)
    BY <1>3, <2>4, <2>5, <2>7, StoreKept
  <2> QED
    BY <1>3, <2>1, <2>2, <2>8
<1> QED
  BY <1>6, <1>7

\* The caller goes on.
LEMMA ResumeChain ==
  ASSUME Room, NEW n, NEW s, NEW h, Runs(n, s, h), Resume
  PROVE  /\ ptr' = ptr /\ tape' \in Tapes
         /\ \E c \in Users(program) :
              c.name = Label(h[n].exit.next) /\ GoesOn(n, s, h, Fetched, tape', c)
<1>1. /\ tape[ptr].high # 0 /\ Running.kind = "meta" /\ ptr' = ptr
      /\ tape' = SetNextBlock(Fetched, Label(Running.exit.next))
  BY DEF Resume, Dispatched
<1>2. Running = h[n]
  BY <1>1, RunningBlock
<1>3. Kept(Fetched) /\ h[n].exit.next \in {b.label : b \in Range(Function.blocks)}
  BY <1>1, FetchedKept
<1>4. PICK c \in Users(program) :
        /\ c \in Table(program) /\ c.function = h[n].function /\ c.name = Label(h[n].exit.next)
        /\ c.kind \in UserKinds /\ c.kind \notin {"nothing", "meta"}
  BY <1>1, <1>3, LabelFound
<1>5. tape' = SetNextBlock(Fetched, c.name)
  BY <1>1, <1>2, <1>4
<1>6. /\ tape' \in Tapes /\ Chain(program, blocks, tape', ptr, n, s, [h EXCEPT ![n] = c])
      /\ tape'[ptr].high # 0 /\ \A d \in DOMAIN tape \ {ptr} : tape'[d] = Fetched[d]
  BY <1>1, <1>3, <1>4, <1>5, StepTaken
<1> QED
  BY <1>1, <1>4, <1>6 DEF GoesOn

\* The tape with the value that a return leaves in the frame.
Returned(input) ==
  IF Function.returns
  THEN [Computed(input) EXCEPT ![ptr + ReturnValueStart].low =
                                 Fields(Computed(input), Running.exit.value, input).low]
  ELSE Computed(input)

\* A return writes nothing but the value, in its own frame.
LEMMA ReturnedKept ==
  ASSUME Room, NEW n, NEW s, NEW h, Runs(n, s, h), tape[ptr].high # 0,
         Running.kind = "return", NEW input \in Inputs
  PROVE  Kept(Returned(input))
<1>1. /\ Running = h[n] /\ Function = Owner(program, h[n]) /\ h[n] \in Table(program)
      /\ ptr \in First(program) .. (TapeLength - 1) /\ First(program) \in Nat /\ TapeLength \in Nat
      /\ Function \in Range(program.functions) /\ DOMAIN tape = 0 .. (TapeLength - 1)
      /\ ptr + StackFrameSize(Function) <= TapeLength
  BY RunningBlock
<1>2. Running.kind \in UserKinds
  BY DEF UserKinds
<1>3. IsExit(program, Function, h[n].exit, Words) /\ h[n].exit.kind = "return"
  BY <1>1, <1>2, TableBlock DEF Runs, IsTable, Owner
<1>4. PICK t : t = Computed(input)
  OBVIOUS
<1>5. Kept(t)
  BY <1>2, <1>4, ComputedKept
<1>6. CASE Function.returns
  <2>1. IsValue(program, Function, h[n].exit.value, Words)
    BY <1>3, <1>6 DEF IsExit
  <2>2. t \in Tapes
    BY <1>5 DEF Kept
  <2>3. PICK v \in Words : v = Fields(t, Running.exit.value, input).low
    BY <1>1, <2>1, <2>2, ValueIsByte
  <2>4. PICK cell : cell = ptr + ReturnValueStart
    OBVIOUS
  <2>5. PICK u : u = [t EXCEPT ![cell].low = v]
    OBVIOUS
  <2>6. Returned(input) = u
    BY <1>4, <1>6, <2>3, <2>4, <2>5 DEF Returned
  <2>7. cell = ptr + 1
    BY <2>4 DEF ReturnValueStart
  <2>8. cell \in 0 .. (TapeLength - 1) /\ cell \notin First(program) .. ptr
    <3>1. StackFrameSize(Function) \in Nat /\ StackFrameSize(Function) >= 2
      BY <1>1, <1>6, FrameSizes DEF Runs
    <3> QED
      BY <1>1, <2>7, <3>1
  <2>9. /\ u \in Tapes /\ u[cell].marker = t[cell].marker /\ DOMAIN t = DOMAIN tape
        /\ \A d \in DOMAIN t : d # cell => u[d] = t[d]
    BY <1>1, <2>2, <2>5, <2>8, LowAssigned
  <2>10. \A c \in First(program) .. ptr : c \in DOMAIN t /\ c # cell
    BY <1>1, <2>8, <2>9
  <2>11. \A j \in DOMAIN Function.pointers :
           ptr + LocalBase(Function) + j \in DOMAIN t /\ ptr + LocalBase(Function) + j # cell
    BY <1>1, <1>6, <2>7, <2>9, PointerCells
  <2> QED
    BY <1>5, <2>6, <2>9, <2>10, <2>11 DEF Kept, PointersKept
<1>7. CASE ~ Function.returns
  BY <1>4, <1>5, <1>7 DEF Returned
<1> QED
  BY <1>6, <1>7

\* A return: the entry function ends the program, any other leaves its frame.
LEMMA ReturnChain ==
  ASSUME Room, NEW n, NEW s, NEW h, Runs(n, s, h), NEW input \in Inputs, Return(input)
  PROVE  /\ tape' \in Tapes
         /\ Function.name = program.entry =>
              /\ ptr' = ptr /\ Chain(program, blocks, tape', ptr, n, s, h)
              /\ tape' = [Returned(input) EXCEPT ![ptr].high = 0]
         /\ Function.name # program.entry =>
              /\ n # 1 /\ ptr' = s[n - 1] /\ tape' = [Returned(input) EXCEPT ![ptr].marker = 0]
              /\ Chain(program, blocks, tape', s[n - 1], n - 1, Shortened(n, s), Shortened(n, h))
<1>1. /\ tape[ptr].high # 0 /\ Running.kind = "return" /\ PopFrame(Returned(input))
  BY DEF Return, Dispatched, Returned
<1>2. /\ Running = h[n] /\ Function = Owner(program, h[n]) /\ h[n] \in Table(program)
      /\ ptr \in First(program) .. (TapeLength - 1) /\ First(program) \in Nat /\ TapeLength \in Nat
      /\ Function.name = h[n].function /\ DOMAIN tape = 0 .. (TapeLength - 1)
  BY <1>1, RunningBlock
<1>3. PICK t : t = Returned(input)
  OBVIOUS
<1>4. Kept(t) /\ t \in Tapes
  BY <1>1, <1>3, ReturnedKept DEF Kept
<1>5. CASE Function.name = program.entry
  <2>1. tape' = [t EXCEPT ![ptr].high = 0] /\ ptr' = ptr
    BY <1>1, <1>3, <1>5 DEF PopFrame
  <2>2. tape' \in Tapes /\ Chain(program, blocks, tape', ptr, n, s, h)
    BY <1>1, <1>4, <2>1, KeptChain
  <2> QED
    BY <1>3, <1>5, <2>1, <2>2
<1>6. CASE Function.name # program.entry
  <2>1. tape' = [t EXCEPT ![ptr].marker = 0] /\ ptr' = PreviousFrame(t)
    BY <1>1, <1>3, <1>6 DEF PopFrame
  <2>2. n # 1
    BY <1>2, <1>6 DEF Runs, Chain, Shaped
  <2>3. Chain(program, blocks, t, ptr, n, s, h)
    BY <1>1, <1>4, KeptChain
  <2>4. IsTable(program, blocks)
    BY DEF Runs
  <2>5. PreviousFrame(t) = s[n - 1]
    BY <1>4, <2>2, <2>3, <2>4, PreviousFound DEF PreviousFrame
  <2>6. /\ tape' \in Tapes /\ DOMAIN tape' = DOMAIN t /\ tape'[ptr].marker = 0
        /\ DOMAIN t = 0 .. (TapeLength - 1) /\ \A d \in DOMAIN t : d # ptr => tape'[d] = t[d]
    <3>1. ptr \in 0 .. (TapeLength - 1) /\ 0 \in 0 .. 1
      BY <1>2
    <3> QED
      BY <1>4, <2>1, <3>1, MarkerAssigned
  <2>7. \A c \in DOMAIN t : tape'[c].marker = IF c = ptr THEN 0 ELSE t[c].marker
    BY <2>6
  <2>8. \A c \in First(program) .. (ptr - 1) : tape'[c] = t[c]
    <3>1. \A c \in First(program) .. (ptr - 1) : c \in DOMAIN t /\ c # ptr
      BY <1>2, <2>6
    <3> QED
      BY <2>6, <3>1
  <2>9. Chain(program, blocks, tape', s[n - 1], n - 1, Shortened(n, s), Shortened(n, h))
    <3>1. PICK u : u = tape'
      OBVIOUS
    <3>2. /\ DOMAIN u = DOMAIN t /\ \A c \in DOMAIN t : u[c].marker = IF c = ptr THEN 0 ELSE t[c].marker
          /\ \A c \in First(program) .. (ptr - 1) : u[c] = t[c]
      BY <2>6, <2>7, <2>8, <3>1
    <3>3. Chain(program, blocks, u, s[n - 1], n - 1, Shortened(n, s), Shortened(n, h))
      BY <2>2, <2>3, <2>4, <3>2, ChainPopped
    <3> QED
      BY <3>1, <3>3
  <2> QED
    BY <1>3, <1>6, <2>1, <2>2, <2>5, <2>6, <2>9
<1> QED
  BY <1>5, <1>6

Cells == [low : Words, high : Words, marker : 0 .. 1]

\* A function pointer is passed whole.
LEMMA ArgumentPassed ==
  ASSUME Room, NEW n, NEW s, NEW h, Runs(n, s, h), tape[ptr].high # 0,
         NEW t \in Tapes, PointersKept(t), NEW input \in Inputs, NEW cell \in Cells, NEW o
  PROVE  /\ IsValue(program, Function, o, Words) =>
              Passed(cell, t, o, input) \in Cells /\ Passed(cell, t, o, input).marker = cell.marker
         /\ \A type :
              /\ IsAddress(program, Function, o, type)
              /\ \A g \in Range(program.functions) :
                   o = FunctionAddress(g.name) => IsCallable(program, g.name)
              => /\ Passed(cell, t, o, input) \in Cells /\ Passed(cell, t, o, input).marker = cell.marker
                 /\ \E g \in Range(program.functions) :
                      /\ g.type = type /\ IsCallable(program, g.name)
                      /\ Passed(cell, t, o, input).high = EntryIx(blocks, g).high
                      /\ Passed(cell, t, o, input).low = EntryIx(blocks, g).low
                      /\ Fields(t, o, input) = EntryIx(blocks, g)
<1>1. \A g \in Range(program.functions) : EntryIx(blocks, g) \in Pairs
  <2>1. ASSUME NEW g \in Range(program.functions) PROVE EntryIx(blocks, g) \in Pairs
    <3>1. PICK c \in Users(program) : c.function = g.name /\ c.name = Label(EntryOf(g))
      BY LabelBlock DEF Runs, IsTable
    <3>2. c \in Table(program)
      BY DEF Table
    <3> QED
      BY <3>1, <3>2, IndexFinds DEF EntryIx, Runs
  <2> QED
    BY <2>1
<1>2. ASSUME IsValue(program, Function, o, Words)
      PROVE  Passed(cell, t, o, input) \in Cells /\ Passed(cell, t, o, input).marker = cell.marker
  <2>1. PICK v \in Words : v = Fields(t, o, input).low
    BY <1>2, ValueIsByte
  <2>2. CASE /\ o.kind # "global"
             /\ o.kind = "local" => o.at \in DOMAIN Function.pointers
    <3>1. o.kind = "constant" \/ o.kind = "input"
      <4>1. ASSUME NEW k \in (0 .. (Function.locals - 1)) \ DOMAIN Function.pointers, o = Local(k)
            PROVE  FALSE
        BY <2>2, <4>1 DEF Local
      <4>2. ASSUME NEW k, o = Global(k) PROVE FALSE
        BY <2>2, <4>2 DEF Global
      <4>3. ASSUME NEW k, o = Constant(k) PROVE o.kind = "constant"
        BY <4>3 DEF Constant
      <4>4. o = Input => o.kind = "input"
        BY DEF Input
      <4> QED
        BY <1>2, <4>1, <4>2, <4>3, <4>4 DEF IsValue, IsPlace
    <3>2. Fields(t, o, input).high = 0 /\ 0 \in Words
      BY <3>1, ByteAssumption DEF Fields, Words
    <3>3. Passed(cell, t, o, input) = [cell EXCEPT !.high = 0, !.low = v]
      BY <2>1, <2>2, <3>2 DEF Passed
    <3> QED
      BY <2>1, <3>2, <3>3 DEF Cells
  <2>3. CASE o.kind = "global" \/ (o.kind = "local" /\ o.at \notin DOMAIN Function.pointers)
    <3>1. Passed(cell, t, o, input) = [cell EXCEPT !.low = v]
      BY <2>1, <2>3 DEF Passed
    <3> QED
      BY <2>1, <3>1 DEF Cells
  <2> QED
    BY <2>2, <2>3
<1>3. ASSUME NEW type, IsAddress(program, Function, o, type),
             \A g \in Range(program.functions) : o = FunctionAddress(g.name) => IsCallable(program, g.name)
      PROVE  /\ Passed(cell, t, o, input) \in Cells /\ Passed(cell, t, o, input).marker = cell.marker
             /\ \E g \in Range(program.functions) :
                  /\ g.type = type /\ IsCallable(program, g.name)
                  /\ Passed(cell, t, o, input).high = EntryIx(blocks, g).high
                  /\ Passed(cell, t, o, input).low = EntryIx(blocks, g).low
                  /\ Fields(t, o, input) = EntryIx(blocks, g)
  <2>1. PICK g \in Range(program.functions) :
          g.type = type /\ IsCallable(program, g.name) /\ Fields(t, o, input) = EntryIx(blocks, g)
    BY <1>3, AddressIsIndex
  <2>2. o.kind # "global" /\ ~ (o.kind = "local" /\ o.at \notin DOMAIN Function.pointers)
    BY <1>3 DEF IsAddress, FunctionAddress, Local
  <2>3. PICK i \in Pairs : i = EntryIx(blocks, g)
    BY <1>1
  <2>4. Passed(cell, t, o, input) = [cell EXCEPT !.high = i.high, !.low = i.low]
    BY <2>1, <2>2, <2>3 DEF Passed
  <2>5. i.high \in Words /\ i.low \in Words
    BY ByteAssumption DEF Pairs, Words
  <2>6. /\ Passed(cell, t, o, input) \in Cells /\ Passed(cell, t, o, input).marker = cell.marker
        /\ Passed(cell, t, o, input).high = i.high /\ Passed(cell, t, o, input).low = i.low
    BY <2>4, <2>5 DEF Cells
  <2> QED
    BY <2>1, <2>3, <2>6
<1> QED
  BY <1>2, <1>3

\* The addresses that a call mentions are those of functions that are called.
LEMMA CallMentions ==
  ASSUME NEW p, NEW b \in Users(p), b.kind = "call", NEW name,
         FunctionAddress(name) = b.exit.callee \/ FunctionAddress(name) \in Range(b.exit.args)
  PROVE  IsCallable(p, name)
<1>1. PICK f \in Range(p.functions) : \E k \in DOMAIN f.blocks : b = UserBlock(f, k)
  BY DEF Users
<1>2. PICK k \in DOMAIN f.blocks : b = UserBlock(f, k)
  BY <1>1
<1>3. b.exit = f.blocks[k].exit /\ b.kind = f.blocks[k].exit.kind
  BY <1>2 DEF UserBlock
<1>4. f.blocks[k] \in Range(f.blocks)
  BY DEF Range
<1> QED
  BY <1>3, <1>4 DEF IsCallable

\* The call that ends the block b calls g, at whose entry is the block e.
IsCallee(g, e, b, t, input) ==
  /\ Fields(t, b.exit.callee, input) = EntryIx(blocks, g)
  /\ At(blocks, EntryIx(blocks, g)) = e /\ FunctionOf(program, e.function) = g
  /\ e \in Table(program) /\ e.kind \in UserKinds /\ Ix(blocks, e.function, e.name) = EntryIx(blocks, g)
  /\ e.function = g.name /\ e.name = Label(EntryOf(g))
  /\ IsCallable(program, g.name) /\ (b.exit.into = Nowhere \/ g.returns)
  /\ b.exit.args \in Seq(Range(b.exit.args)) /\ Len(b.exit.args) = g.params
  /\ \A k \in DOMAIN b.exit.args :
       IF k - 1 \in DOMAIN g.pointers
       THEN IsAddress(program, Function, b.exit.args[k], g.pointers[k - 1])
       ELSE IsValue(program, Function, b.exit.args[k], Words)

\* Whom a call calls: a function that is called with arguments as it takes them.
LEMMA CalleeFound ==
  ASSUME Room, NEW n, NEW s, NEW h, Runs(n, s, h), tape[ptr].high # 0, Running.kind = "call",
         NEW t, PointersKept(t), NEW input \in Inputs
  PROVE  \E g \in Range(program.functions) : \E e \in Users(program) : IsCallee(g, e, h[n], t, input)
<1>1. Running = h[n] /\ Function = Owner(program, h[n]) /\ h[n] \in Table(program)
  BY RunningBlock
<1>2. h[n].kind \in UserKinds
  BY <1>1 DEF UserKinds
<1>3. IsExit(program, Function, h[n].exit, Words) /\ h[n].exit.kind = "call" /\ h[n] \in Users(program)
  BY <1>1, <1>2, TableBlock DEF Runs, IsTable, Owner
<1>4. PICK f \in Range(program.functions) : Suits(program, Function, h[n].exit, f, Words)
  BY <1>3 DEF IsExit
<1>5. IsAddress(program, Function, h[n].exit.callee, f.type)
  BY <1>4 DEF Suits
<1>6. \A g \in Range(program.functions) :
        h[n].exit.callee = FunctionAddress(g.name) => IsCallable(program, g.name)
  BY <1>1, <1>3, CallMentions
<1>7. PICK g \in Range(program.functions) :
        /\ g.type = f.type /\ IsCallable(program, g.name)
        /\ Fields(t, h[n].exit.callee, input) = EntryIx(blocks, g)
  BY <1>5, <1>6, AddressIsIndex
<1>8. f.params = g.params /\ f.returns = g.returns /\ f.pointers = g.pointers
  <2>1. IsFunction(program, g, Words) /\ IsFunction(program, f, Words)
    BY DEF Runs, IsTable, WellFormed
  <2> QED
    BY <1>7, <2>1, Zenon DEF IsFunction
<1>9. PICK e \in Users(program) :
        e.function = g.name /\ e.name = Label(EntryOf(g)) /\ e.kind \in UserKinds
  BY LabelBlock DEF Runs, IsTable
<1>10. e \in Table(program)
  BY DEF Table
<1>11. Ix(blocks, e.function, e.name) = EntryIx(blocks, g)
  BY <1>9 DEF EntryIx
<1>12. At(blocks, EntryIx(blocks, g)) = e
  BY <1>10, <1>11, IndexFinds DEF Runs
<1>13. FunctionOf(program, e.function) = g
  BY <1>9, NamesDetermine DEF Runs, IsTable
<1>14. /\ h[n].exit.into = Nowhere \/ g.returns
       /\ h[n].exit.args \in Seq(Range(h[n].exit.args)) /\ Len(h[n].exit.args) = g.params
       /\ \A k \in DOMAIN h[n].exit.args :
            IF k - 1 \in DOMAIN g.pointers
            THEN IsAddress(program, Function, h[n].exit.args[k], g.pointers[k - 1])
            ELSE IsValue(program, Function, h[n].exit.args[k], Words)
  BY <1>4, <1>8 DEF Suits
<1> QED
  BY <1>7, <1>9, <1>10, <1>11, <1>12, <1>13, <1>14 DEF IsCallee

\* The call has made a frame for g at base, in the tape u: t is the tape it is made from.
CallMade(n, s, h, t, base, u, g, e, input) ==
  /\ IsCallee(g, e, h[n], t, input) /\ base + StackFrameSize(g) <= TapeLength
  /\ u[base].high # 0
  /\ Chain(program, blocks, u, base, n + 1, Extended(n, s, base),
           Extended(n, [h EXCEPT ![n] = MetaBlock(h[n])], e))
  /\ \A c \in 0 .. (base - 1) : u[c] = t[c]
  /\ \A k \in DOMAIN h[n].exit.args :
       u[base + LocalBase(g) + (k - 1)] =
         Passed(t[base + LocalBase(g) + (k - 1)], t, h[n].exit.args[k], input)

\* The frame that a call makes for its callee.
LEMMA CallChain ==
  ASSUME Room, NEW n, NEW s, NEW h, Runs(n, s, h), NEW input \in Inputs, Call(input)
  PROVE  /\ tape' \in Tapes /\ ptr' = ptr + StackFrameSize(Function)
         /\ SetNextBlock(Computed(input), ReturnTo(h[n])) \in Tapes
         /\ \A d \in DOMAIN tape \ {ptr} : SetNextBlock(Computed(input), ReturnTo(h[n]))[d] = Computed(input)[d]
         /\ PointersKept(SetNextBlock(Computed(input), ReturnTo(h[n])))
         /\ \E g \in Range(program.functions) : \E e \in Users(program) :
              CallMade(n, s, h, SetNextBlock(Computed(input), ReturnTo(h[n])),
                       ptr + StackFrameSize(Function), tape', g, e, input)
<1>1. /\ tape[ptr].high # 0 /\ Running.kind = "call"
  BY DEF Call, Dispatched
<1>2. /\ Running = h[n] /\ Function = Owner(program, h[n]) /\ h[n] \in Table(program) /\ n \in 1 .. n
      /\ n \in Nat \ {0} /\ Function.name = h[n].function
      /\ ptr \in First(program) .. (TapeLength - 1) /\ First(program) \in Nat /\ TapeLength \in Nat
      /\ Function \in Range(program.functions) /\ DOMAIN tape = 0 .. (TapeLength - 1)
      /\ ptr + StackFrameSize(Function) <= TapeLength /\ IsTable(program, blocks)
  BY <1>1, RunningBlock DEF Runs
<1>3. Running.kind \in UserKinds /\ h[n].kind = "call"
  BY <1>1, <1>2 DEF UserKinds
<1>4. h[n] \in Users(program) /\ MetaBlock(h[n]) \in Table(program)
  BY <1>1, <1>2, <1>3, TableBlock DEF IsTable
<1>5. Kept(Computed(input))
  BY <1>1, <1>3, ComputedKept
<1>6. PICK m : m = MetaBlock(h[n])
  OBVIOUS
<1>7. /\ m \in Table(program) /\ m.function = h[n].function /\ m.name = ReturnTo(h[n])
      /\ m.kind = "meta" /\ m.exit = h[n].exit
  BY <1>4, <1>6, BlocksMade DEF ReturnTo
<1>8. PICK t : t = SetNextBlock(Computed(input), ReturnTo(h[n]))
  OBVIOUS
<1>9. t = SetNextBlock(Computed(input), m.name)
  BY <1>7, <1>8
<1>10. /\ t \in Tapes /\ DOMAIN t = DOMAIN tape
       /\ \A d \in DOMAIN tape : d # ptr => t[d] = Computed(input)[d]
  <2>1. DOMAIN Computed(input) = DOMAIN tape
    BY <1>2, <1>5 DEF Kept, Tapes
  <2> QED
    BY <1>1, <1>5, <1>7, <1>9, <2>1, NextBlockSet
<1>11. PointersKept(t)
  <2>1. ASSUME NEW j \in DOMAIN Function.pointers
        PROVE  ptr + LocalBase(Function) + j \in DOMAIN tape /\ ptr + LocalBase(Function) + j # ptr
    BY <1>1, <1>2, PointerCells
  <2> QED
    BY <1>5, <1>10, <2>1 DEF Kept, PointersKept
<1> DEFINE exit == h[n].exit
           base == ptr + StackFrameSize(Function)
<1>12. PICK g \in Range(program.functions) : \E e \in Users(program) : IsCallee(g, e, h[n], t, input)
  BY <1>1, <1>11, CalleeFound, Zenon
<1>13. PICK e \in Users(program) : IsCallee(g, e, h[n], t, input)
  BY <1>12, Zenon
<1>13a. /\ Fields(t, exit.callee, input) = EntryIx(blocks, g)
       /\ At(blocks, EntryIx(blocks, g)) = e /\ FunctionOf(program, e.function) = g
       /\ e \in Table(program) /\ e.kind \in UserKinds /\ Ix(blocks, e.function, e.name) = EntryIx(blocks, g)
       /\ e.function = g.name /\ e.name = Label(EntryOf(g))
       /\ IsCallable(program, g.name) /\ (exit.into = Nowhere \/ g.returns)
       /\ exit.args \in Seq(Range(exit.args)) /\ Len(exit.args) = g.params
       /\ \A k \in DOMAIN exit.args :
            IF k - 1 \in DOMAIN g.pointers
            THEN IsAddress(program, Function, exit.args[k], g.pointers[k - 1])
            ELSE IsValue(program, Function, exit.args[k], Words)
  BY <1>13, Zenon DEF IsCallee, exit
<1>14. /\ g.returns \in BOOLEAN /\ g.locals \in Nat /\ g.params \in 0 .. g.locals
       /\ DOMAIN g.pointers \subseteq 0 .. (g.params - 1)
       /\ LocalBase(g) = IF g.returns THEN 2 ELSE 1
       /\ StackFrameSize(g) = LocalBase(g) + g.locals /\ StackFrameSize(g) \in Nat \ {0}
       /\ StackFrameSize(Function) \in Nat \ {0}
  <2>1. DOMAIN g.pointers \subseteq 0 .. (g.params - 1)
    BY <1>2 DEF IsTable, WellFormed, IsFunction
  <2> QED
    BY <1>2, <2>1, FrameSizes
<1>15. DOMAIN exit.args = 1 .. g.params
  <2>1. exit.args \in Seq(Range(exit.args)) /\ Len(exit.args) = g.params
    BY <1>13a
  <2> HIDE DEF exit
  <2> QED
    BY <2>1
<1> DEFINE target == EntryIx(blocks, g)
           passed == WithArguments(t, base + LocalBase(g), exit.args, input)
           put == Put(passed, base, target)
<1>16. /\ base + StackFrameSize(g) <= TapeLength /\ ptr' = base
       /\ tape' = [put EXCEPT ![base].marker = 1]
  <2>1. ReturnToMeta(Computed(input)) = t
    BY <1>2, <1>8 DEF ReturnToMeta
  <2>2. Fields(t, Running.exit.callee, input) = target
    BY <1>2, <1>13a
  <2>3. FunctionOf(program, blocks[Selected(Len(blocks), target) + 1].function) = g
    BY <1>13a DEF At
  <2> HIDE DEF target
  <2>4. /\ base + StackFrameSize(g) <= TapeLength
        /\ PushFrame(Put(WithArguments(t, base + LocalBase(g), Running.exit.args, input), base, target))
    BY <2>1, <2>2, <2>3, Zenon DEF Call
  <2> QED
    BY <1>2, <2>4 DEF PushFrame
<1> HIDE DEF exit, base
<1>17. base = ptr + StackFrameSize(Function) /\ base \in Nat /\ base \in 0 .. (TapeLength - 1) /\ ptr < base
  <2>1. base = ptr + StackFrameSize(Function)
    BY DEF base
  <2>2. ptr \in Nat
    BY <1>2
  <2>3. base \in Nat /\ ptr < base
    BY <1>14, <2>1, <2>2
  <2>4. base + StackFrameSize(g) <= TapeLength /\ StackFrameSize(g) \in Nat \ {0} /\ TapeLength \in Nat
    BY <1>2, <1>14, <1>16
  <2>5. base \in 0 .. (TapeLength - 1)
    BY <2>3, <2>4
  <2> QED
    BY <2>1, <2>3, <2>5
<1>18. Chain(program, blocks, t, ptr, n, s, [h EXCEPT ![n] = m]) /\ Names(blocks, t, ptr, m)
  <2>1. m.kind # "nothing"
    BY <1>7
  <2>2. m.exit.into # Nowhere => ptr + StackFrameSize(Function) + 1 < TapeLength
    <3>1. m.exit.into # Nowhere => g.returns
      BY <1>7, <1>13a DEF exit
    <3> QED
      BY <3>1, <1>14, <1>16, <1>17, <1>2
  <2> QED
    BY <1>1, <1>5, <1>7, <1>9, <2>1, <2>2, StepTaken
<1>19. /\ DOMAIN passed = DOMAIN t /\ passed \in Tapes
       /\ \A c \in DOMAIN t : passed[c].marker = t[c].marker
       /\ \A c \in 0 .. base : passed[c] = t[c]
       /\ \A k \in DOMAIN exit.args :
            LET cell == base + LocalBase(g) + (k - 1) IN
            /\ cell \in DOMAIN t /\ cell # base
            /\ passed[cell] = Passed(t[cell], t, exit.args[k], input)
  <2>1. \A c \in DOMAIN t : passed[c] = IF c - (base + LocalBase(g)) + 1 \in DOMAIN exit.args
                                      THEN Passed(t[c], t, exit.args[c - (base + LocalBase(g)) + 1], input)
                                      ELSE t[c]
    BY DEF WithArguments
  <2>2. DOMAIN passed = DOMAIN t /\ passed = [c \in DOMAIN t |-> passed[c]]
    BY DEF WithArguments
  <2> HIDE DEF passed
  <2>3. \A c \in DOMAIN t : t[c] \in Cells /\ c \in Int
    BY <1>2, <1>10 DEF Tapes, Cells
  <2>4. ASSUME NEW c \in DOMAIN t, NEW k \in DOMAIN exit.args
        PROVE  /\ Passed(t[c], t, exit.args[k], input) \in Cells
               /\ Passed(t[c], t, exit.args[k], input).marker = t[c].marker
    <3>1. CASE k - 1 \in DOMAIN g.pointers
      <4>1. IsAddress(program, Function, exit.args[k], g.pointers[k - 1])
        BY <1>13a, <3>1
      <4>2. exit.args[k] \in Range(h[n].exit.args)
        BY DEF Range, exit
      <4>3. \A f \in Range(program.functions) :
              exit.args[k] = FunctionAddress(f.name) => IsCallable(program, f.name)
        BY <1>3, <1>4, <4>2, CallMentions
      <4> QED
        BY <1>1, <1>10, <1>11, <2>3, <4>1, <4>3, ArgumentPassed
    <3>2. CASE k - 1 \notin DOMAIN g.pointers
      <4>1. IsValue(program, Function, exit.args[k], Words)
        BY <1>13a, <3>2
      <4> QED
        BY <1>1, <1>10, <1>11, <2>3, <4>1, ArgumentPassed
    <3> QED
      BY <3>1, <3>2
  <2>5. ASSUME NEW c \in DOMAIN t PROVE passed[c] \in Cells /\ passed[c].marker = t[c].marker
    BY <2>1, <2>3, <2>4
  <2>6. passed \in Tapes
    BY <1>2, <1>10, <2>2, <2>5 DEF Tapes, Cells
  <2>9. LocalBase(g) \in Nat /\ LocalBase(g) >= 1 /\ base \in Nat
    BY <1>14, <1>17
  <2>7. ASSUME NEW c \in 0 .. base PROVE passed[c] = t[c]
    <3>1. c \in DOMAIN t /\ c \in Int /\ c <= base
      BY <1>2, <1>10, <1>17
    <3>2. c - (base + LocalBase(g)) + 1 < 1 /\ c - (base + LocalBase(g)) + 1 \in Int
      BY <2>9, <1>17, <3>1
    <3>3. \A i \in DOMAIN exit.args : i >= 1
      BY <1>14, <1>15
    <3>4. c - (base + LocalBase(g)) + 1 \notin DOMAIN exit.args
      BY <3>2, <3>3
    <3> QED
      BY <2>1, <3>1, <3>4
  <2>8. ASSUME NEW k \in DOMAIN exit.args
        PROVE  LET cell == base + LocalBase(g) + (k - 1) IN
               /\ cell \in DOMAIN t /\ cell # base
               /\ passed[cell] = Passed(t[cell], t, exit.args[k], input)
    <3>1. PICK cell : cell = base + LocalBase(g) + (k - 1)
      OBVIOUS
    <3>2. k \in 1 .. g.params
      BY <1>15
    <3>5. cell \in Nat /\ cell # base /\ cell - (base + LocalBase(g)) + 1 = k
      BY <2>9, <1>14, <1>17, <3>1, <3>2
    <3>6. cell < base + StackFrameSize(g)
      BY <2>9, <1>14, <1>17, <3>1, <3>2
    <3>7. cell < TapeLength /\ TapeLength \in Nat
      BY <1>2, <1>14, <1>16, <1>17, <3>5, <3>6
    <3>3. cell \in DOMAIN t /\ cell # base /\ cell - (base + LocalBase(g)) + 1 = k
      BY <1>2, <1>10, <3>5, <3>7
    <3>4. passed[cell] = Passed(t[cell], t, exit.args[k], input)
      BY <2>1, <3>3
    <3> QED
      BY <3>1, <3>3, <3>4
  <2> QED
    BY <2>2, <2>5, <2>6, <2>7, <2>8
<1> HIDE DEF passed, target
<1>20. target \in Pairs /\ target = Ix(blocks, e.function, e.name)
  BY <1>2, <1>13a, IndexFinds DEF target
<1>21. PICK u : u = tape'
  OBVIOUS
<1>22. /\ u \in Tapes /\ DOMAIN u = DOMAIN t /\ u[base].marker = 1
       /\ u[base].high = target.high /\ u[base].low = target.low
       /\ \A c \in DOMAIN t : c # base => u[c] = passed[c]
  <2>1. put = [passed EXCEPT ![base].high = target.high, ![base].low = target.low]
    BY DEF Put
  <2> HIDE DEF put
  <2>2. target.high \in Words /\ target.low \in Words
    BY <1>20, ByteAssumption DEF Pairs, Words
  <2>3. passed \in [0 .. (TapeLength - 1) -> [low : Words, high : Words, marker : 0 .. 1]]
        /\ passed[base] \in [low : Words, high : Words, marker : 0 .. 1]
    BY <1>17, <1>19 DEF Tapes
  <2>4. /\ put \in Tapes /\ DOMAIN put = DOMAIN t
        /\ put[base].high = target.high /\ put[base].low = target.low
        /\ \A c \in DOMAIN t : c # base => put[c] = passed[c]
    <3>1. put \in Tapes
      BY <1>17, <2>1, <2>2, <2>3 DEF Tapes
    <3> QED
      BY <1>2, <1>10, <1>17, <2>1, <2>3, <3>1
  <2>5. u = [put EXCEPT ![base].marker = 1] /\ 1 \in 0 .. 1
    BY <1>16, <1>21
  <2>6. PICK v : v = put
    OBVIOUS
  <2>9. PICK d \in 0 .. (TapeLength - 1) : d = base
    BY <1>17
  <2>7. v \in Tapes /\ u = [v EXCEPT ![d].marker = 1] /\ 1 \in 0 .. 1
    BY <2>4, <2>5, <2>6, <2>9
  <2>10. /\ u \in Tapes /\ DOMAIN u = DOMAIN v /\ u[d].marker = 1
         /\ u[d].high = v[d].high /\ u[d].low = v[d].low
         /\ \A c \in DOMAIN v : c # d => u[c] = v[c]
    BY <2>7, MarkerAssigned
  <2>8. u \in Tapes /\ DOMAIN u = DOMAIN v /\ u[base].marker = 1
        /\ u[base].high = v[base].high /\ u[base].low = v[base].low
        /\ \A c \in DOMAIN v : c # base => u[c] = v[c]
    BY <2>9, <2>10
  <2> QED
    BY <2>4, <2>6, <2>8
<1> HIDE DEF put
<1>23. \A c \in DOMAIN t : u[c].marker = IF c = base THEN 1 ELSE t[c].marker
  BY <1>19, <1>22
<1>24. \A c \in 0 .. (base - 1) : u[c] = t[c]
  <2>1. \A c \in 0 .. (base - 1) : c \in DOMAIN t /\ c # base /\ c \in 0 .. base
    BY <1>2, <1>10, <1>17
  <2> QED
    BY <1>19, <1>22, <2>1
<1>25. ASSUME NEW k \in DOMAIN exit.args
       PROVE  LET cell == base + LocalBase(g) + (k - 1) IN
              u[cell] = Passed(t[cell], t, exit.args[k], input) /\ t[cell] \in Cells
  <2>1. PICK cell : cell = base + LocalBase(g) + (k - 1)
    OBVIOUS
  <2>2. cell \in DOMAIN t /\ cell # base /\ passed[cell] = Passed(t[cell], t, exit.args[k], input)
    BY <1>19, <2>1
  <2>3. t[cell] \in Cells
    BY <1>10, <2>2 DEF Tapes, Cells
  <2> QED
    BY <1>22, <2>1, <2>2, <2>3
<1>26. PointersStand(program, blocks, u, base, g)
  <2>1. ASSUME NEW j \in DOMAIN g.pointers
        PROVE  Points(program, blocks, u, base + LocalBase(g) + j, g.pointers[j])
    <3>1. j + 1 \in DOMAIN exit.args /\ (j + 1) - 1 = j
      BY <1>14, <1>15
    <3>2. IsAddress(program, Function, exit.args[j + 1], g.pointers[j])
      BY <1>13a, <3>1
    <3>3. exit.args[j + 1] \in Range(h[n].exit.args)
      BY <3>1 DEF Range, exit
    <3>4. \A f \in Range(program.functions) :
            exit.args[j + 1] = FunctionAddress(f.name) => IsCallable(program, f.name)
      BY <1>3, <1>4, <3>3, CallMentions
    <3>5. PICK cell : cell = base + LocalBase(g) + j
      OBVIOUS
    <3>6. u[cell] = Passed(t[cell], t, exit.args[j + 1], input) /\ t[cell] \in Cells
      BY <1>25, <3>1, <3>5
    <3>7. PICK f \in Range(program.functions) :
            /\ f.type = g.pointers[j] /\ IsCallable(program, f.name)
            /\ u[cell].high = EntryIx(blocks, f).high /\ u[cell].low = EntryIx(blocks, f).low
      BY <1>1, <1>10, <1>11, <3>2, <3>4, <3>6, ArgumentPassed
    <3>8. EntryIx(blocks, f) \in Pairs
      <4>1. PICK d \in Users(program) : d.function = f.name /\ d.name = Label(EntryOf(f))
        BY <1>2, LabelBlock DEF IsTable
      <4>2. d \in Table(program)
        BY DEF Table
      <4> QED
        BY <1>2, <4>1, <4>2, IndexFinds DEF EntryIx
    <3>9. TargetOf(u, cell) = EntryIx(blocks, f)
      BY <3>7, <3>8 DEF TargetOf, Pairs
    <3> QED
      BY <3>5, <3>7, <3>9 DEF Points
  <2> QED
    BY <2>1 DEF PointersStand
<1>27. Owner(program, e) = g /\ Owner(program, m) = Function
  BY <1>2, <1>7, <1>13a DEF Owner
<1>28. Topped(program, blocks, u, base, e)
  <2>1. TargetOf(u, base) = target
    BY <1>20, <1>22 DEF TargetOf, Pairs
  <2>2. e.kind # "nothing" /\ e.kind # "meta"
    BY <1>13a DEF UserKinds
  <2> QED
    BY <1>16, <1>20, <1>27, <2>1, <2>2 DEF Topped, Names, SizeAt
<1>29. Chain(program, blocks, u, base, n + 1, Extended(n, s, base), Extended(n, [h EXCEPT ![n] = m], e))
  <2>1. PICK k : k = [h EXCEPT ![n] = m]
    OBVIOUS
  <2>2. k[n] = m
    BY <1>2, <2>1 DEF Runs, Chain, Shaped
  <2>3. Chain(program, blocks, t, ptr, n, s, k) /\ Names(blocks, t, ptr, k[n]) /\ k[n].kind = "meta"
    BY <1>7, <1>18, <2>1, <2>2
  <2>4. base = ptr + SizeAt(program, k[n]) /\ base \in DOMAIN t
    BY <1>2, <1>10, <1>17, <1>27, <2>2 DEF SizeAt
  <2>5. k[n].exit.into # Nowhere => Owner(program, e).returns
    BY <1>7, <1>13a, <1>27, <2>2 DEF exit
  <2>6. \A c \in First(program) .. (base - 1) : u[c] = t[c]
    BY <1>2, <1>24
  <2>7. PointersStand(program, blocks, u, base, Owner(program, e)) /\ IsCallable(program, e.function)
    BY <1>13a, <1>26, <1>27
  <2>8. Chain(program, blocks, u, base, n + 1, Extended(n, s, base), Extended(n, k, e))
    BY <1>2, <1>13a, <1>22, <1>23, <1>28, <2>3, <2>4, <2>5, <2>6, <2>7, ChainPushed
  <2> QED
    BY <2>1, <2>8
<1>31. u[base].high # 0
  BY <1>20, <1>22 DEF Pairs
<1>30. CallMade(n, s, h, t, base, u, g, e, input)
  BY <1>6, <1>13, <1>16, <1>24, <1>25, <1>29, <1>31 DEF exit, CallMade
<1> QED
  BY <1>8, <1>10, <1>11, <1>16, <1>17, <1>21, <1>22, <1>30, Zenon

----------------------------------------------------------------------------
(* The inductive invariant: there is a chain of frames on the tape, though *)
(* no variable says where they are.                                        *)

IInv ==
  /\ program \in Programs
  /\ blocks = Sorted(Created(program)) /\ Len(blocks) <= MaxBlocks
  /\ tape \in Tapes
  /\ \E n, s, h : Chain(program, blocks, tape, ptr, n, s, h)

\* The blocks of a program that is accepted are a table.
LEMMA InvariantRuns ==
  ASSUME IInv
  PROVE  \E n, s, h : Runs(n, s, h)
<1>1. IsTable(program, blocks)
  BY ProgramsAssumption DEF IInv, IsTable, Words
<1> QED
  BY <1>1 DEF IInv, Runs

\* At the start the frame of the entry function is the only one, and all cells are blank.
LEMMA FirstChain ==
  ASSUME Room, Init
  PROVE  /\ program \in Programs /\ tape[ptr].high # 0
         /\ \A k \in 0 .. (program.globals - 1) : tape[GlobalCell(k)].low = 0
         /\ \E c \in Users(program) :
              /\ c.function = program.entry /\ c.kind \in UserKinds
              /\ c.name = Label(EntryOf(FunctionOf(program, program.entry)))
              /\ Runs(1, [k \in 1 .. 1 |-> ptr], [k \in 1 .. 1 |-> c])
<1>1. program \in Programs /\ IsTable(program, blocks) /\ WellFormed(program, Words)
  BY ProgramsAssumption DEF Init, IsTable, Words
<1>2. PICK f \in Range(program.functions) : f.name = program.entry /\ f.params = 0
  BY <1>1 DEF WellFormed
<1>3. FunctionOf(program, program.entry) = f
  BY <1>1, <1>2, NamesDetermine
<1>4. PICK c \in Users(program) :
        c.function = f.name /\ c.name = Label(EntryOf(f)) /\ c.kind \in UserKinds
  BY <1>1, LabelBlock
<1>5. c \in Table(program) /\ Owner(program, c) = f
  BY <1>2, <1>3, <1>4 DEF Table, Owner
<1>6. DOMAIN f.pointers = {}
  <2>1. DOMAIN f.pointers \subseteq 0 .. (f.params - 1)
    BY <1>1 DEF WellFormed, IsFunction
  <2> QED
    BY <1>2, <2>1
<1>7. PICK i \in Pairs : i = Ix(blocks, c.function, c.name)
  BY <1>1, <1>5, IndexFinds
<1>8. EntryIndex(program.entry) = i
  BY <1>2, <1>3, <1>4, <1>7 DEF EntryIndex, Index, Ix
<1>9. /\ First(program) \in Nat \ {0} /\ TapeLength \in Nat /\ StackFrameSize(f) \in Nat \ {0}
      /\ ptr = First(program) /\ ptr + StackFrameSize(f) <= TapeLength
  <2>1. First(program) = program.globals + 2 /\ program.globals \in Nat /\ StackFrameSize(f) \in Nat \ {0}
    BY <1>1, FrameSizes
  <2> QED
    BY <1>3, <2>1, TapeAssumption DEF Init, FirstFrame, First
<1>10. ptr \in 0 .. (TapeLength - 1) /\ ptr # 0
  BY <1>9
<1> DEFINE blank == [d \in 0 .. (TapeLength - 1) |->
                       IF d \in {0, FirstFrame} THEN [Blank EXCEPT !.marker = 1] ELSE Blank]
<1>11. PICK t : t = blank
  OBVIOUS
<1>12. /\ t \in Tapes
       /\ \A d \in 0 .. (TapeLength - 1) : t[d].marker = IF d \in {0, ptr} THEN 1 ELSE 0
       /\ \A d \in 0 .. (TapeLength - 1) : t[d].low = 0
  <2>1. Blank \in Cells /\ [Blank EXCEPT !.marker = 1] \in Cells
        /\ Blank.marker = 0 /\ [Blank EXCEPT !.marker = 1].marker = 1
        /\ Blank.low = 0 /\ [Blank EXCEPT !.marker = 1].low = 0
    BY ByteAssumption DEF Blank, Cells, Words
  <2>2. FirstFrame = ptr
    BY DEF Init
  <2>3. t \in [0 .. (TapeLength - 1) -> Cells]
    BY <1>11, <2>1
  <2> QED
    BY <1>11, <2>1, <2>2, <2>3 DEF Tapes, Cells
<1>13. PICK u : u = tape
  OBVIOUS
<1>14. u = [t EXCEPT ![ptr].high = i.high, ![ptr].low = i.low]
  BY <1>8, <1>11, <1>13 DEF Init, Put
<1>15. /\ u \in Tapes /\ u[ptr].high = i.high /\ u[ptr].low = i.low
       /\ \A d \in 0 .. (TapeLength - 1) : u[d].marker = IF d \in {0, ptr} THEN 1 ELSE 0
       /\ \A d \in 0 .. (TapeLength - 1) : d # ptr => u[d].low = 0
  <2>1. i.high \in Words /\ i.low \in Words
    BY ByteAssumption DEF Pairs, Words
  <2>2. /\ t \in [0 .. (TapeLength - 1) -> [low : Words, high : Words, marker : 0 .. 1]]
        /\ t[ptr] \in [low : Words, high : Words, marker : 0 .. 1]
    BY <1>10, <1>12 DEF Tapes
  <2>3. u \in Tapes
    BY <1>10, <1>14, <2>1, <2>2 DEF Tapes
  <2>4. u[ptr].high = i.high /\ u[ptr].low = i.low
    BY <1>10, <1>14, <2>2
  <2>5. \A d \in 0 .. (TapeLength - 1) : u[d].marker = t[d].marker /\ (d # ptr => u[d].low = t[d].low)
    BY <1>10, <1>14, <2>2
  <2> QED
    BY <1>12, <2>3, <2>4, <2>5
<1> DEFINE s == [k \in 1 .. 1 |-> ptr]
           h == [k \in 1 .. 1 |-> c]
<1>16. Shaped(program, ptr, 1, s, h)
  BY <1>2, <1>4, <1>5, <1>9 DEF Shaped
<1>17. Marked(u, 1, s)
  <2>1. \A d \in DOMAIN u : d \in 0 .. (TapeLength - 1)
    BY <1>15 DEF Tapes
  <2>2. \A d : (\E k \in 1 .. 1 : s[k] = d) <=> ptr = d
    OBVIOUS
  <2> QED
    BY <1>15, <2>1, <2>2 DEF Marked
<1>18. Waiting(program, blocks, u, 1, s, h) /\ Called(program, 1, h)
  BY DEF Waiting, Called
<1>19. Pointing(program, blocks, u, 1, s, h)
  BY <1>5, <1>6 DEF Pointing, PointersStand
<1>20. Topped(program, blocks, u, ptr, h[1])
  <2>1. TargetOf(u, ptr) = i
    BY <1>15 DEF TargetOf, Pairs
  <2>2. c.kind # "nothing" /\ c.kind # "meta"
    BY <1>4 DEF UserKinds
  <2> QED
    BY <1>5, <1>7, <1>9, <2>1, <2>2 DEF Topped, Names, SizeAt
<1>21. Chain(program, blocks, tape, ptr, 1, s, h)
  BY <1>13, <1>16, <1>17, <1>18, <1>19, <1>20 DEF Chain
<1>22. tape[ptr].high # 0
  BY <1>13, <1>15 DEF Pairs
<1>23. ASSUME NEW k \in 0 .. (program.globals - 1) PROVE tape[GlobalCell(k)].low = 0
  <2>1. First(program) = program.globals + 2 /\ program.globals \in Nat
    BY <1>1, FrameSizes
  <2>2. GlobalCell(k) \in 0 .. (TapeLength - 1) /\ GlobalCell(k) # ptr
    BY <1>9, <2>1 DEF GlobalCell
  <2> QED
    BY <1>13, <1>15, <2>2
<1>24. Runs(1, s, h)
  BY <1>1, <1>13, <1>15, <1>21 DEF Runs
<1> QED
  BY <1>1, <1>2, <1>3, <1>4, <1>22, <1>23, <1>24

\* Every round of the main loop keeps the frames in order.
LEMMA ChainStays ==
  ASSUME Room, IInv, [Next]_vars
  PROVE  IInv'
<1>1. PICK n, s, h : Runs(n, s, h)
  BY InvariantRuns
<1> SUFFICES ASSUME program' = program, blocks' = blocks
             PROVE  tape' \in Tapes /\ \E m, r, g : Chain(program, blocks, tape', ptr', m, r, g)
  <2>1. program' = program /\ blocks' = blocks
    BY DEF Next, Jump, Branch, Call, Return, Abort, Resume, vars
  <2> QED
    BY <2>1 DEF IInv
<1>2. ASSUME NEW input \in Inputs, Jump(input)
      PROVE  tape' \in Tapes /\ \E m, r, g : Chain(program, blocks, tape', ptr', m, r, g)
  <2>1. PICK c \in Users(program) : GoesOn(n, s, h, Computed(input), tape', c)
    BY <1>1, <1>2, JumpChain
  <2>2. ptr' = ptr /\ tape' \in Tapes
    BY <1>1, <1>2, JumpChain
  <2> QED
    BY <2>1, <2>2 DEF GoesOn
<1>3. ASSUME NEW input \in Inputs, Branch(input)
      PROVE  tape' \in Tapes /\ \E m, r, g : Chain(program, blocks, tape', ptr', m, r, g)
  <2>1. PICK c \in Users(program) : GoesOn(n, s, h, Computed(input), tape', c)
    BY <1>1, <1>3, BranchChain
  <2>2. ptr' = ptr /\ tape' \in Tapes
    BY <1>1, <1>3, BranchChain
  <2> QED
    BY <2>1, <2>2 DEF GoesOn
<1>4. ASSUME NEW input \in Inputs, Call(input)
      PROVE  tape' \in Tapes /\ \E m, r, g : Chain(program, blocks, tape', ptr', m, r, g)
  BY <1>1, <1>4, CallChain DEF CallMade
<1>5. ASSUME NEW input \in Inputs, Return(input)
      PROVE  tape' \in Tapes /\ \E m, r, g : Chain(program, blocks, tape', ptr', m, r, g)
  BY <1>1, <1>5, ReturnChain
<1>6. ASSUME NEW input \in Inputs, Abort(input)
      PROVE  tape' \in Tapes /\ \E m, r, g : Chain(program, blocks, tape', ptr', m, r, g)
  BY <1>1, <1>6, AbortChain
<1>7. CASE Resume
  <2>1. PICK c \in Users(program) : GoesOn(n, s, h, Fetched, tape', c)
    BY <1>1, <1>7, ResumeChain
  <2>2. ptr' = ptr /\ tape' \in Tapes
    BY <1>1, <1>7, ResumeChain
  <2> QED
    BY <2>1, <2>2 DEF GoesOn
<1>8. CASE UNCHANGED vars
  BY <1>1, <1>8 DEF vars, Runs
<1> QED
  BY <1>2, <1>3, <1>4, <1>5, <1>6, <1>7, <1>8 DEF Next

\* What the invariant says of the frames that are found by their markers.
LEMMA ChainSeen ==
  ASSUME Room, IInv
  PROVE  TypeOK /\ FramesChained /\ CallersWait
<1>1. PICK n, s, h : Runs(n, s, h)
  BY InvariantRuns
<1>2. IsTable(program, blocks) /\ tape \in Tapes /\ Chain(program, blocks, tape, ptr, n, s, h)
  BY <1>1 DEF Runs
<1>3. Origins = OriginsOf(tape, ptr) /\ Bases = BasesOf(tape, ptr)
  BY DEF Origins, OriginsOf, Bases, BasesOf
<1>4. /\ ptr \in First(program) .. (TapeLength - 1)
      /\ {c \in DOMAIN tape : tape[c].marker = 1} = {0} \cup OriginsOf(tape, ptr)
      /\ Bases = s /\ Len(Bases) = n
  BY <1>2, <1>3, BasesFound
<1>5. n \in Nat \ {0} /\ s[1] = First(program) /\ s[n] = ptr /\ h \in [1 .. n -> Table(program)]
  BY <1>2 DEF Chain, Shaped
<1>6. First(program) = FirstFrame
  BY DEF First, FirstFrame
<1>7. ASSUME NEW k \in 1 .. (n - 1)
      PROVE  /\ TargetBlock(tape, s[k]) = h[k] /\ h[k].kind = "meta"
             /\ s[k + 1] = s[k] + StackFrameSize(FunctionOf(program, h[k].function))
  <2>1. /\ h[k].kind = "meta" /\ Names(blocks, tape, s[k], h[k])
        /\ s[k + 1] = s[k] + SizeAt(program, h[k])
    BY <1>2 DEF Chain, Waiting
  <2>2. h[k] \in Table(program)
    BY <1>5
  <2>3. At(blocks, Ix(blocks, h[k].function, h[k].name)) = h[k]
    BY <1>2, <2>2, IndexFinds
  <2> QED
    BY <2>1, <2>3 DEF Names, TargetBlock, At, SizeAt, Owner
<1>8. TypeOK
  BY <1>2, <1>4, <1>6 DEF TypeOK, IInv, Tapes, Words
<1>9. FramesChained
  BY <1>3, <1>4, <1>5, <1>6, <1>7 DEF FramesChained
<1>10. CallersWait
  BY <1>4, <1>7 DEF CallersWait
<1> QED
  BY <1>8, <1>9, <1>10

\* The invariant holds throughout.
LEMMA AlwaysChained ==
  ASSUME Room
  PROVE  Spec => []IInv
<1>1. Init => IInv
  BY FirstChain DEF Init, IInv, Runs
<1>2. IInv /\ [Next]_vars => IInv'
  BY ChainStays
<1> QED
  BY <1>1, <1>2, PTL DEF Spec

\* Cells hold bytes and the pointer stays on the tape, whatever the program.
THEOREM TypeCorrect ==
  ASSUME Room
  PROVE  Spec => []TypeOK
<1>1. IInv => TypeOK
  BY ChainSeen
<1> QED
  BY <1>1, AlwaysChained, PTL

\* However deep the calls, each frame begins where its caller's ends, and no marker of a
\* frame that was left is ever taken for one of a frame that is there.
THEOREM FramesStayChained ==
  ASSUME Room
  PROVE  Spec => []FramesChained
<1>1. IInv => FramesChained
  BY ChainSeen
<1> QED
  BY <1>1, AlwaysChained, PTL

\* Every caller's frame names a metablock of the caller for as long as its callee runs.
THEOREM CallersStayWaiting ==
  ASSUME Room
  PROVE  Spec => []CallersWait
<1>1. IInv => CallersWait
  BY ChainSeen
<1> QED
  BY <1>1, AlwaysChained, PTL
=============================================================================
