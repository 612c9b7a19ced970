----------------------------- MODULE FrameRuns -----------------------------
(* Elements, pointers, globals, arguments, results and printing, run on a tape  *)
(* of frames: the globals, the entry function's frame, and that of the function it called *)
(* whose code this is.  What a job should do is said on an abstract memory of  *)
(* macrocells; the marks, payloads and scratch cells are the code's own.       *)
EXTENDS Integers, Sequences, Functions, TLC, CellMachine

CONSTANTS Bits, Stride, MaxBursts, Macrocells, Jobs,
          Base, ZeroChar, MinusChar,
          Text                          \* a string on the tape, and a literal

ASSUME FrameAssumption ==
  /\ {Bits, Stride, MaxBursts, Macrocells} \subseteq Nat \ {0}
  /\ Base \in Nat \ {0, 1}
  /\ {ZeroChar, MinusChar} \subseteq Nat
  /\ Text \in Seq(Nat \ {0})

P == INSTANCE Printing

VARIABLES job, where, datum,    \* an access, its place, its value
          machine, bursts       \* the machine, and how long it has been running
vars == <<job, where, datum, machine, bursts>>

(* Frames start at these macrocells; the last is the one that runs. *)
Globals == 0
Entry == 3
Current == 10
Arrays == [frame |-> Current + 1, length |-> 6]
Pointer == 17
Index == 19
Data == 20
Free == 22
End == 28
Returned == End + 1                             \* in the frame of a callee
Parameters == End + 2
FrameAt == <<Current, Entry, Globals>>          \* by depth
Objects == {1, 2} \cup 4 .. 9 \cup 11 .. 16

At(m) == m * P!FieldCount + P!Value0
Origin == Current * P!FieldCount
Obj(j, m) == P!Object(At(m), j.size, j.wide, j.pointers)
Type(j) == [wide |-> j.wide, signed |-> j.signed]

CodeOf(j) ==
  LET data == Obj(j, Data)
      index == P!Slot(At(Index), j.index)
      array == At(Arrays.frame)
  IN CASE j.form = "fetch" -> P!CopyElementIntoSlot(data, array, index, j.move, At(Free))
       [] j.form = "store" -> P!CopySlotIntoElement(Origin, data, array, index, j.move, At(Free))
       [] j.form = "storeConst" ->
            P!CopyConstIntoElement(Origin, Type(j), j.const, array, index, At(Free))
       [] j.form = "read" -> P!DereferencePointerIntoSlot(Origin, At(Pointer), data)
       [] j.form = "write" ->
            P!WriteSlotThroughDereferencedPointer(Origin, End * P!FieldCount, At(Pointer),
                                                  data, j.move, At(Free))
       [] j.form = "writeConst" ->
            P!WriteConstThroughDereferencedPointer(Origin, End * P!FieldCount, At(Pointer),
                                                   Type(j), j.const)
       [] j.form = "getGlobal" -> P!FetchGlobal(Origin, j.const, data)
       [] j.form = "putGlobal" -> P!PutGlobal(Origin, j.const, data, j.move)
       [] j.form = "putGlobalConst" -> P!PutGlobalConst(Origin, 1, Type(j), j.const)
       [] j.form = "addressOf" -> P!AddressOf(Origin, At(Pointer), j.const, FALSE)
       [] j.form = "addressOfGlobal" -> P!AddressOf(Origin, At(Pointer), j.const, TRUE)
       [] j.form = "call" ->
            P!PrepareNextFrame(End * P!FieldCount, At(Parameters), At(Index), j.args)
       [] j.form = "deliver" -> P!FetchReturnData(At(Returned), data)
       [] j.form = "print" -> P!PrintDecimalSlot(P!Slot(At(Data), Type(j)), At(Free))
       [] j.form = "printString" -> P!PrintStringSlot(array)
       [] j.form = "printLiteral" -> P!PrintStringConst(Text, At(Free))
       [] j.form = "writeOut" -> P!WriteSlot(At(Data), data)

CodeTable ==
  [form \in {j.form : j \in Jobs} |->
     [j \in {j \in Jobs : j.form = form} |-> CodeOf(j)] @@ <<>>] @@ <<>>
Code(j) == CodeTable[j.form][j]

-----------------------------------------------------------------------------
(* Where a job reaches to, and the values its operands take. *)
OfElements == {"fetch", "store", "storeConst"}
OfPointers == {"read", "write", "writeConst"}
OfGlobals == {"getGlobal", "putGlobal", "putGlobalConst"}

Places(j) ==
  CASE j.form \in OfElements ->
         {[depth |-> 0, offset |-> 1 + k * j.size] :
            k \in {k \in 0 .. (6 \div j.size) - 1 : k <= P!MaxOf(j.index)}}
    [] j.form \in OfPointers ->
         {[depth |-> d, offset |-> k] : d \in {0, 1}, k \in 1 .. 7 - j.size}
         \cup {[depth |-> 2, offset |-> k] : k \in 1 .. 3 - j.size}
    [] j.form = "call" -> {[depth |-> d, offset |-> 7] : d \in 0 .. 2}
    [] j.form \in {"getGlobal", "putGlobal"} -> {[depth |-> 2, offset |-> j.const]}
    [] OTHER -> {[depth |-> 2, offset |-> 1]}

TwoCells == P!Byte * P!Byte
Values(j) ==
  CASE j.form \in {"print", "write", "writeOut"} /\ j.size = 1 ->
         0 .. P!Cardinal(Type(j)) - 1
    [] j.form \in {"store", "putGlobal", "call", "deliver"} /\ j.size = 1 -> {1, P!Cardinal(Type(j)) - 1}
    [] j.form \in {"store", "putGlobal", "write", "writeOut", "deliver"} /\ j.size = 2 ->
         {7 * TwoCells + d : d \in 0 .. P!Byte - 1}
    [] OTHER -> {0}

Low(v, k) == (v \div TwoCells^(k - 1)) % P!Byte
High(v, k) == (v \div (TwoCells^(k - 1) * P!Byte)) % P!Byte

(* Every object holds a pattern no two macrocells of one frame share. *)
Contents(m, cell, w, v, j) ==
  LET high == cell = 1
      index == (w.offset - 1) \div j.size
  IN CASE m \in Arrays.frame .. Arrays.frame + 5 /\ j.form = "printString" ->
            IF high \/ m - Arrays.frame + 1 > Len(Text) THEN 0 ELSE Text[m - Arrays.frame + 1]
       [] m \in Objects /\ j.form # "printString" ->
            IF high THEN (m \div P!Byte) % P!Byte ELSE m % P!Byte
       [] m = Pointer -> IF high THEN 0 ELSE w.depth
       [] m = Pointer + 1 -> IF high THEN w.offset \div P!Byte ELSE w.offset % P!Byte
       [] m = Index -> IF high THEN index \div P!Byte ELSE index % P!Byte
       [] m \in {Data, Data + 1} /\ j.form # "deliver" ->
            IF high THEN (IF j.wide THEN High(v, m - Data + 1) ELSE 0) ELSE Low(v, m - Data + 1)
       [] m \in {Returned, Returned + 1} /\ j.form = "deliver" ->
            IF high THEN High(v, m - Returned + 1) ELSE Low(v, m - Returned + 1)
       [] m >= Free /\ m < End -> P!Byte - 1
       [] OTHER -> 0

Cells == 0 .. Macrocells * P!FieldCount - 1
Initial(j, w, v) ==
  [c \in Cells |->
     LET m == c \div P!FieldCount
         field == c % P!FieldCount
     IN CASE field = P!FrameMarker -> IF m \in {Globals, Entry, Current} THEN 1 ELSE 0
          [] field = P!SeekMarker -> IF m = Globals THEN 1 ELSE 0
          [] field \in {P!Value0, P!Value1} -> Contents(m, field - P!Value0, w, v, j)
          [] OTHER -> 0]

Init ==
  /\ job \in Jobs
  /\ where \in Places(job)
  /\ datum \in Values(job)
  /\ machine = Start(Initial(job, where, datum), Origin)
  /\ bursts = 0

Running == ~Halted(machine)

Run ==
  /\ Running
  /\ machine' = Burst(Code(job), P!Byte, machine, Stride)
  /\ bursts' = bursts + 1
  /\ UNCHANGED <<job, where, datum>>

Next == Run \/ (~Running /\ UNCHANGED vars)

Spec == Init /\ [][Next]_vars

-----------------------------------------------------------------------------
(* The same on a memory of macrocells.                                         *)
Before == Initial(job, where, datum)
Place == FrameAt[where.depth + 1] + where.offset
Reads == {"fetch", "read", "getGlobal", "deliver"}
Writes == {"store", "write", "putGlobal"}
Addresses == {"addressOf", "addressOfGlobal"}

Source ==
  CASE job.form = "deliver" -> Returned
    [] job.form \in Reads -> Place
    [] OTHER -> Data
Target ==
  CASE job.form \in Reads -> Data
    [] job.form \in Addresses -> Pointer
    [] OTHER -> Place

(* A pointer that moves between frames is as much farther, or nearer.          *)
Rebased(k) ==
  IF k \notin job.pointers THEN 0
  ELSE CASE job.form = "read" -> where.depth
         [] job.form = "write" -> -where.depth
         [] job.form = "deliver" -> -1
         [] OTHER -> 0

Expected(k) ==
  CASE job.form \in Reads \cup Writes ->
         <<(Before[At(Source + k - 1)] + Rebased(k)) % P!Byte, Before[At(Source + k - 1) + 1]>>
    [] job.form \in {"storeConst", "writeConst", "putGlobalConst"} ->
         <<job.const % P!Byte, job.const \div P!Byte>>
    [] job.form \in Addresses /\ k = 1 ->
         <<IF job.form = "addressOfGlobal" THEN Len(FrameAt) - 1 ELSE 0, 0>>
    [] job.form \in Addresses /\ k = 2 -> <<job.const % P!Byte, job.const \div P!Byte>>

Assigns == job.form \notin {"call", "print", "printString", "printLiteral", "writeOut"}
Written == IF Assigns THEN {Target + k - 1 : k \in 1 .. job.size} ELSE {}

(* Temporaries that are passed are given up. *)
Passed == {a \in Range(job.args) : a.temporary}
Given ==
  {m \in 0 .. Macrocells - 1 :
     \/ job.move /\ m \in Source .. Source + job.size - 1
     \/ \E a \in Passed : \E k \in 1 .. a.object.size : At(m) = P!UnitAt(a.object.at, k)}
Live == Objects \cup {Globals, Entry, Current} \cup Pointer .. Data + 1

Digits(n) ==
  LET count == CHOOSE k \in 1 .. 2 * Bits : Base^k > n /\ (k = 1 \/ Base^(k - 1) <= n)
  IN [k \in 1 .. count |-> ZeroChar + ((n \div Base^(count - k)) % Base)]

ExpectedOutput ==
  CASE job.form = "print" ->
         LET n == IF datum > P!MaxOf(Type(job)) THEN datum - P!Cardinal(Type(job)) ELSE datum
         IN (IF n < 0 THEN <<MinusChar>> ELSE <<>>) \o Digits(P!Magnitude(n))
    [] job.form \in {"printString", "printLiteral"} -> Text
    [] job.form = "writeOut" ->
         IF job.wide THEN [k \in 1 .. 2 * job.size |->
                             Before[At(Data + (k - 1) \div 2) + ((k - 1) % 2)]]
                     ELSE [k \in 1 .. job.size |-> Before[At(Data + k - 1)]]
    [] OTHER -> <<>>

Done == ~Running

(* A parameter is the argument as it was when the call was made, and a pointer *)
(* in it is one frame farther from what it points to.                          *)
Parameter(i, k) ==
  LET a == job.args[i]
      from == P!UnitAt(a.object.at, k)
      farther == IF k \in a.object.pointers THEN 1 ELSE 0
  IN IF a.literal THEN <<a.value % P!Byte, a.value \div P!Byte>>
                  ELSE <<(Before[from] + farther) % P!Byte, Before[from + 1]>>

CalleeIsPrepared ==
  /\ \A v \in {P!Value0, P!Value1} :
       machine.tape[End * P!FieldCount + v] = Before[Index * P!FieldCount + v]
  /\ \A i \in DOMAIN job.args : \A k \in 1 .. job.args[i].object.size :
       LET at == P!UnitAt(P!ParameterAt(At(Parameters), job.args, i), k)
       IN /\ machine.tape[at] = Parameter(i, k)[1]
          /\ job.args[i].object.wide => machine.tape[at + 1] = Parameter(i, k)[2]

(* Whatever the index, the depth and the offset: the object is read or written *)
(* where it is, as a pointer that is as many frames farther as it was carried, *)
(* a callee finds its arguments, every other object keeps its value, and a     *)
(* number prints as its digits (assembler_pointers_memory.cc:41-644,           *)
(* assembler_calls_control.cc:221, assembler_print.cc:115).                    *)
AccessIsRight ==
  Done =>
    /\ Assigns => \A k \in 1 .. job.size :
         /\ machine.tape[At(Target + k - 1)] = Expected(k)[1]
         /\ job.wide => machine.tape[At(Target + k - 1) + 1] = Expected(k)[2]
    /\ job.form = "call" => CalleeIsPrepared
    /\ \A m \in Live \ (Written \cup Given) :
         /\ machine.tape[At(m)] = Before[At(m)]
         /\ machine.tape[At(m) + 1] = Before[At(m) + 1]
    /\ machine.out = ExpectedOutput

(* The way there and back leaves no trace: the marks that were set are reset,  *)
(* the frames' own are where they were, payloads and scratch cells are empty,  *)
(* and the pointer is back where the assembler believes it is, although it was *)
(* in a place unknown to it (assembler_framenav.cc:62, _dp.set in              *)
(* assembler_pointers_memory.cc).                                              *)
WayIsCleared ==
  /\ machine.held
  /\ Done => /\ machine.drift = 0
             /\ \A c \in Cells : c % P!FieldCount \notin {P!Value0, P!Value1} =>
                  machine.tape[c] = Before[c]

(* Every access comes to its end: each walk finds the mark, the frame or the   *)
(* zero it looks for, whatever lies in between, and a pointer's depth is       *)
(* counted down (assembler_framenav.cc:62, moveToPointee at                    *)
(* assembler_pointers_memory.cc:372).                                          *)
EndsInTime == bursts <= MaxBursts
=============================================================================
