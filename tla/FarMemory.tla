----------------------------- MODULE FarMemory -----------------------------
(* Reaching a cell whose place is known at run time only: an element of an     *)
(* array, what a pointer points to, a global.  The data pointer is sent there  *)
(* by marks on the tape, values travel in the payload fields, and the          *)
(* assembler's belief of where it is no longer holds until a mark is found.    *)
(* assembler_framenav.cc, assembler_pointers_memory.cc, assembler_globals.cc   *)
(* and the dynamic offset of assembler_algorithms.tpp.                         *)
(*                                                                             *)
(* A macrocell is known by its first cell, an object by its Value0 (as slots   *)
(* are); o is the first cell of the frame that is running.  A payload is a     *)
(* sequence: is the unit of each macrocell one of two cells?                   *)
EXTENDS SlotOperators

FrameMarker == 0
Scratch1 == 5

Object(at, size, wide, pointers) ==
  [at |-> at, size |-> size, wide |-> wide, pointers |-> pointers]

Macrocell(at) == at - Value0
Units(obj) == 1 .. obj.size
UnitAt(at, k) == at + (k - 1) * FieldCount
PayloadOf(obj) == [k \in Units(obj) |-> obj.wide]
NoPayload == <<>>

ForEach(n, Code(_)) == FlattenSeq([k \in 1 .. n |-> Code(k)])

(* The pointer moves, the belief does not; and the other way round. *)
MovePointerRelative(n) == Instruction("rebase", Here, n, <<>>)
Believe(was, is) == IF was = is THEN Nothing ELSE MovePointerRelative(was - is)

SetSeekMarker(m) == SetToValue(m + SeekMarker, 1)
ResetSeekMarker(m) == Zero(m + SeekMarker)

-----------------------------------------------------------------------------
(* Mutant of SeekStep: the payload's units go first to last in both directions. *)
SeekStepInOrder(m, right, payload) ==
  LET stride == IF right THEN FieldCount ELSE -FieldCount
      Carried(k) ==
        MoveField(UnitAt(m, k) + Payload0, <<UnitAt(m, k) + Payload0 + stride>>)
        \o IF payload[k] THEN MoveField(UnitAt(m, k) + Payload1, <<UnitAt(m, k) + Payload1 + stride>>)
                         ELSE Nothing
  IN ForEach(Len(payload), Carried) \o MovePointerRelative(stride)

(* seek: macrocell by macrocell to the next mark, taking the payload along.    *)
(* Its units go in the order that never overwrites one that has not gone.      *)
SeekStep(m, right, payload) ==
  LET stride == IF right THEN FieldCount ELSE -FieldCount
      Carried(k) ==
        LET unit == IF right THEN Len(payload) + 1 - k ELSE k
            cell == UnitAt(m, unit)
        IN MoveField(cell + Payload0, <<cell + Payload0 + stride>>)
           \o IF payload[unit] THEN MoveField(cell + Payload1, <<cell + Payload1 + stride>>)
                               ELSE Nothing
  IN ForEach(Len(payload), Carried) \o MovePointerRelative(stride)

(* Frame and seek markers are 0 or 1: the test is a decrement. *)
Seek(m, marker, right, payload, checkCurrent) ==
  (IF checkCurrent THEN Nothing ELSE SeekStep(m, right, payload))
  \o Dec(m + marker, 1)
  \o Loop(m + marker, Inc(m + marker, 1) \o SeekStep(m, right, payload) \o Dec(m + marker, 1))
  \o Inc(m + marker, 1)

(* Any other field may hold more: the flag is its negation. *)
NotMarkerToFlag(m, marker) ==
  CopyField(m + marker, <<m + Flag>>, m + Scratch0) \o NotCell(m + Flag, m + Scratch0)

SeekNonzero(m, marker, right, payload, checkCurrent) ==
  (IF checkCurrent THEN NotMarkerToFlag(m, marker) ELSE SetToValue(m + Flag, 1))
  \o Loop(m + Flag,
          Dec(m + Flag, 1) \o SeekStep(m, right, payload) \o NotMarkerToFlag(m, marker))

MoveToPreviousFrame(o, payload) == Seek(o, FrameMarker, FALSE, payload, FALSE)

(* As many macrocells to the right of m as the two cells low and high say. *)
MoveToDynamicOffset(m, low, high, move) ==
  LET Taken(from, to, tmp) ==
        IF move THEN MoveToZero(from, <<to>>) ELSE CopyToZero(from, <<to>>, tmp)
  IN Taken(low, m + Scratch1, m + Scratch0)
     \o Taken(high, m + Scratch0, m + Flag)
     \o LiteralBf(m + Payload1, "+[<<<[->>]<[->->]>>[<+>[-<<<[-R+L]>>]R>>+<]>]>-")

-----------------------------------------------------------------------------
(* Values into the payload of the macrocells from m, and out of it. *)
ToPayload(at, m, obj, move) ==
  LET Unit(k) ==
        LET from == UnitAt(at, k)
            to == UnitAt(m, k)
        IN CopyOrMove(move, from, <<to + Payload0>>, from + 2)
           \o IF obj.wide THEN CopyOrMove(move, from + 1, <<to + Payload1>>, from + 2) ELSE Nothing
  IN ForEach(obj.size, Unit)

FromPayload(m, at, obj) ==
  LET Unit(k) ==
        LET from == UnitAt(m, k)
            to == UnitAt(at, k)
        IN MoveField(from + Payload0, <<to>>)
           \o IF obj.wide THEN MoveField(from + Payload1, <<to + 1>>) ELSE Nothing
  IN ForEach(obj.size, Unit)

(* assignSlot, unit by unit. *)
AssignObject(at, obj, move) ==
  LET Unit(k) == AssignBytewise(Slot(UnitAt(at, k), U8),
                                [Slot(UnitAt(obj.at, k), U8) EXCEPT !.type.wide = obj.wide], move)
  IN ForEach(obj.size, Unit)

-----------------------------------------------------------------------------
(* Elements.  The index is used as it is when an element is one macrocell and  *)
(* the index two cells; a temporary takes it, scaled, otherwise.               *)
IndexAsIs(elem, index) == Wide(index) /\ elem.size = 1
ScaledIndex(elem, index, free) == IF IndexAsIs(elem, index) THEN index ELSE Slot(free, U16)
ScaleIndex(elem, index, free) ==
  IF IndexAsIs(elem, index) THEN Nothing
  ELSE AssignSlot(Slot(free, U16), index, FALSE)
       \o MulSlotByConst(Slot(free, U16), elem.size, Next(free))

PromiseDynamic(m) == Promise([k \in 1 .. 5 |-> m + Scratch0 + k - 1])

FetchFromDynamicOffset(m, offset, elem, moveData, moveOffset) ==
  PromiseDynamic(m)
  \o MoveToDynamicOffset(m, offset.at, offset.at + 1, moveOffset)
  \o ToPayload(m + Value0, m, elem, moveData)
  \o Seek(m, SeekMarker, FALSE, PayloadOf(elem), TRUE)

CopyElementIntoSlot(elem, arr, index, move, free) ==
  LET m == Macrocell(arr)
      scaled == ScaledIndex(elem, index, free)
  IN ScaleIndex(elem, index, free)
     \o SetSeekMarker(m)
     \o PromiseClean(scaled.at)
     \o FetchFromDynamicOffset(m, scaled, elem, move, ~IndexAsIs(elem, index))
     \o FromPayload(m, elem.at, elem)
     \o ResetSeekMarker(m)

(* A second mark, one element past the one that is written, brings the source  *)
(* there; then everything is taken back to the start of the array.             *)
CopySlotIntoElement(o, src, arr, index, move, free) ==
  LET m == Macrocell(arr)
      scaled == ScaledIndex(src, index, free)
      past == o + src.size * FieldCount
  IN ScaleIndex(src, index, free)
     \o SetSeekMarker(m)
     \o PromiseClean(scaled.at) \o PromiseDynamic(m)
     \o MoveToDynamicOffset(m, scaled.at, scaled.at + 1, ~IndexAsIs(src, index))
     \o Believe(m, o)
     \o SetSeekMarker(past)
     \o Seek(o, SeekMarker, FALSE, NoPayload, TRUE)
     \o Believe(o, m)
     \o ToPayload(src.at, m, src, move)
     \o Seek(m, SeekMarker, TRUE, PayloadOf(src), FALSE)
     \o Believe(m, past)
     \o FromPayload(past, o + Value0, src)
     \o ResetSeekMarker(past)
     \o Seek(past, SeekMarker, FALSE, NoPayload, FALSE)
     \o Believe(past, m)
     \o ResetSeekMarker(m)

CopyConstIntoElement(o, type, value, arr, index, free) ==
  LET m == Macrocell(arr)
      elem == Object(arr, 1, type.wide, {})
      scaled == ScaledIndex(elem, index, free)
  IN ScaleIndex(elem, index, free)
     \o SetSeekMarker(m)
     \o PromiseClean(scaled.at) \o PromiseDynamic(m)
     \o MoveToDynamicOffset(m, scaled.at, scaled.at + 1, ~IndexAsIs(elem, index))
     \o Believe(m, o)
     \o SetSlotToValue(Slot(o + Value0, type), value)
     \o Seek(o, SeekMarker, FALSE, NoPayload, TRUE)
     \o Believe(o, m)
     \o ResetSeekMarker(m)

-----------------------------------------------------------------------------
(* Pointers: the number of frames back, then the offset in that frame.  A      *)
(* global's depth is read from the frame marker.                               *)
AddressOf(o, pointer, offset, global) ==
  (IF global THEN CopyField(o + FrameMarker, <<pointer>>, o + Scratch0) ELSE Zero(pointer))
  \o PromiseClean(pointer + FieldCount) \o SetToValue16(pointer + FieldCount, offset)

MoveToPointee(o, pointer) ==
  LET depth == o + Payload0
      low == o + FieldCount + Payload0
      high == o + FieldCount + Payload1
      offset == pointer + FieldCount
  IN CopyField(pointer, <<depth>>, pointer + 2)
     \o CopyField(offset, <<low>>, offset + 2)
     \o CopyField(offset + 1, <<high>>, offset + 2)
     \o Loop(depth, MoveToPreviousFrame(o, <<FALSE, TRUE>>) \o Dec(depth, 1))
     \o PromiseDynamic(o)
     \o MoveToDynamicOffset(o, low, high, TRUE)

(* The pointers inside an object are as many frames farther, or nearer. *)
RebasePointers(at, obj, depth, farther) ==
  LET Unit(k) ==
        IF k \notin obj.pointers THEN Nothing
        ELSE CopyToZero(depth, <<UnitAt(at, k) + 2>>, UnitAt(at, k) + 3)
             \o IF farther THEN AddDestructive(UnitAt(at, k), UnitAt(at, k) + 2)
                           ELSE SubDestructive(UnitAt(at, k), UnitAt(at, k) + 2)
  IN ForEach(obj.size, Unit)

DereferencePointerIntoSlot(o, pointer, dest) ==
  LET m == Macrocell(dest.at)
      Narrow(k) == Zero(UnitAt(dest.at, k) + 1)
  IN SetSeekMarker(m)
     \o MoveToPointee(o, pointer)
     \o ToPayload(o + Value0, o, dest, FALSE)
     \o Seek(o, FrameMarker, FALSE, PayloadOf(dest), FALSE)
     \o Seek(o, SeekMarker, TRUE, PayloadOf(dest), FALSE)
     \o ResetSeekMarker(o)
     \o Believe(o, m)
     \o FromPayload(m, dest.at, dest)
     \o (IF dest.wide THEN Nothing ELSE ForEach(dest.size, Narrow))
     \o RebasePointers(dest.at, dest, pointer, TRUE)

(* end is the first macrocell after the frame: every pointee is to its left.   *)
WriteSlotThroughDereferencedPointer(o, end, pointer, src, move, free) ==
  LET tmp == [src EXCEPT !.at = free]
      depth == UnitAt(free, src.size + 1)
  IN CopyField(pointer, <<depth>>, pointer + 2)
     \o SetSeekMarker(end)
     \o MoveToPointee(o, pointer)
     \o SetSeekMarker(o)
     \o Seek(o, SeekMarker, TRUE, NoPayload, FALSE)
     \o Believe(o, end)
     \o AssignObject(tmp.at, src, move)
     \o RebasePointers(tmp.at, tmp, depth, FALSE)
     \o ToPayload(tmp.at, end, tmp, TRUE)
     \o Seek(end, SeekMarker, FALSE, PayloadOf(tmp), FALSE)
     \o ResetSeekMarker(end)
     \o Believe(end, o)
     \o FromPayload(o, o + Value0, tmp)
     \o Seek(o, SeekMarker, TRUE, NoPayload, FALSE)
     \o ResetSeekMarker(o)
     \o Believe(o, end)

WriteConstThroughDereferencedPointer(o, end, pointer, type, value) ==
  SetSeekMarker(end)
  \o MoveToPointee(o, pointer)
  \o SetSlotToValue(Slot(o + Value0, type), value)
  \o Seek(o, SeekMarker, TRUE, NoPayload, FALSE)
  \o ResetSeekMarker(o)
  \o Believe(o, end)

-----------------------------------------------------------------------------
(* Calls.  The frame at next is not pushed yet; its parameters start at params.*)
(* An argument has an object, or is a literal with a value.                    *)
Overlap(a, b) ==
  a.at < UnitAt(b.at, b.size + 1) /\ b.at < UnitAt(a.at, a.size + 1)

(* A temporary is moved, unless a later argument is read from its cells. *)
Consumed(args, i) ==
  /\ args[i].temporary
  /\ \A j \in i + 1 .. Len(args) : args[j].literal \/ ~Overlap(args[i].object, args[j].object)

(* A pointer is one frame farther from what it points to. *)
PassObject(param, obj, move) ==
  LET Unit(k) ==
        LET from == UnitAt(obj.at, k)
            to == UnitAt(param, k)
        IN CopyOrMove(move, from, <<to>>, to + 2)
           \o (IF obj.wide THEN CopyOrMove(move, from + 1, <<to + 1>>, to + 2) ELSE Zero(from + 1))
           \o IF k \in obj.pointers THEN Inc(to, 1) ELSE Nothing
  IN ForEach(obj.size, Unit)

PassLiteral(param, value) == PromiseClean(param) \o SetToValue16(param, value)

ParameterAt(params, args, i) ==
  UnitAt(params, 1 + FoldLeft(LAMBDA n, arg : n + arg.object.size, 0, SubSeq(args, 1, i - 1)))

InitializeArguments(params, args) ==
  LET Passed(i) ==
        LET param == ParameterAt(params, args, i)
        IN IF args[i].literal THEN PassLiteral(param, args[i].value)
                              ELSE PassObject(param, args[i].object, Consumed(args, i))
  IN ForEach(Len(args), Passed)

(* A call through a function pointer: the target goes first. *)
PrepareNextFrame(next, params, fptr, args) ==
  CopyField(fptr, <<next + Value0>>, next + Scratch0)
  \o CopyField(fptr + 1, <<next + Value1>>, next + Scratch0)
  \o InitializeArguments(params, args)

(* The result is fetched as it is. *)
FetchReturnData(returned, dest) ==
  LET Unit(k) ==
        MoveField(UnitAt(returned, k), <<UnitAt(dest.at, k)>>)
        \o IF dest.wide THEN MoveField(UnitAt(returned, k) + 1, <<UnitAt(dest.at, k) + 1>>)
                        ELSE Nothing
  IN ForEach(dest.size, Unit)

-----------------------------------------------------------------------------
(* Globals: the first macrocell of the tape keeps a seek marker. *)
FetchGlobal(o, offset, local) ==
  LET m == o + offset * FieldCount
  IN SetSeekMarker(o)
     \o Seek(o, SeekMarker, FALSE, NoPayload, FALSE)
     \o ToPayload(m + Value0, m, local, FALSE)
     \o Seek(m, SeekMarker, TRUE, PayloadOf(local), FALSE)
     \o ResetSeekMarker(m)
     \o Believe(m, o)
     \o FromPayload(o, local.at, local)

PutGlobal(o, offset, local, move) ==
  ToPayload(local.at, o, local, move)
  \o SetSeekMarker(o)
  \o Seek(o, SeekMarker, FALSE, PayloadOf(local), FALSE)
  \o FromPayload(o, o + offset * FieldCount + Value0, local)
  \o Seek(o, SeekMarker, TRUE, NoPayload, FALSE)
  \o ResetSeekMarker(o)

(* Mutant of PutGlobalConst: the mark in the frame it returns to stays. *)
PutGlobalConstMarked(o, offset, type, value) ==
  SetSeekMarker(o)
  \o Seek(o, SeekMarker, FALSE, NoPayload, FALSE)
  \o SetSlotToValue(Slot(o + offset * FieldCount + Value0, type), value)
  \o Seek(o, SeekMarker, TRUE, NoPayload, FALSE)

PutGlobalConst(o, offset, type, value) ==
  SetSeekMarker(o)
  \o Seek(o, SeekMarker, FALSE, NoPayload, FALSE)
  \o SetSlotToValue(Slot(o + offset * FieldCount + Value0, type), value)
  \o Seek(o, SeekMarker, TRUE, NoPayload, FALSE)
  \o ResetSeekMarker(o)
=============================================================================
