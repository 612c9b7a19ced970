---------------------------- MODULE MCFrameRuns ----------------------------
(* Accesses to run: objects of one macrocell and of two, the second kind a     *)
(* pointer, so that its depth has to follow it.                                *)
EXTENDS FrameRuns

MCBits == 2
MCStride == 30
MCMaxBursts == 60
MCMacrocells == 36
MCBase == 3
MCZeroChar == 1
MCMinusChar == 1
MCText == <<2, 3, 1>>

U8 == [wide |-> FALSE, signed |-> FALSE]
U16 == [wide |-> TRUE, signed |-> FALSE]

Access(form, size, wide, move, index, const) ==
  [form |-> form, size |-> size, wide |-> wide, signed |-> FALSE, move |-> move,
   pointers |-> IF size = 2 THEN {1} ELSE {}, index |-> index, const |-> const, args |-> <<>>]

Argument(at, size, wide, pointers, temporary) ==
  [object |-> P!Object(At(at), size, wide, pointers), temporary |-> temporary,
   literal |-> FALSE, value |-> 0]
LiteralArgument(value) == [Argument(Data, 1, TRUE, {}, FALSE) EXCEPT !.literal = TRUE, !.value = value]

Shapes == {<<1, FALSE>>, <<1, TRUE>>, <<2, TRUE>>}

Elements ==
  {Access(form, s[1], s[2], move, index, 0) :
     form \in {"fetch", "store"}, s \in Shapes, move \in BOOLEAN, index \in {U8, U16}}
  \cup {Access("storeConst", 1, w, FALSE, index, IF w THEN 9 ELSE 2) :
          w \in BOOLEAN, index \in {U8, U16}}
Pointers ==
  {Access("read", s[1], s[2], FALSE, U16, 0) : s \in Shapes}
  \cup {Access("write", s[1], s[2], move, U16, 0) : s \in Shapes, move \in BOOLEAN}
  \cup {Access("writeConst", 1, w, FALSE, U16, IF w THEN 9 ELSE 2) : w \in BOOLEAN}
GlobalAccesses ==
  {Access("getGlobal", s[1], s[2], FALSE, U16, 1) : s \in Shapes}
  \cup {Access("putGlobal", s[1], s[2], move, U16, 1) : s \in Shapes, move \in BOOLEAN}
  \cup {Access("putGlobalConst", 1, w, FALSE, U16, IF w THEN 9 ELSE 2) : w \in BOOLEAN}
  \cup {Access("getGlobal", 1, TRUE, FALSE, U16, 2), Access("putGlobal", 1, FALSE, TRUE, U16, 2)}
Addressed == {Access("addressOf", 2, TRUE, FALSE, U16, k) : k \in {1, 7}}
AddressedGlobals == {Access("addressOfGlobal", 2, TRUE, FALSE, U16, 1)}
(* Scalars, pointers, a struct with a pointer in it, and one temporary twice. *)
Called ==
  LET scalar(t) == Argument(Data, 1, TRUE, {}, t)
      pointer(t) == Argument(Pointer, 2, TRUE, {1}, t)
      struct == Argument(Arrays.frame, 3, TRUE, {2}, FALSE)
  IN {[Access("call", 1, TRUE, FALSE, U16, 0) EXCEPT !.args = args] :
        args \in {<<scalar(t), pointer(u)>> : t, u \in BOOLEAN}
                 \cup {<<scalar(TRUE), LiteralArgument(9), scalar(TRUE)>>,
                       <<pointer(TRUE), pointer(TRUE)>>, <<LiteralArgument(6), struct, scalar(TRUE)>>}}
     \cup {[Access("call", 1, FALSE, FALSE, U16, 0)
             EXCEPT !.args = <<Argument(Data, 1, FALSE, {}, t), LiteralArgument(3)>>] : t \in BOOLEAN}
Delivered ==
  {[Access("deliver", s[1], s[2], TRUE, U16, 0) EXCEPT !.pointers = {}] : s \in Shapes}
ReturnedPointer == {Access("deliver", 2, TRUE, TRUE, U16, 0)}
Printed ==
  {[Access("print", 1, w, FALSE, U16, 0) EXCEPT !.signed = s] : w \in BOOLEAN, s \in BOOLEAN}
  \cup {Access(form, s[1], s[2], FALSE, U16, 0) : form \in {"writeOut"}, s \in Shapes}
  \cup {Access(form, 1, FALSE, FALSE, U16, 0) : form \in {"printString", "printLiteral"}}

MCJobs == Elements \cup Pointers \cup GlobalAccesses \cup Addressed \cup Called
  \cup Delivered \cup Printed
=============================================================================
