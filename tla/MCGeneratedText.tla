-------------------------- MODULE MCGeneratedText --------------------------
(* Programs of up to three nodes or loops on two cells and a scratch cell,     *)
(* with or without a first character read and with or without the cells        *)
(* printed at the end.                                                         *)
EXTENDS GeneratedText

MCCellBits == 6
MCTapeLength == 1
MCMemory == 3
MCMaxMeant == 24
MCInputs == {<<>>, <<2>>}

Places == {0, 1}
Scratch == 2
Other(c) == 1 - c
At0(c, node) == <<P!MovePointerRelative(c), node, P!MovePointerRelative(-c)>>

(* A constant the text is a product for, and one that is counted out. *)
Steps(c) ==
  {P!ZeroCell, P!ZeroCellPlus, P!In, P!Out,
   P!ConstructConstant(20, c, Scratch), P!ConstructConstant(-18, c, Scratch),
   P!ChangeBy(1, c, Scratch), P!ChangeBy(-20, c, Scratch), P!NaiveChangeBy(-1),
   P!MoveData(c, Other(c)), P!CopyData(c, Other(c), Scratch)}
Simple == UNION {{At0(c, node) : node \in Steps(c)} : c \in Places}
Loop(c, body) ==
  At0(c, P!LoopOpen) \o At0(c, P!NaiveChangeBy(-1)) \o body \o At0(c, P!LoopClose)
Loops == {Loop(c, At0(Other(c), node)) : c \in Places, node \in {P!ZeroCell, P!Out, P!NaiveChangeBy(1)}}
Items == Simple \cup Loops

Reading == {<<>>, At0(0, P!In)}
Showing == {<<>>, At0(0, P!Out) \o At0(1, P!Out)}

MCPrograms ==
  {r \o a \o b \o s : r \in Reading, a \in Items, b \in Items, s \in Showing}
MCInterruptible == {a \o b : a \in {At0(0, P!In)}, b \in Items}
=============================================================================
