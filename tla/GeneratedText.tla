--------------------------- MODULE GeneratedText ---------------------------
(* From intermediate code to what its text does: a program of nodes is run as  *)
(* its nodes are meant, on a memory, and its simplified text is run by the     *)
(* interpreter.                                                                *)
EXTENDS Bfint, BrainfuckText, SequencesExt

CONSTANTS Programs,             \* sequences of nodes
          Inputs,               \* what may be typed
          Memory,               \* cells a program may use: 0 .. Memory - 1
          MaxMeant,             \* nodes a program may execute
          Interruptible         \* those a signal may come to

P == INSTANCE Primitives

VARIABLES program, typed, merging,   \* the nodes, the user's input, are nodes merged?
          meant                 \* what the program is to print
vars == <<program, typed, merging, meant, code, codePointer, dataPointer, tape, depth, input, output,
          interrupted, outcome>>

-----------------------------------------------------------------------------
(* The meaning of a node, as primitive.h has it: its cell is the one the       *)
(* pointer is at, dest and scratch are as far from that as from "current".     *)
Levels(p) ==
  LET upTo[k \in 0 .. Len(p)] ==
        IF k = 0 THEN <<>>
        ELSE LET so == upTo[k - 1]
                 level == IF k = 1 THEN 0 ELSE so[k - 1]
             IN Append(so, CASE p[k].kind = "loopOpen" -> level + 1
                             [] p[k].kind = "loopClose" -> level - 1
                             [] OTHER -> level)
  IN upTo[Len(p)]

(* The levels are counted after each node, so a loop's end has one less. *)
Partner(p, level, k) ==
  IF p[k].kind = "loopOpen"
    THEN CHOOSE j \in k .. Len(p) :
           level[j] = level[k] - 1 /\ \A l \in k .. j - 1 : level[l] >= level[k]
    ELSE CHOOSE j \in 1 .. k :
           /\ p[j].kind = "loopOpen" /\ level[j] = level[k] + 1
           /\ \A l \in j .. k - 1 : level[l] > level[k]

Begun(given) == [at |-> 1, ptr |-> 0, cells |-> [c \in 0 .. Memory - 1 |-> 0],
                 unread |-> given, printed |-> <<>>, kept |-> TRUE]

(* "Assumed empty": a scratch cell is zero when it is lent. *)
Borrowed(q, m) ==
  CASE q.kind \in {"constant", "change", "copy"} -> {m.ptr + q.scratch - q.current}
    [] OTHER -> {}
Touched(q, m) ==
  CASE q.kind \in {"move", "copy"} -> {m.ptr, m.ptr + q.dest - q.current} \cup Borrowed(q, m)
    [] q.kind = "movePointer" -> {m.ptr + q.n}
    [] OTHER -> {m.ptr} \cup Borrowed(q, m)
Sound(q, m) ==
  /\ Touched(q, m) \subseteq 0 .. Memory - 1
  /\ \A c \in Borrowed(q, m) : m.cells[c] = 0

Written(q, m) ==
  LET here == m.cells[m.ptr]
      there == m.ptr + q.dest - q.current
  IN CASE q.kind \in {"zero", "zeroPlus"} -> [m.cells EXCEPT ![m.ptr] = 0]
       [] q.kind = "constant" -> [m.cells EXCEPT ![m.ptr] = q.n % P!CellValues]
       [] q.kind \in {"change", "naiveChange"} -> [m.cells EXCEPT ![m.ptr] = (here + q.n) % P!CellValues]
       [] q.kind = "move" -> [m.cells EXCEPT ![there] = here, ![m.ptr] = 0]
       [] q.kind = "copy" -> [m.cells EXCEPT ![there] = here]
       [] q.kind = "in" -> [m.cells EXCEPT ![m.ptr] = IF m.unread = <<>> THEN 0 ELSE Head(m.unread)]
       [] OTHER -> m.cells

Do(p, level, m) ==
  LET q == p[m.at]
      here == m.cells[m.ptr]
      jumps == (q.kind = "loopOpen" /\ here = 0) \/ (q.kind = "loopClose" /\ here # 0)
  IN [at |-> IF jumps THEN Partner(p, level, m.at) + 1 ELSE m.at + 1,
      ptr |-> IF q.kind = "movePointer" THEN m.ptr + q.n ELSE m.ptr,
      cells |-> Written(q, m),
      unread |-> IF q.kind = "in" /\ m.unread # <<>> THEN Tail(m.unread) ELSE m.unread,
      printed |-> IF q.kind = "out" THEN Append(m.printed, here) ELSE m.printed,
      kept |-> TRUE]

Meant(p, given) ==
  LET level == Levels(p)
      after[k \in 0 .. MaxMeant] ==
        IF k = 0 THEN Begun(given)
        ELSE LET m == after[k - 1]
             IN IF ~m.kept \/ m.at > Len(p) THEN m
                ELSE IF Sound(p[m.at], m) THEN Do(p, level, m) ELSE [m EXCEPT !.kept = FALSE]
  IN after[MaxMeant]

-----------------------------------------------------------------------------
(* What endProgram makes of the nodes; mergeSequence has no caller there, and  *)
(* is run too.                                                                 *)
Text(p, merged) == SimplifyBrainfuck(P!DumpCode(IF merged THEN P!MergeSequence(p) ELSE p))

(* "@@" has TLC build each table once. *)
Meanings == [given \in Inputs |-> [p \in Programs |-> Meant(p, given)] @@ <<>>] @@ <<>>
Instructions ==
  [merged \in BOOLEAN |-> [p \in Programs |-> Preprocess(Text(p, merged))] @@ <<>>] @@ <<>>

(* Programs the assembler emits keep the nodes' assumptions, and these end. *)
Init ==
  /\ program \in Programs
  /\ typed \in Inputs
  /\ Meanings[typed][program].kept
  /\ Meanings[typed][program].at > Len(program)
  /\ meant = Meanings[typed][program].printed
  /\ merging \in BOOLEAN
  /\ Load(Instructions[merging][program], typed)

Run == Operate /\ UNCHANGED <<program, typed, merging, meant>>
Interrupt == program \in Interruptible /\ Signal /\ UNCHANGED <<program, typed, merging, meant>>

Next == Run \/ Interrupt \/ (outcome # "running" /\ UNCHANGED vars)

Spec == Init /\ [][Next]_vars /\ WF_vars(Run)

-----------------------------------------------------------------------------
(* The text prints what the nodes mean, whatever was merged, cancelled or left *)
(* out as needless: nothing else along the way, also when it is interrupted,   *)
(* and all of it when it ends.  It never leaves the tape and its brackets      *)
(* match (primitive.cc:303, assembler_codegen.cc:177, bfint.cc:39).            *)
PrintsWhatIsMeant ==
  /\ outcome \notin {"failed", "rejected"}
  /\ IsPrefix(output, meant)
  /\ outcome = "ended" => output = meant

(* A text whose nodes end does so too; nobody waits for the last command of a  *)
(* loop that was removed or jumped past (bfint.cc:199, assembler_codegen.cc:177). *)
RunsEnd == <>(outcome # "running")
=============================================================================
