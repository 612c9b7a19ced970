---------------------------- MODULE CellMachine ----------------------------
(* What a fragment of generated code does to the tape.  The machine is a       *)
(* record: the tape, where the pointer really is (ptr) and how far that is     *)
(* from where the assembler believes it to be (drift), the instruction it is   *)
(* at (0 when it has run past the last), what it wrote, and "held": no promise *)
(* was broken, no cell off the tape was touched.                               *)
EXTENDS Integers, Sequences

Start(tape, at) == [tape |-> tape, ptr |-> at, drift |-> 0, pc |-> 1, held |-> TRUE, out |-> <<>>]

Halted(m) == m.pc = 0

(* The cell an instruction is about; -1 for the one the pointer is at. *)
CellOf(i, m) == IF i.at = -1 THEN m.ptr ELSE i.at + m.drift

Resume(m, at) == [m EXCEPT !.ptr = at, !.pc = @ + 1]

Add(m, at, n, byte) == [Resume(m, at) EXCEPT !.tape[at] = (@ + n) % byte]

(* Whole transport: every target takes what the cell holds. *)
Transport(m, at, to, byte) ==
  [Resume(m, at) EXCEPT !.tape =
     [c \in DOMAIN @ |-> IF c = at THEN 0
                         ELSE IF \E k \in DOMAIN to : to[k] + m.drift = c
                           THEN (@[c] + m.tape[at]) % byte ELSE @[c]]]

Effect(i, m, at, byte) ==
  CASE i.op = "add" -> Add(m, at, i.n, byte)
    [] i.op = "zero" -> [Resume(m, at) EXCEPT !.tape[at] = 0]
    [] i.op = "move" -> Transport(m, at, i.to, byte)
    [] i.op = "open" -> [Resume(m, at) EXCEPT !.pc = IF m.tape[at] = 0 THEN @ + i.n + 1 ELSE @]
    [] i.op = "close" -> [Resume(m, at) EXCEPT !.pc = IF m.tape[at] # 0 THEN @ - i.n - 1 ELSE @]
    [] i.op = "walk" -> Resume(m, at + i.n)
    [] i.op = "enter" -> Resume(m, at)
    [] i.op = "leave" -> [m EXCEPT !.drift = m.ptr - i.at, !.pc = @ + 1]
    [] i.op = "out" -> [Resume(m, at) EXCEPT !.out = Append(@, m.tape[at])]
    [] i.op = "rebase" -> [m EXCEPT !.drift = m.drift + i.n, !.pc = @ + 1]
    [] i.op = "promise" ->
         [m EXCEPT !.pc = @ + 1,
                   !.held = @ /\ \A k \in DOMAIN i.to : m.tape[i.to[k] + m.drift] = 0]

(* Off the tape: the program is wrong and is stopped. *)
Fault(m) == [m EXCEPT !.held = FALSE, !.pc = 0]

Step(code, byte, m) ==
  IF Halted(m) THEN m
  ELSE IF m.pc > Len(code) THEN [m EXCEPT !.pc = 0]
  ELSE LET i == code[m.pc]
           at == CellOf(i, m)
       IN IF at \notin DOMAIN m.tape THEN Fault(m) ELSE Effect(i, m, at, byte)

(* n steps, or fewer when the code ends. *)
Burst(code, byte, m, n) ==
  LET after[k \in 0 .. n] == IF k = 0 THEN m ELSE Step(code, byte, after[k - 1])
  IN after[n]
=============================================================================
