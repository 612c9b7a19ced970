---------------------------- MODULE OperatorRuns ----------------------------
(* Expressions, compiled and run: a job is an expression of the program, its   *)
(* code is what Expressions emits for it, and the machine runs that code on    *)
(* every value of its operands.                                                *)
EXTENDS Integers, Sequences, TLC, CellMachine

CONSTANTS Bits,             \* of a cell
          Stride,           \* machine steps taken in one step of the model
          MaxBursts,        \* steps of the model no job needs more of
          Macrocells,       \* length of the tape, in macrocells
          Jobs

ASSUME OperatorAssumption == {Bits, Stride, MaxBursts, Macrocells} \subseteq Nat \ {0}

E == INSTANCE Expressions

VARIABLES job, left, right,     \* the expression and its operands' values
          machine, bursts       \* the machine, and how long it has been running
vars == <<job, left, right, machine, bursts>>

(* x in the first macrocell, y in the second (and third, were it a pointer),   *)
(* temporaries after that.                                                     *)
LeftAt == E!Value0
RightAt == E!Value0 + 2 * E!FieldCount
FreeAt == E!Value0 + 3 * E!FieldCount

Left(j) == [kind |-> j.lk, slot |-> E!Slot(LeftAt, j.lt), val |-> j.lv]
Right(j) ==
  IF j.rk = "same" THEN [kind |-> "slot", slot |-> E!Slot(LeftAt, j.lt), val |-> 0]
                   ELSE [kind |-> j.rk, slot |-> E!Slot(RightAt, j.rt), val |-> j.rv]

(* "value": a op b; "assign": a op= b; the rest take one operand. *)
CodeOf(j) ==
  CASE j.form = "value" -> E!BinOp(j.op, Left(j), Right(j), FreeAt)
    [] j.form = "assign" -> E!BinOpAssign(j.op, Left(j).slot, Right(j), FreeAt)
    [] j.form = "unary" -> E!UnOp(j.op, Left(j), FreeAt)
    [] j.form = "unaryAssign" -> E!ApplyUnary(j.op, Left(j).slot, FreeAt)
    [] j.form = "cast" -> E!CastTo(Left(j), j.rt, FreeAt)
    [] j.form = "pointer" -> E!BinOpAssignPointer(j.op, Left(j).slot, j.stride, Right(j), FreeAt)

(* By form and operator; "@@" has TLC build the whole table once. *)
CodeTable ==
  [form \in {j.form : j \in Jobs} |->
     [op \in {j.op : j \in Jobs} |->
        [j \in {j \in Jobs : j.form = form /\ j.op = op} |-> CodeOf(j)] @@ <<>>] @@ <<>>] @@ <<>>
Code(j) == CodeTable[j.form][j.op][j]

(* Where the result is left, and its type. *)
ResultSlot(j) ==
  CASE j.form = "value" ->
         LET first == IF E!Swapped(j.op, Left(j), Right(j)) THEN Right(j) ELSE Left(j)
             second == IF E!Swapped(j.op, Left(j), Right(j)) THEN Left(j) ELSE Right(j)
         IN E!Slot(E!Target(first, second, FreeAt).at, E!ResultType(j.op, j.lt, j.rt))
    [] j.form = "unary" /\ j.lk # "temp" -> E!Slot(FreeAt, j.lt)
    [] j.form = "cast" -> E!Slot(FreeAt, j.rt)
    [] j.form = "pointer" -> E!OffsetOf(Left(j).slot)
    [] OTHER -> Left(j).slot

-----------------------------------------------------------------------------
(* The tape a job starts on: its operands, garbage in the values of slots that *)
(* are free, every other field zero, which is what programs keep.              *)
Cells == 0 .. Macrocells * E!FieldCount - 1
Field(c) == c % E!FieldCount
Garbage(c) ==
  IF c >= FreeAt /\ Field(c) \in {E!Value0, E!Value1} THEN E!Byte - 1 ELSE 0

Placed(j, v, w) ==
  LET first == E!Encoded(v, j.lt)
      second == E!Encoded(w, j.rt)
      at == IF j.form = "pointer" THEN LeftAt + E!FieldCount ELSE LeftAt
  IN [c \in Cells |->
       CASE c = at -> first % E!Byte
         [] c = at + 1 -> first \div E!Byte
         [] c = RightAt -> second % E!Byte
         [] c = RightAt + 1 -> second \div E!Byte
         [] OTHER -> Garbage(c)]

ValuesOf(kind, type, val) ==
  IF kind = "literal" THEN {val} ELSE E!MinOf(type) .. E!MaxOf(type)

Init ==
  /\ job \in Jobs
  /\ left \in IF job.form = "pointer" THEN ValuesOf("slot", E!U16, 0)
                                   ELSE ValuesOf(job.lk, job.lt, job.lv)
  /\ right \in IF job.rk \in {"none", "same"} THEN {0} ELSE ValuesOf(job.rk, job.rt, job.rv)
  /\ machine = Start(Placed([job EXCEPT !.lt = IF job.form = "pointer" THEN E!U16 ELSE @], left, right), LeftAt)
  /\ bursts = 0

Running == ~Halted(machine)

Run ==
  /\ Running
  /\ machine' = Burst(Code(job), E!Byte, machine, Stride)
  /\ bursts' = bursts + 1
  /\ UNCHANGED <<job, left, right>>

Next == Run \/ (~Running /\ UNCHANGED vars)

Spec == Init /\ [][Next]_vars

-----------------------------------------------------------------------------
(* Values as the program sees them. *)
Read(slot) ==
  LET low == machine.tape[slot.at]
      raw == IF E!Wide(slot) THEN low + E!Byte * machine.tape[slot.at + 1] ELSE low
  IN E!Wrap(raw, slot.type)

Other == IF job.rk = "same" THEN left ELSE right

(* The operator works on its operands in their common type. *)
Promoted(v) == E!Wrap(v, E!WorkType(Left(job).slot.type, Right(job).slot.type))

(* What the expression means; a set where the sources leave it open.           *)
Meaning(op, a, b, type) ==
  CASE op = "div" ->
         IF b # 0 THEN {E!Wrap(E!Quotient(a, b), type)}
         ELSE IF type.signed THEN E!MinOf(type) .. E!MaxOf(type) ELSE {E!MaxOf(type)}
    [] op \in E!Logical \ {"lxor", "lxnor"} -> {E!Fold(op, a, b)}
    [] op = "lxor" -> {E!Truth((a # 0) # (b # 0))}
    [] op = "lxnor" -> {E!Truth((a # 0) = (b # 0))}
    [] OTHER -> {E!Wrap(E!Fold(op, a, b), type)}

MeaningUnary(op, a, type) ==
  CASE op = "signBit" -> E!Truth(a < 0)
    [] op = "abs" -> E!Wrap(E!Magnitude(a), type)
    [] op = "negate" -> E!Wrap(-a, type)
    [] OTHER -> E!FoldUnary(op, a)

Meant ==
  CASE job.form \in {"value", "assign"} ->
         Meaning(job.op, Promoted(left), Promoted(Other), ResultSlot(job).type)
    [] job.form \in {"unary", "unaryAssign"} -> {MeaningUnary(job.op, left, job.lt)}
    [] job.form = "cast" -> {E!Wrap(left, job.rt)}
    [] job.form = "pointer" ->
         {E!Wrap(E!Fold(job.op, left, job.stride * right), E!U16)}

Done == ~Running

(* The kernels compute the operator: whatever the operands, and whichever of   *)
(* the special cases, copies and swaps the code has for them, the result is    *)
(* the one of the operator's meaning in the promoted type                      *)
(* (assembler_binop_general.cc:101, type_rules.cc:57).                         *)
ResultIsRight == Done => Read(ResultSlot(job)) \in Meant

(* A kernel gives back what it borrowed, which the next one's ws::promise      *)
(* takes for granted: the scratch, flag, payload and marker fields of every    *)
(* macrocell are zero again, and so is the other byte of a result of one byte, *)
(* since a temporary is handed to the next kernel as it is and one of sixteen  *)
(* bits reads both (assembler_algorithms.tpp, every promise;                   *)
(* assembler_binop_general.cc:23, consumeRhs).                                 *)
NothingLeftBehind ==
  Done =>
    /\ \A c \in Cells : Field(c) \notin {E!Value0, E!Value1} => machine.tape[c] = 0
    /\ (job.form \in {"value", "unary", "cast"} /\ ~E!Wide(ResultSlot(job)))
         => machine.tape[ResultSlot(job).at + 1] = 0

(* An operand that is not consumed has its value afterwards: the right one of  *)
(* every form, the left one where the result goes elsewhere                    *)
(* (consumeRhs of assembler_binop_general.cc:23, TransferMode::Copy).          *)
OperandsSurvive ==
  Done => /\ job.rk = "slot" => Read(Right(job).slot) = right
          /\ (job.lk = "slot" /\ ResultSlot(job).at # LeftAt /\ job.form # "pointer") =>
               Read(Left(job).slot) = left

(* What the assembler believes of the tape holds: every ws::promise is kept    *)
(* where it is made, on every path to it, no kernel leaves the tape, and the   *)
(* pointer is where the assembler has it: an idiom whose loops leave it in one *)
(* of several cells brings the paths together again                            *)
(* (assembler_algorithms.tpp:25, literalBf).                                   *)
BeliefsHold == machine.held /\ (Done => machine.drift = 0)

(* Every expression's code ends, whatever the operands: a loop's cell comes to *)
(* zero, also where it is counted down past zero or set again in its body.     *)
EndsInTime == bursts <= MaxBursts
=============================================================================
