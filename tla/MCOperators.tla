---------------------------- MODULE MCOperators ----------------------------
(* Expressions to compile and run, on cells of MCBits bits: every operator,    *)
(* every pair of types its kernel takes, and every kind of operand.            *)
EXTENDS OperatorRuns

MCBits == 2
MCStride == 30
MCMaxBursts == 30
MCMacrocells == 12

Job(form, op, lk, lt, lv, rk, rt, rv) ==
  [form |-> form, op |-> op, lk |-> lk, lt |-> lt, lv |-> lv,
   rk |-> rk, rt |-> rt, rv |-> rv, stride |-> 1]

Pairs(a, b) == {<<a, b>>, <<b, a>>}
Same == {<<t, t>> : t \in E!IntegerTypes}
Mixed == (E!IntegerTypes \X E!IntegerTypes) \ Same
Literals(t) == E!MinOf(t) .. E!MaxOf(t)

(* The work type is the left operand's of a value, its own of an assignment. *)
Taken(j) ==
  E!KernelTakes(j.op, IF j.form = "value" THEN E!WorkType(j.lt, j.rt) ELSE j.lt, j.rt)

Slots ==
  {Job("value", op, k[1], p[1], 0, k[2], p[2], 0) :
     op \in E!BinaryOps, p \in Same \union Mixed, k \in {<<"slot", "slot">>, <<"slot", "temp">>}}
(* Sums and differences copy a narrow signed operand on the right of another   *)
(* type without its sign (addSlotToSlot, subSlotFromSlot).                     *)
SignLost == {j \in Slots : j.rt = E!S8 /\ j.lt # E!S8 /\ j.op \in {"add", "sub"}}
WideWithNarrow == {Job("value", "add", "slot", E!S16, 0, "slot", E!S8, 0)}
Assignments ==
  {Job("assign", op, "slot", p[1], 0, rk, p[2], 0) :
     op \in E!BinaryOps, p \in Pairs(E!U16, E!U8), rk \in {"slot", "temp"}}
SelfAssignments ==
  {Job("assign", op, "slot", t, 0, "same", t, 0) : op \in E!BinaryOps, t \in E!IntegerTypes}
SignedSelfDivision == {j \in SelfAssignments : j.op = "div" /\ j.lt.signed}
Constants ==
  UNION {{Job("assign", op, "slot", t, 0, "literal", t, v) : op \in E!BinaryOps, v \in Literals(t)} :
           t \in E!IntegerTypes}
LiteralsOnTheLeft ==
  UNION {{Job("value", op, "literal", t, v, "slot", t, 0) : op \in E!BinaryOps, v \in Literals(t)} :
           t \in E!IntegerTypes}
Unary ==
  {Job(form, op, "slot", t, 0, "none", t, 0) :
     form \in {"unary", "unaryAssign"}, op \in E!UnaryOps \ {"signBit"}, t \in E!IntegerTypes}
  \union {Job(form, "signBit", "slot", t, 0, "none", t, 0) :
            form \in {"unary", "unaryAssign"}, t \in {E!S8, E!S16}}
Casts ==
  {Job("cast", "cast", "slot", t, 0, "none", u, 0) : t \in E!IntegerTypes, u \in E!IntegerTypes}
PointerSteps ==
  {[Job("pointer", op, "slot", E!U16, 0, rk, IF stride = 1 THEN E!U8 ELSE E!U16, 2)
       EXCEPT !.stride = stride] :
     op \in {"add", "sub"}, rk \in {"slot", "temp", "literal"}, stride \in 1 .. 3}

MCJobs ==
  {j \in (Slots \ SignLost) \union Assignments \union (SelfAssignments \ SignedSelfDivision)
          \union Constants \union LiteralsOnTheLeft
          \union Unary \union Casts \union PointerSteps : Taken(j)}
=============================================================================
