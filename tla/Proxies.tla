------------------------------ MODULE Proxies ------------------------------
(***************************************************************************)
(* The expressions that name storage (include/acus/core/proxy.h), and the  *)
(* values they have in a memory.                                           *)
(*                                                                         *)
(* An expression is a SlotProxy: a record whose kind is the proxy's, except*)
(* that an array element at a constant index and a struct field, which     *)
(* behave alike, are both an Element.  The code compares proxies by their  *)
(* unique names, which are built like these records.                       *)
(***************************************************************************)
EXTENDS Integers, Sequences

CONSTANT Junk   \* what a cell holds after its value was moved away

Direct(v) == [kind |-> "Direct", var |-> v]
GlobalReference(v) == [kind |-> "GlobalReference", var |-> v]
Element(p, k) == [kind |-> "Element", of |-> p, at |-> k]
ArrayElement(p, index) == [kind |-> "ArrayElement", of |-> p, by |-> index]
DereferencedPointer(p) == [kind |-> "DereferencedPointer", of |-> p]

\* What is assigned or added may also be a literal.
Literal(value) == [kind |-> "Literal", literal |-> value]

----------------------------------------------------------------------------
(* What a proxy says of itself. *)

IsDirect(p) == p.kind \in {"Direct", "Element"}
HasEnclosing(p) == p.kind \in {"Element", "ArrayElement"}

RECURSIVE DependsOnDereferencedPointer(_)
DependsOnDereferencedPointer(p) ==
  \/ p.kind = "DereferencedPointer"
  \/ HasEnclosing(p) /\ DependsOnDereferencedPointer(p.of)
  \/ p.kind = "ArrayElement" /\ DependsOnDereferencedPointer(p.by)

\* A fault: the index is forgotten.
DependsOnArray(p, other) ==
  p.kind \in {"Element", "ArrayElement", "DereferencedPointer"} /\ p.of = other

DependsOn(p, other) ==
  \/ p.kind \in {"Element", "ArrayElement", "DereferencedPointer"} /\ p.of = other
  \/ p.kind = "ArrayElement" /\ p.by = other

RECURSIVE DependsOnStorage(_, _)
DependsOnStorage(p, v) ==
  CASE p.kind = "Direct" -> p.var = v
    [] p.kind = "GlobalReference" -> FALSE
    [] p.kind \in {"Element", "DereferencedPointer"} -> DependsOnStorage(p.of, v)
    [] p.kind = "ArrayElement" -> DependsOnStorage(p.of, v) \/ DependsOnStorage(p.by, v)

\* The proxies around p, innermost first.
RECURSIVE Enclosing(_)
Enclosing(p) == IF HasEnclosing(p) THEN <<p.of>> \o Enclosing(p.of) ELSE <<>>

InSubtree(p, root) == p = root \/ \E k \in DOMAIN Enclosing(p) : Enclosing(p)[k] = root

----------------------------------------------------------------------------
(* A location is a variable and the indices that lead to a part of it.  The *)
(* value of an array is a function from its indices, that of a pointer is a *)
(* location; integers are bits, and the operators on them are one addition. *)

RECURSIVE At(_, _)
At(value, path) ==
  IF path = <<>> \/ value = Junk THEN value ELSE At(value[Head(path)], Tail(path))

RECURSIVE Replaced(_, _, _)
Replaced(value, path, part) ==
  IF path = <<>> THEN part
  ELSE IF value = Junk THEN Junk
  ELSE [value EXCEPT ![Head(path)] = Replaced(@, Tail(path), part)]

Sum(x, y) == IF Junk \in {x, y} THEN Junk ELSE (x + y) % 2

RECURSIVE Locate(_, _)
Locate(m, p) ==
  LET Content(q) == At(m, Locate(m, q)) IN
  CASE p.kind \in {"Direct", "GlobalReference"} -> <<p.var>>
    [] p.kind = "Element" -> Append(Locate(m, p.of), p.at)
    [] p.kind = "ArrayElement" -> Append(Locate(m, p.of), Content(p.by))
    [] p.kind = "DereferencedPointer" -> Content(p.of)

Value(m, p) == IF p.kind = "Literal" THEN p.literal ELSE At(m, Locate(m, p))
============================================================================
