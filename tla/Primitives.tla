----------------------------- MODULE Primitives -----------------------------
(* The intermediate code: nodes the assembler emits, the text each stands for  *)
(* and the rules by which two adjacent ones are merged                         *)
(* (src/ir/primitive.cc, src/ir/constants.cc, mergeSequence of                 *)
(* assembler_codegen.cc).  A text is a sequence of one-character strings.      *)
EXTENDS Integers, Sequences, SequencesExt

CONSTANT CellBits               \* the width of a cell: 8 in the code

CellValues == 2^CellBits

(* One shape for every node; what a kind has no use for is 0. *)
Node(kind, n, current, dest, scratch) ==
  [kind |-> kind, n |-> n, current |-> current, dest |-> dest, scratch |-> scratch]

MovePointerRelative(n) == Node("movePointer", n, 0, 0, 0)
LoopOpen == Node("loopOpen", 0, 0, 0, 0)
LoopClose == Node("loopClose", 0, 0, 0, 0)
ZeroCell == Node("zero", 0, 0, 0, 0)
ZeroCellPlus == Node("zeroPlus", 0, 0, 0, 0)
ConstructConstant(n, current, scratch) == Node("constant", n, current, 0, scratch)
ChangeBy(n, current, scratch) == Node("change", n, current, 0, scratch)
NaiveChangeBy(n) == Node("naiveChange", n, 0, 0, 0)
MoveData(current, dest) == Node("move", 0, current, dest, 0)
CopyData(current, dest, scratch) == Node("copy", 0, current, dest, scratch)
In == Node("in", 0, 0, 0, 0)
Out == Node("out", 0, 0, 0, 0)

-----------------------------------------------------------------------------
(* generate *)
Times(c, n) == [k \in 1 .. n |-> c]
Distance(n) == IF n < 0 THEN -n ELSE n

MovePtr(n) == Times(IF n > 0 THEN ">" ELSE "<", Distance(n))
Increment(n) == Times("+", n)
Decrement(n) == Times("-", n)
ZeroText == <<"[", "-", "]">>
ZeroPlusText == <<"[", "+", "]">>

Modify(n) == IF n > 0 THEN Increment(n) ELSE Decrement(-n)

(* constants::table: the factors whose product leaves least to do. *)
Factors(n) ==
  LET Pairs == UNION {{<<a, b>> : b \in a .. (n \div a) + 1} : a \in 1 .. n}
      cost(f) == f[1] + f[2] + Distance(n - f[1] * f[2])
  IN CHOOSE f \in Pairs : \A g \in Pairs : cost(f) <= cost(g)

(* A constant is counted up or, when that is shorter, down past zero; a long   *)
(* one is a product, made in a loop over a scratch cell.                       *)
ModifyVia(val, current, tmp) ==
  LET norm == val % CellValues
      back == norm > CellValues \div 2
      n == IF back THEN CellValues - norm ELSE norm
      count(k) == IF back THEN Decrement(k) ELSE Increment(k)
      f == Factors(n)
      naive == count(n)
      smart == MovePtr(tmp - current) \o Increment(f[1]) \o <<"[">> \o Decrement(1)
               \o MovePtr(current - tmp) \o count(f[2]) \o MovePtr(tmp - current) \o <<"]">>
               \o MovePtr(current - tmp)
               \o Modify((n - f[1] * f[2]) * IF back THEN -1 ELSE 1)
  IN IF n = 0 THEN <<>> ELSE IF Len(smart) < Len(naive) THEN smart ELSE naive

(* There and back from cell to cell, doing the same at each. *)
AtEach(from, tos, doing) ==
  LET places == <<from>> \o tos
      there == [k \in DOMAIN tos |-> MovePtr(places[k + 1] - places[k]) \o doing]
  IN FlattenSeq(there) \o MovePtr(from - Last(places))

MoveValueAssumeZero(from, tos) ==
  <<"[">> \o Decrement(1) \o AtEach(from, tos, Increment(1)) \o <<"]">>

MoveValue(from, tos) == AtEach(from, tos, ZeroText) \o MoveValueAssumeZero(from, tos)

CopyValue(from, tmp, tos) ==
  MoveValue(from, <<tmp>> \o tos) \o MovePtr(tmp - from)
  \o MoveValueAssumeZero(tmp, <<from>>) \o MovePtr(from - tmp)

Generate(p) ==
  CASE p.kind = "movePointer" -> MovePtr(p.n)
    [] p.kind = "loopOpen" -> <<"[">>
    [] p.kind = "loopClose" -> <<"]">>
    [] p.kind = "zero" -> ZeroText
    [] p.kind = "zeroPlus" -> ZeroPlusText
    [] p.kind = "constant" -> ZeroText \o ModifyVia(p.n, p.current, p.scratch)
    [] p.kind = "change" -> ModifyVia(p.n, p.current, p.scratch)
    [] p.kind = "naiveChange" -> Modify(p.n)
    [] p.kind = "move" -> MoveValue(p.current, <<p.dest>>)
    [] p.kind = "copy" -> CopyValue(p.current, p.scratch, <<p.dest>>)
    [] p.kind = "in" -> <<",">>
    [] p.kind = "out" -> <<".">>

DumpCode(nodes) == FlattenSeq([k \in DOMAIN nodes |-> Generate(nodes[k])])

-----------------------------------------------------------------------------
(* merge: what two adjacent nodes become, or nothing. *)
Zeroes == {"zero", "zeroPlus"}
Changes == {"change", "naiveChange"}

Merged(p, q) ==
  CASE p.kind = "movePointer" /\ q.kind = "movePointer" -> <<MovePointerRelative(p.n + q.n)>>
    [] p.kind \in Zeroes \cup {"loopClose", "move"} /\ q.kind \in Zeroes -> <<p>>
    [] p.kind = "copy" /\ q.kind \in Zeroes -> <<MoveData(p.current, p.dest)>>
    [] p.kind = "constant" /\ q.kind \in Changes ->
         <<ConstructConstant(p.n + q.n, p.current, p.scratch)>>
    [] p.kind \in Changes /\ q.kind \in Changes -> <<NaiveChangeBy(p.n + q.n)>>
    [] p.kind \in Changes \cup {"constant"} /\ q.kind \in Zeroes \cup {"constant"} -> <<q>>
    [] OTHER -> <<>>

MergePass(nodes) ==
  LET grown(done, q) ==
        LET m == Merged(Last(done), q)
        IN IF m = <<>> THEN Append(done, q) ELSE Front(done) \o m
      upTo[k \in DOMAIN nodes] == IF k = 1 THEN <<nodes[1]>> ELSE grown(upTo[k - 1], nodes[k])
  IN upTo[Len(nodes)]

(* Passes are made until one merges nothing, which the last of them does. *)
MergeSequence(nodes) ==
  LET fewer[k \in 0 .. Len(nodes)] ==
        IF k = 0 THEN nodes
        ELSE LET last == fewer[k - 1]
                 next == MergePass(last)
             IN IF Len(next) = Len(last) THEN last ELSE next
  IN IF nodes = <<>> THEN nodes ELSE fewer[Len(nodes)]
=============================================================================
