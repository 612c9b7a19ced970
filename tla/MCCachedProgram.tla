---------------------------- MODULE MCCachedProgram ----------------------------
(***************************************************************************)
(* Functions for the value cache: the storage they see, and the expressions*)
(* they read and write in any order.  In each of them two expressions that *)
(* are used for the same storage depend on one another by name, except     *)
(* through pointers.                                                       *)
(***************************************************************************)
EXTENDS CachedProgram

Storage(pairs) == [v \in {pair[1] : pair \in pairs} |-> (CHOOSE pair \in pairs : pair[1] = v)[2]]
Array(x, y) == [k \in 0 .. 1 |-> IF k = 0 THEN x ELSE y]
Set(dest, value) == <<dest, "=", Literal(value)>>
Copy(dest, src) == <<dest, "=", src>>
Add(dest, operand) == <<dest, "+=", operand>>
Bits(proxies) == {Set(dest, bit) : dest \in proxies, bit \in {0, 1}}

\* A function that does nothing, with a memory of which some outlives it.
Idle(memory, outlive) ==
  [memory |-> memory, outlive |-> outlive, scoped |-> {}, reads |-> {},
   assignments |-> {}, unaries |-> {}, calls |-> {}]

i == Direct("i")
k == Direct("k")
x == Direct("x")
a == Direct("a")
b == Direct("b")
c == Direct("c")
p == Direct("p")
q == Direct("q")
g == GlobalReference("g")
h == GlobalReference("h")
ga == GlobalReference("ga")
gs == GlobalReference("gs")

\* A local array of arrays: m[i] and m[i][k], and a local array of its own.
m == Direct("m")
mi == ArrayElement(m, i)
mik == ArrayElement(mi, k)
Arrays ==
  [Idle(Storage({<<"i", 0>>, <<"k", 0>>, <<"x", 1>>, <<"a", Array(0, 1)>>,
                 <<"m", Array(Array(0, 0), Array(1, 0))>>}), {})
   EXCEPT !.assignments = {Set(i, 0), Set(i, 1), Set(mik, 1), Copy(a, mi), Copy(mi, a), Add(mik, x),
                            Add(k, Literal(1))},
          !.reads = {mik, Element(mi, 1)},
          !.unaries = {Element(a, 0)}]

\* Globals: a scalar, and an array at a local index; a call that sets the one and
\* returns into the other.
gai == ArrayElement(ga, i)
Globals ==
  [Idle(Storage({<<"i", 0>>, <<"g", 0>>, <<"x", 0>>, <<"a", Array(1, 1)>>, <<"ga", Array(0, 1)>>}),
        {"g", "ga"})
   EXCEPT !.assignments = {Set(i, 0), Set(i, 1), Set(gai, 1), Copy(g, gai), Copy(ga, a), Copy(x, g),
                            Add(gai, g)},
          !.reads = {g, gai, Element(ga, 1)},
          !.calls = {<<gai, "g", gai>>}]

\* Global structs: fields, and a struct as a whole.
gt == GlobalReference("gt")
Fields ==
  [Idle(Storage({<<"g", 1>>, <<"x", 1>>, <<"gs", Array(0, 0)>>, <<"gt", Array(1, 0)>>}),
        {"g", "gs", "gt"})
   EXCEPT !.assignments = {Set(Element(gs, 0), 0), Copy(gs, gt), Copy(Element(gt, 0), g),
                            Copy(g, Element(gs, 1)), Add(Element(gs, 1), Literal(1)),
                            Add(Element(gs, 0), x)},
          !.reads = {Element(gs, 0), g},
          !.calls = {<<Element(gs, 0), "g", Element(gt, 1)>>}]

\* Pointers to a local, to one of the caller, and into an array that is also indexed.
ai == ArrayElement(a, i)
pp == DereferencedPointer(p)
qq == DereferencedPointer(q)
Pointers ==
  [Idle(Storage({<<"i", 0>>, <<"x", 0>>, <<"y", 1>>, <<"a", Array(0, 1)>>,
                 <<"p", <<"x">>>>, <<"q", <<"y">>>>}), {"y"})
   EXCEPT !.assignments = Bits({x, pp, ai}) \cup
            {Set(i, 0), Set(i, 1), Set(p, <<"x">>), Set(p, <<"y">>), Set(p, <<"a", 0>>),
             Set(q, <<"y">>), Set(q, <<"a", 1>>), Copy(x, pp), Copy(pp, x), Copy(qq, pp),
             Copy(ai, qq), Copy(pp, ai), Add(x, pp)},
          !.reads = {x, pp, qq, ai}]

\* An index read through another: a[b[i]], of which only b[i] and i are written.
bi == ArrayElement(b, i)
abi == ArrayElement(a, bi)
Indices ==
  [Idle(Storage({<<"i", 0>>, <<"x", 0>>, <<"a", Array(0, 1)>>, <<"b", Array(0, 1)>>, <<"g", 0>>}),
        {"g"})
   EXCEPT !.assignments = Bits({i, bi, g}) \cup
                             {Copy(x, abi), Copy(bi, x), Copy(bi, g), Copy(g, abi)},
          !.reads = {abi, bi, ArrayElement(a, g), x}]

\* An inner scope with an index, an array and a pointer of its own.
ci == ArrayElement(c, i)
Scopes ==
  [Idle(Storage({<<"i", 0>>, <<"a", Array(0, 1)>>, <<"c", Array(0, 0)>>, <<"p", <<"x">>>>,
                 <<"x", 0>>, <<"g", 0>>}), {"g"})
   EXCEPT !.scoped = {"i", "c", "p"},
          !.assignments = {Set(ai, 1), Set(i, 1), Set(p, <<"a", 0>>), Copy(ci, ai), Copy(g, ci),
                            Set(pp, 1)},
          !.reads = {ai, pp}]

\* What a function keeps in its frame, then what it reaches beyond it.
AllPrograms == {Arrays, Indices, Scopes} \cup {Globals, Fields, Pointers}

----------------------------------------------------------------------------
(* Functions in which an expression comes to the same storage on a way that  *)
(* the cache does not see, or the cache loses what it holds.                 *)

\* a[g] is written with the global index g in the cache.
IndexedByGlobal ==
  {[Idle(Storage({<<"a", Array(0, 0)>>, <<"g", 0>>}), {"g"})
             EXCEPT !.assignments = {Set(ArrayElement(a, g), 1)}]}

\* A unary operation is applied to a global in place.
UnaryGlobal == {[Idle(Storage({<<"g", 0>>}), {"g"}) EXCEPT !.unaries = {g}]}

\* a[i] is read, and the same element written as a[0].
TwoNames ==
  {[Idle(Storage({<<"a", Array(0, 0)>>, <<"i", 0>>}), {})
             EXCEPT !.assignments = {Set(Element(a, 0), 1)}, !.reads = {ai}]}

\* An index follows the array it indexes: i = a[i].
IndexChase ==
  {[Idle(Storage({<<"a", Array(1, 0)>>, <<"i", 0>>}), {}) EXCEPT !.assignments = {Copy(i, ai)}]}

\* a[b[i]] is read, and b is assigned as a whole.
WholeIndex ==
  {[Idle(Storage({<<"a", Array(0, 1)>>, <<"b", Array(0, 0)>>, <<"c", Array(1, 1)>>,
                           <<"i", 0>>}), {})
             EXCEPT !.assignments = {Copy(b, c)}, !.reads = {abi}]}

\* A global pointer is assigned while what it pointed to is in the cache.
gp == GlobalReference("gp")
GlobalPointer ==
  {[Idle(Storage({<<"gp", <<"x">>>>, <<"x", 0>>, <<"y", 1>>}), {"gp", "x", "y"})
             EXCEPT !.assignments = {Set(gp, <<"y">>)}, !.reads = {DereferencedPointer(gp)}]}

\* An element of an array that is reached through a pointer: ( *p)[i].
PointeeElement ==
  {[Idle(Storage({<<"a", Array(0, 1)>>, <<"i", 0>>, <<"p", <<"a">>>>}), {})
             EXCEPT !.reads = {ArrayElement(pp, i)}]}

\* The function returns after it wrote the global index h, and ga[h].
ReturnsIndex ==
  {[Idle(Storage({<<"ga", Array(0, 0)>>, <<"h", 0>>}), {"ga", "h"})
             EXCEPT !.assignments = {Set(h, 1), Set(ArrayElement(ga, h), 1)}]}

\* A global is increased by what a pointer points to.
PointeeOperand ==
  {[Idle(Storage({<<"g", 0>>, <<"x", 1>>, <<"p", <<"x">>>>}), {"g"})
             EXCEPT !.assignments = {Add(g, pp)}]}

\* A field is copied to another through two pointers to the same struct.
TwoPointers ==
  {[Idle(Storage({<<"a", Array(0, 1)>>, <<"p", <<"a">>>>, <<"q", <<"a">>>>}), {})
             EXCEPT !.assignments = {Copy(Element(pp, 0), Element(qq, 1))}]}
=============================================================================
