------------------------- MODULE BlockBuilderProofs -------------------------
(***************************************************************************)
(* Between a jump and the label behind it there is no block to emit into,  *)
(* and the call expected is all that keeps clients from it.                *)
(* And endProgram judges a program by the graph of its blocks, of which    *)
(* the text knows nothing: that its verdict is right rests on what every   *)
(* block tells of the text, which each call keeps, and on paths through    *)
(* the blocks, which are those through the text. And that the blocks run   *)
(* what the calls emitted in the order of the text rests on the paths that *)
(* run through silent blocks and silent calls alone.                       *)
(***************************************************************************)
EXTENDS BlockBuilder, ListLemmas

\* The lists of an assembler that outlive a program are empty between programs.
NothingDeferred == phase \in {"outside", "ended"} => metaBlocks = <<>> /\ labelChecks = {}

\* What EmitsIntoABlock says of a program, and that nothing is open or expected
\* where one may be begun.
Awaited ==
  /\ phase \in {"outside", "program", "ended", "rejected", "stopped"}
  /\ expected \in {None, "label"}
  /\ phase \in {"outside", "ended"} => ~ inFunction /\ ~ open /\ expected = None
  /\ NothingDeferred

BlockInv == Awaited /\ EmitsIntoABlock

\* Before any call nothing is awaited and nothing is open.
THEOREM InitAwaited == Init => BlockInv
BY DEF Init, BlockInv, Awaited, NothingDeferred, EmitsIntoABlock, None

\* The calls in a body, one by one.
THEOREM StepAwaited == BlockInv /\ [Next]_vars => BlockInv'
<1> SUFFICES ASSUME BlockInv, [Next]_vars PROVE BlockInv'
  OBVIOUS
<1> USE DEF BlockInv, Awaited, NothingDeferred, EmitsIntoABlock, None
<1>1. CASE UNCHANGED vars
  BY <1>1 DEF vars
<1>2. CASE BeginProgram
  BY <1>2 DEF BeginProgram
<1>3. CASE EndProgram
  BY <1>3 DEF EndProgram, Cleared, Reject, Stop
<1>4. ASSUME NEW f \in Functions, BeginFunction(f) PROVE BlockInv'
  BY <1>4 DEF BeginFunction
<1>5. CASE EndFunction
  BY <1>5 DEF EndFunction
<1>6. CASE BodyCall
  <2>1. CASE Work
    BY <2>1 DEF Work, Says
  <2>2. ASSUME NEW l \in Labels, BeginLabel(l) PROVE BlockInv'
    BY <2>2 DEF BeginLabel, Says
  <2>3. ASSUME NEW l \in Labels, Jump(l) PROVE BlockInv'
    BY <2>3 DEF Jump, Says, LeaveFor, ExpectLabel
  <2>4. ASSUME NEW l1 \in Labels, NEW l2 \in Labels, JumpIf(l1, l2) \/ JumpIfLiteral(l1, l2)
        PROVE  BlockInv'
    BY <2>4 DEF JumpIf, JumpIfLiteral, Says, LeaveFor, ExpectLabel
  <2>5. ASSUME NEW callees, Call(callees) PROVE BlockInv'
    BY <2>5 DEF Call, Says
  <2>6. ASSUME NEW op, Leave(op) PROVE BlockInv'
    BY <2>6 DEF Leave, Says
  <2>7. CASE Unreachable \/ BeginScope \/ EndScope
    BY <2>7 DEF Unreachable, BeginScope, EndScope, Says
  <2> QED BY <1>6, <2>1, <2>2, <2>3, <2>4, <2>5, <2>6, <2>7 DEF BodyCall
<1>7. CASE Refused
  BY <1>7 DEF Refused, Reject, Abandon
<1>8. CASE Undefined
  BY <1>8 DEF Undefined, Stop, Abandon
<1> QED BY <1>1, <1>2, <1>3, <1>4, <1>5, <1>6, <1>7, <1>8 DEF Next

\* There is a block open whenever a call is accepted that emits code, and the
\* only call accepted without one is a label.
THEOREM AlwaysABlock == Spec => []EmitsIntoABlock
<1>1. BlockInv => EmitsIntoABlock
  BY DEF BlockInv
<1> QED BY <1>1, InitAwaited, StepAwaited, PTL DEF Spec

\* A program begins with no metablock and no label check of an earlier one:
\* what endProgram resolves is what this program has deferred.
THEOREM BeginsAfresh == Spec => []NothingDeferred
<1>1. BlockInv => NothingDeferred
  BY DEF BlockInv, Awaited
<1> QED BY <1>1, InitAwaited, StepAwaited, PTL DEF Spec


\* One step along the edges.
Stepped(edges, V) == V \cup {e[2] : e \in {d \in edges : d[1] \in V}}

InSteps(U, from, edges, n) ==
  \E g \in [0 .. n -> SUBSET U] :
    /\ Closure(from, edges, n) = g[n] /\ g[0] = from
    /\ \A k \in 0 .. (n - 1) : g[k + 1] = Stepped(edges, g[k])

\* The recursive function of Closure exists, and is what it says.
LEMMA ClosureSteps ==
  ASSUME NEW U, NEW from, from \subseteq U, NEW edges, edges \subseteq U \X U, NEW n \in Nat
  PROVE  InSteps(U, from, edges, n)
<1> DEFINE Found(g) == g = [k \in 0 .. n |-> IF k = 0 THEN from ELSE Stepped(edges, g[k - 1])]
           F == [p \in (1 .. n) \X SUBSET U |-> Stepped(edges, p[2])]
<1>1. \A V \in SUBSET U : Stepped(edges, V) \in SUBSET U
  BY DEF Stepped
<1>2. \A k \in 1 .. n, V \in SUBSET U : F[<<k, V>>] = Stepped(edges, V)
  OBVIOUS
<1> HIDE DEF F
<1>3. PICK D : D = SUBSET U
  OBVIOUS
<1>4. PICK g \in [0 .. n -> D] : g[0] = from /\ \A k \in 1 .. n : g[k] = F[<<k, g[k - 1]>>]
  <2>1. from \in D /\ \A k \in 1 .. n, V \in D : F[<<k, V>>] \in D
    BY <1>1, <1>2, <1>3
  <2>2. Recursive(D, n, from, F)
    BY <2>1, StepsExist
  <2> QED
    BY <2>2 DEF Recursive
<1>5. ASSUME NEW k \in 0 .. n PROVE g[k] = IF k = 0 THEN from ELSE Stepped(edges, g[k - 1])
  <2>1. CASE k # 0
    <3>1. k \in 1 .. n /\ k - 1 \in 0 .. n
      BY <2>1
    <3>2. g[k] = F[<<k, g[k - 1]>>] /\ g[k - 1] \in SUBSET U
      BY <1>3, <1>4, <3>1
    <3> QED
      BY <1>2, <2>1, <3>1, <3>2
  <2> QED
    BY <1>4, <2>1
<1>7. Found(g)
  BY <1>4, <1>5
<1> DEFINE found == CHOOSE h : Found(h)
<1>8. Found(found)
  <2> HIDE DEF Found
  <2> QED
    BY <1>7
<1>9. Closure(from, edges, n) = found[n]
  BY Zenon DEF Closure, Stepped
<1> HIDE DEF found
<1>10. found[0] = from
  BY <1>8
<1>11. ASSUME NEW k \in 0 .. (n - 1) PROVE found[k + 1] = Stepped(edges, found[k])
  <2>1. k + 1 \in 0 .. n /\ k + 1 # 0 /\ (k + 1) - 1 = k
    OBVIOUS
  <2> QED
    BY <1>8, <2>1
<1>12. found \in [0 .. n -> SUBSET U]
  <2> DEFINE Q == {k \in 0 .. n : found[k] \in SUBSET U}
  <2>1. 0 \in Q
    BY <1>10
  <2>2. ASSUME NEW k \in 0 .. (n - 1), k \in Q PROVE k + 1 \in Q
    <3>1. k + 1 \in 0 .. n
      OBVIOUS
    <3> QED
      BY <1>1, <1>11, <2>2, <3>1
  <2> HIDE DEF Q
  <2>3. 0 .. n \subseteq Q
    BY <2>1, <2>2, UpFromNothing, Zenon
  <2> QED
    BY <1>8, <2>3 DEF Q
<1> HIDE DEF Found
<1> QED
  BY <1>9, <1>10, <1>11, <1>12 DEF InSteps

LeastClosed(U, from, edges, R) ==
  /\ from \subseteq R /\ R \subseteq U
  /\ \A e \in edges : e[1] \in R => e[2] \in R
  /\ \A P : from \subseteq P /\ (\A e \in edges : e[1] \in P => e[2] \in P) => R \subseteq P

\* In as many steps as there are nodes everything is reached that can be: the closure
\* holds where it begins, is closed, and lies in every set that does and is.
LEMMA ClosureCloses ==
  ASSUME NEW U, IsFiniteSet(U), NEW from, from \subseteq U, NEW edges, edges \subseteq U \X U,
         NEW n \in Nat, Cardinality(U) <= n
  PROVE  LeastClosed(U, from, edges, Closure(from, edges, n))
<1>1. PICK g \in [0 .. n -> SUBSET U] :
        /\ Closure(from, edges, n) = g[n] /\ g[0] = from
        /\ \A k \in 0 .. (n - 1) : g[k + 1] = Stepped(edges, g[k])
  <2>1. InSteps(U, from, edges, n)
    BY ClosureSteps
  <2> QED
    BY <2>1 DEF InSteps
<1> DEFINE Closed(V) == \A e \in edges : e[1] \in V => e[2] \in V
           T == {k \in 0 .. n : /\ from \subseteq g[k] /\ g[k] \subseteq U
                                /\ Closed(g[k]) \/ k <= Cardinality(g[k])}
<1>2. 0 \in T
  <2>1. IsFiniteSet(from)
    BY FS_Subset
  <2>2. Cardinality(from) \in Nat
    BY <2>1, FS_CardinalityType
  <2> QED
    BY <1>1, <2>2
<1>3. ASSUME NEW k \in 0 .. (n - 1), k \in T PROVE k + 1 \in T
  <2>1. PICK V : V = g[k]
    OBVIOUS
  <2>2. PICK W : W = g[k + 1]
    OBVIOUS
  <2>3. V \in SUBSET U /\ from \subseteq V /\ (Closed(V) \/ k <= Cardinality(V))
    BY <1>3, <2>1
  <2>4. W = V \cup {e[2] : e \in {d \in edges : d[1] \in V}}
    BY <1>1, <2>1, <2>2 DEF Stepped
  <2>5. W \in SUBSET U /\ V \in SUBSET W
    BY <2>3, <2>4
  <2>6. Closed(W) \/ k + 1 <= Cardinality(W)
    <3>1. CASE Closed(V)
      <4>1. W = V
        BY <2>4, <3>1
      <4> QED
        BY <3>1, <4>1
    <3>2. CASE ~ Closed(V)
      <4>1. PICK e \in edges : e[1] \in V /\ e[2] \notin V
        BY <3>2
      <4>2. e[2] \in W
        BY <2>4, <4>1
      <4>3. W # V
        BY <4>1, <4>2
      <4>4. IsFiniteSet(W)
        BY <2>5, FS_Subset
      <4>5. IsFiniteSet(V) /\ Cardinality(V) <= Cardinality(W) /\ (Cardinality(W) = Cardinality(V) => W = V)
        BY <2>5, <4>4, FS_Subset
      <4>6. Cardinality(V) \in Nat /\ Cardinality(W) \in Nat
        BY <4>4, <4>5, FS_CardinalityType
      <4>7. k <= Cardinality(V)
        BY <2>3, <3>2
      <4> HIDE DEF Closed
      <4> QED
        BY <4>3, <4>5, <4>6, <4>7
    <3> QED
      BY <3>1, <3>2
  <2>7. k + 1 \in 0 .. n
    OBVIOUS
  <2> HIDE DEF Closed
  <2> QED
    BY <2>2, <2>3, <2>5, <2>6, <2>7
<1>4. n \in T
  <2> HIDE DEF T
  <2>1. 0 .. n \subseteq T
    BY <1>2, <1>3, UpFromNothing, Zenon
  <2> QED
    BY <2>1
<1>5. PICK R : R = g[n]
  OBVIOUS
<1>6. R \in SUBSET U /\ from \subseteq R /\ (Closed(R) \/ n <= Cardinality(R))
  BY <1>4, <1>5
<1>7. Closed(R)
  <2>1. SUFFICES ASSUME n <= Cardinality(R) PROVE Closed(R)
    BY <1>6
  <2>2. IsFiniteSet(R) /\ Cardinality(R) <= Cardinality(U) /\ (Cardinality(U) = Cardinality(R) => U = R)
    BY <1>6, FS_Subset
  <2>3. Cardinality(R) \in Nat /\ Cardinality(U) \in Nat
    BY <2>2, FS_CardinalityType
  <2>4. Cardinality(U) = Cardinality(R)
    BY <2>1, <2>2, <2>3
  <2>5. U = R
    BY <2>2, <2>4
  <2> QED
    BY <2>5
<1>8. ASSUME NEW P, from \subseteq P, \A e \in edges : e[1] \in P => e[2] \in P PROVE R \subseteq P
  <2> DEFINE Q == {k \in 0 .. n : g[k] \subseteq P}
  <2>1. 0 \in Q
    BY <1>1, <1>8
  <2>2. ASSUME NEW k \in 0 .. (n - 1), k \in Q PROVE k + 1 \in Q
    <3>1. k + 1 \in 0 .. n
      OBVIOUS
    <3>2. g[k + 1] = g[k] \cup {e[2] : e \in {d \in edges : d[1] \in g[k]}}
      BY <1>1 DEF Stepped
    <3> QED
      BY <1>8, <2>2, <3>1, <3>2
  <2> HIDE DEF Q
  <2>3. 0 .. n \subseteq Q
    BY <2>1, <2>2, UpFromNothing, Zenon
  <2> QED
    BY <1>5, <2>3 DEF Q
<1> QED
  BY <1>1, <1>5, <1>6, <1>7, <1>8 DEF LeastClosed

Enders == Jumps \cup {"call", "return", "abort"}

\* Where the text goes on, case by case.
LEMMA AfterSays ==
  ASSUME NEW T, Len(T) \in Nat, DOMAIN T = 1 .. Len(T), NEW i \in Places(T)
  PROVE  /\ After(T, i) \subseteq Places(T)
         /\ i = Len(T) + 1 => After(T, i) = {}
         /\ i <= Len(T) /\ T[i].op \in {"return", "abort"} => After(T, i) = {}
         /\ i <= Len(T) /\ T[i].op \in Jumps => After(T, i) = UNION {At(T, l) : l \in Targets(T[i])}
         /\ i <= Len(T) /\ (T[i].op = "call" \/ T[i].op \notin Enders) => After(T, i) = {i + 1}
<1>1. i \in 1 .. (Len(T) + 1) /\ (i \in DOMAIN T <=> i <= Len(T)) /\ (i = Len(T) + 1 => ~ (i <= Len(T)))
  BY DEF Places
<1>2. \A l : At(T, l) \subseteq Places(T)
  BY DEF At, LabelsOf, Ops, Places
<1>3. i <= Len(T) => i + 1 \in Places(T)
  BY <1>1 DEF Places
<1>4. After(T, i) \subseteq Places(T)
  BY <1>1, <1>2, <1>3 DEF After
<1>5. i = Len(T) + 1 => After(T, i) = {}
  BY <1>1 DEF After
<1>6. i <= Len(T) /\ T[i].op \in {"return", "abort"} => After(T, i) = {}
  BY <1>1 DEF After
<1>7. i <= Len(T) /\ T[i].op \in Jumps => After(T, i) = UNION {At(T, l) : l \in Targets(T[i])}
  BY <1>1 DEF After, Jumps
<1>8. i <= Len(T) /\ (T[i].op = "call" \/ T[i].op \notin Enders) => After(T, i) = {i + 1}
  BY <1>1 DEF After, Jumps, Enders
<1> QED
  BY <1>4, <1>5, <1>6, <1>7, <1>8

\* What places lead to, when execution goes on at those of Q, is the least set that holds
\* them and, with one of Q, those it may go on at.
TextLeast(T, Q, from, V) ==
  /\ from \subseteq V /\ V \subseteq Places(T)
  /\ \A i \in V \cap Q : After(T, i) \subseteq V
  /\ \A P : from \subseteq P /\ (\A i \in Q : i \in P => After(T, i) \subseteq P) => V \subseteq P

\* The closure of the text under steps from the calls of Q is the least set of places closed under them.
LEMMA TextIsLeast ==
  ASSUME NEW T, Len(T) \in Nat, DOMAIN T = 1 .. Len(T),
         NEW Q, Q \subseteq Places(T), NEW from, from \subseteq Places(T)
  PROVE  TextLeast(T, Q, from, Closure(from, Flow(T, Q), Len(T) + 1))
<1>1. PICK U : U = Places(T)
  OBVIOUS
<1>2. PICK edges : edges = Flow(T, Q)
  OBVIOUS
<1>3. PICK n \in Nat : n = Len(T) + 1
  OBVIOUS
<1>4. IsFiniteSet(U) /\ Cardinality(U) <= n
  <2>1. U = 1 .. n /\ 1 \in Int /\ n \in Int
    BY <1>1, <1>3 DEF Places
  <2>2. IsFiniteSet(1 .. n) /\ Cardinality(1 .. n) = IF 1 > n THEN 0 ELSE n - 1 + 1
    BY <2>1, FS_Interval
  <2> QED
    BY <1>3, <2>1, <2>2
<1>5. \A i \in U : After(T, i) \subseteq U
  BY <1>1, AfterSays
<1>6. /\ \A e \in edges : e \in U \X U /\ e[1] \in Q /\ e[2] \in After(T, e[1])
      /\ \A i \in Q : \A j \in After(T, i) : <<i, j>> \in edges
  BY <1>1, <1>2, <1>5 DEF Flow
<1>7. from \subseteq U /\ edges \subseteq U \X U
  BY <1>1, <1>6
<1>8. PICK V : V = Closure(from, edges, n)
  OBVIOUS
<1>9. /\ from \subseteq V /\ V \subseteq U
      /\ \A e \in edges : e[1] \in V => e[2] \in V
      /\ \A P : from \subseteq P /\ (\A e \in edges : e[1] \in P => e[2] \in P) => V \subseteq P
  <2>1. LeastClosed(U, from, edges, V)
    BY <1>4, <1>7, <1>8, ClosureCloses
  <2> QED
    BY <2>1 DEF LeastClosed
<1>10. ASSUME NEW i \in V \cap Q, NEW j \in After(T, i) PROVE j \in V
  <2>1. PICK e \in edges : e = <<i, j>>
    BY <1>6
  <2>2. e[1] = i /\ e[2] = j
    BY <2>1
  <2> QED
    BY <1>9, <2>2
<1>11. ASSUME NEW P, from \subseteq P, \A i \in Q : i \in P => After(T, i) \subseteq P PROVE V \subseteq P
  <2>1. ASSUME NEW e \in edges, e[1] \in P PROVE e[2] \in P
    <3>1. e[1] \in Q /\ e[2] \in After(T, e[1])
      BY <1>6
    <3> QED
      BY <1>11, <2>1, <3>1
  <2> QED
    BY <1>9, <1>11, <2>1
<1>12. TextLeast(T, Q, from, V)
  BY <1>1, <1>9, <1>10, <1>11 DEF TextLeast
<1> QED
  BY <1>2, <1>3, <1>8, <1>12

\* The places that execution may come to are the least set that holds the first and,
\* with a place, those it may go on at.
LEMMA VisitedIsLeast ==
  ASSUME NEW T, Len(T) \in Nat, DOMAIN T = 1 .. Len(T)
  PROVE  /\ 1 \in Visited(T) /\ Visited(T) \subseteq Places(T)
         /\ \A i \in Visited(T) : After(T, i) \subseteq Visited(T)
         /\ \A P : 1 \in P /\ (\A i \in Places(T) : i \in P => After(T, i) \subseteq P)
                   => Visited(T) \subseteq P
<1>1. {1} \subseteq Places(T)
  BY DEF Places
<1>2. TextLeast(T, Places(T), {1}, Visited(T))
  BY <1>1, TextIsLeast DEF Visited
<1> QED
  BY <1>2 DEF TextLeast

\* What names lead to, when the flow goes on from those of N, is the least set that holds
\* them and, with one of N, those of its children.
BlocksLeast(C, N, from, R) ==
  /\ from \subseteq R /\ R \subseteq NamesIn(C)
  /\ \A k \in DOMAIN C : C[k].name \in R \cap N => C[k].children \cap NamesIn(C) \subseteq R
  /\ \A P : from \subseteq P
            /\ (\A k \in DOMAIN C : C[k].name \in P \cap N => C[k].children \cap NamesIn(C) \subseteq P)
            => R \subseteq P

\* The closure of the blocks under edges from the blocks of N is the least set of names closed under them.
LEMMA BlocksAreLeast ==
  ASSUME NEW S, NEW C \in Seq(S), NEW N, NEW from, from \subseteq NamesIn(C)
  PROVE  BlocksLeast(C, N, from, Closure(from, {e \in Edges(C) : e[1] \in N}, Len(C)))
<1>1. PICK U : U = NamesIn(C)
  OBVIOUS
<1>2. PICK edges : edges = {e \in Edges(C) : e[1] \in N}
  OBVIOUS
<1>3. PICK n \in Nat : n = Len(C) /\ DOMAIN C = 1 .. n
  OBVIOUS
<1>4. U = {C[k].name : k \in 1 .. n}
  BY <1>1, <1>3 DEF NamesIn, ToSet
<1>5. IsFiniteSet(U) /\ Cardinality(U) <= n
  <2>1. IsFiniteSet(1 .. n) /\ Cardinality(1 .. n) = n
    <3>1. 1 \in Int /\ n \in Int
      OBVIOUS
    <3>2. IsFiniteSet(1 .. n) /\ Cardinality(1 .. n) = IF 1 > n THEN 0 ELSE n - 1 + 1
      BY <3>1, FS_Interval
    <3> QED
      BY <3>1, <3>2
  <2> DEFINE f == [k \in 1 .. n |-> C[k].name]
  <2>2. f \in Surjection(1 .. n, U)
    BY <1>4 DEF Surjection
  <2> HIDE DEF f
  <2>3. IsFiniteSet(U) /\ Cardinality(U) <= Cardinality(1 .. n)
    BY <2>1, <2>2, FS_Surjection
  <2> QED
    BY <2>1, <2>3
<1>6. /\ \A e \in edges : /\ e \in U \X U /\ e[1] \in N
                          /\ \E k \in DOMAIN C : e[1] = C[k].name /\ e[2] \in C[k].children \cap U
      /\ \A k \in DOMAIN C : C[k].name \in N => \A c \in C[k].children \cap U : <<C[k].name, c>> \in edges
  <2>1. /\ \A e \in Edges(C) : /\ e \in U \X U
                               /\ \E k \in DOMAIN C : e[1] = C[k].name /\ e[2] \in C[k].children \cap U
        /\ \A k \in DOMAIN C : \A c \in C[k].children \cap U : <<C[k].name, c>> \in Edges(C)
    BY <1>1, <1>3, <1>4 DEF Edges, ToSet
  <2>2. \A x, y : <<x, y>>[1] = x
    OBVIOUS
  <2> QED
    BY <1>2, <2>1, <2>2
<1>7. from \subseteq U /\ edges \subseteq U \X U
  BY <1>1, <1>6
<1>8. PICK R : R = Closure(from, edges, n)
  OBVIOUS
<1>9. /\ from \subseteq R /\ R \subseteq U
      /\ \A e \in edges : e[1] \in R => e[2] \in R
      /\ \A P : from \subseteq P /\ (\A e \in edges : e[1] \in P => e[2] \in P) => R \subseteq P
  <2>1. LeastClosed(U, from, edges, R)
    BY <1>5, <1>7, <1>8, ClosureCloses
  <2> QED
    BY <2>1 DEF LeastClosed
<1>10. ASSUME NEW k \in DOMAIN C, C[k].name \in R \cap N, NEW c \in C[k].children \cap U PROVE c \in R
  <2>1. PICK e \in edges : e = <<C[k].name, c>>
    BY <1>6, <1>10
  <2>2. e[1] = C[k].name /\ e[2] = c
    BY <2>1
  <2> QED
    BY <1>9, <1>10, <2>2
<1>11. ASSUME NEW P, from \subseteq P,
              \A k \in DOMAIN C : C[k].name \in P \cap N => C[k].children \cap U \subseteq P
       PROVE  R \subseteq P
  <2>1. ASSUME NEW e \in edges, e[1] \in P PROVE e[2] \in P
    <3>1. PICK k \in DOMAIN C : e[1] = C[k].name /\ e[2] \in C[k].children \cap U
      BY <1>6
    <3>2. e[1] \in N
      BY <1>6
    <3> QED
      BY <1>11, <2>1, <3>1, <3>2
  <2> QED
    BY <1>9, <1>11, <2>1
<1>12. BlocksLeast(C, N, from, R)
  BY <1>1, <1>9, <1>10, <1>11 DEF BlocksLeast
<1> QED
  BY <1>2, <1>3, <1>8, <1>12

\* The names that the flow check reaches are the least set that holds the first block's
\* and, with a block's, those of its children.
LEMMA ReachedIsLeast ==
  ASSUME NEW S, NEW C \in Seq(S), C # <<>>
  PROVE  /\ C[1].name \in Reached(C) /\ Reached(C) \subseteq NamesIn(C)
         /\ \A k \in DOMAIN C : C[k].name \in Reached(C) =>
              C[k].children \cap NamesIn(C) \subseteq Reached(C)
         /\ \A P : C[1].name \in P
                   /\ (\A k \in DOMAIN C : C[k].name \in P => C[k].children \cap NamesIn(C) \subseteq P)
                   => Reached(C) \subseteq P
<1>1. PICK N : N = NamesIn(C)
  OBVIOUS
<1>2. \A k \in DOMAIN C : C[k].name \in N
  BY <1>1 DEF NamesIn, ToSet
<1>3. {e \in Edges(C) : e[1] \in N} = Edges(C)
  BY <1>1, <1>2 DEF Edges, ToSet
<1>4. Head(C) = C[1] /\ 1 \in DOMAIN C
  OBVIOUS
<1>5. PICK R : R = Reached(C)
  OBVIOUS
<1>6. BlocksLeast(C, N, {C[1].name}, R)
  <2>1. {C[1].name} \subseteq NamesIn(C)
    BY <1>1, <1>2, <1>4
  <2> QED
    BY <1>3, <1>4, <1>5, <2>1, BlocksAreLeast DEF Reached
<1>7. \A P : C[1].name \in P => {C[1].name} \subseteq P
  OBVIOUS
<1> QED
  BY <1>1, <1>2, <1>5, <1>6, <1>7 DEF BlocksLeast

----------------------------------------------------------------------------
(* What a block tells of the text: the calls at the places x .. (y - 1) were *)
(* made in it, and follow has the name of the block behind it.               *)

\* A label begins a block of its name, and nothing else does with a label's name.
Labelled(b, T, x, y) ==
  /\ b.name[1] \in {"label", "block"}
  /\ b.name[1] = "label" => x < y /\ T[x].op = "label"
  /\ \A p \in x .. (y - 1) :
       T[p].op = "label" => p = x /\ b.name = Label(b.name[2]) /\ T[p].to = <<b.name[2]>>

\* What leaves a block is its last call.
Straight(T, x, y) == \A p \in x .. (y - 1) : T[p].op \in Enders => p = y - 1
Ended(T, x, y) == x < y /\ T[y - 1].op \in Enders

MarksOf(b, T, x, y) == b.reachable <=> \A p \in x .. (y - 1) : T[p].op # "unreachable"

FallsToLabel(b, follow) == b.children = follow /\ ~ b.returns /\ \A f \in follow : f[1] = "label"
JumpsTo(b, call, follow) ==
  /\ b.children = {Label(l) : l \in Targets(call)} /\ ~ b.returns
  /\ \A f \in follow : f[1] = "label"
CallsBy(b, follow, owner, metas) ==
  /\ ~ b.returns
  /\ \E i \in DOMAIN metas : /\ metas[i].caller = owner
                             /\ b.children = {metas[i].name} /\ follow = {metas[i].nextBlock}

Leads(b, T, x, y, follow, owner, metas) ==
  /\ ~ Ended(T, x, y) => FallsToLabel(b, follow)
  /\ Ended(T, x, y) /\ T[y - 1].op \in Jumps => JumpsTo(b, T[y - 1], follow)
  /\ Ended(T, x, y) /\ T[y - 1].op \in {"return", "abort"} =>
       b.children = {} /\ b.returns /\ follow # {}
  /\ Ended(T, x, y) /\ T[y - 1].op = "call" => CallsBy(b, follow, owner, metas)

\* The code of a block is made by the calls of its piece that emit, in their order.
Emits == {"work", "call", "return", "abort"}
Codes(code, T, x, y) ==
  /\ code \in Seq(Nat)
  /\ \A k \in 1 .. Len(code) : code[k] \in x .. (y - 1) /\ T[code[k]].op \in Emits
  /\ \A j, k \in 1 .. Len(code) : j < k => code[j] < code[k]
  /\ \A p \in x .. (y - 1) : T[p].op \in Emits => \E k \in 1 .. Len(code) : code[k] = p

Tells(b, T, x, y, follow, owner, metas) ==
  /\ x <= y
  /\ Codes(b.code, T, x, y)
  /\ Labelled(b, T, x, y)
  /\ Straight(T, x, y)
  /\ MarksOf(b, T, x, y)
  /\ Leads(b, T, x, y, follow, owner, metas)

\* The blocks B of a function cut its text T in pieces, which begin at the places s.
Follow(B, m) == IF m < Len(B) THEN {B[m + 1].name} ELSE {}
Cut(B, T, s, owner, metas) ==
  /\ s \in [1 .. (Len(B) + 1) -> 1 .. (Len(T) + 1)]
  /\ s[1] = 1 /\ s[Len(B) + 1] = Len(T) + 1
  /\ \A p \in 1 .. Len(T) : \E m \in 1 .. Len(B) : p \in s[m] .. (s[m + 1] - 1)
  /\ \A m \in 1 .. Len(B) : Tells(B[m], T, s[m], s[m + 1], Follow(B, m), owner, metas)
  /\ \A i, j \in 1 .. Len(B) : B[i].name = B[j].name => i = j

\* The last block is open: nothing has left it.
Live(B, T, s) == ~ Ended(T, s[Len(B)], s[Len(B) + 1])

MetasNamed(metas) ==
  /\ Len(metas) \in Nat /\ DOMAIN metas = 1 .. Len(metas)
  /\ \A i \in DOMAIN metas : metas[i].name = <<"meta", i - 1>> /\ metas[i].nextBlock[1] = "block"

\* The blocks C are the blocks B and the metablocks of the function.
Completes(B, owner, metas, C) ==
  /\ Len(C) \in Nat /\ Len(C) >= Len(B) /\ DOMAIN C = 1 .. Len(C)
  /\ \A m \in 1 .. Len(B) : C[m] = B[m]
  /\ \A k \in 1 .. Len(C) :
       k > Len(B) => \E i \in DOMAIN metas : metas[i].caller = owner /\ C[k] = Built(metas[i])
  /\ \A i \in DOMAIN metas :
       metas[i].caller = owner => \E k \in 1 .. Len(C) : k > Len(B) /\ C[k] = Built(metas[i])

\* A function that is complete.
Whole(B, T, s, owner, metas, C) ==
  /\ Len(B) \in Nat /\ 1 <= Len(B)
  /\ Len(T) \in Nat /\ DOMAIN T = 1 .. Len(T)
  /\ Cut(B, T, s, owner, metas) /\ Live(B, T, s)
  /\ MetasNamed(metas) /\ Completes(B, owner, metas, C)

Span(B, T, s, m) == {p \in s[m] .. s[m + 1] : p < s[m + 1] \/ m = Len(B)}

\* What the lemmas below need of the places.
LEMMA PlacesOf ==
  ASSUME NEW B, NEW T, NEW s, NEW owner, NEW metas, NEW C, Whole(B, T, s, owner, metas, C),
         NEW m \in 1 .. Len(B)
  PROVE  /\ Len(B) \in Nat /\ 1 <= Len(B)
         /\ Len(T) \in Nat /\ DOMAIN T = 1 .. Len(T)
         /\ s[m] \in 1 .. (Len(T) + 1) /\ s[m + 1] \in 1 .. (Len(T) + 1) /\ s[m] <= s[m + 1]
         /\ m = Len(B) => s[m + 1] = Len(T) + 1 /\ ~ Ended(T, s[m], s[m + 1])
         /\ Tells(B[m], T, s[m], s[m + 1], Follow(B, m), owner, metas)
         /\ s[1] = 1 /\ 1 \in 1 .. Len(B)
<1>1. m \in 1 .. (Len(B) + 1) /\ m + 1 \in 1 .. (Len(B) + 1) /\ 1 \in 1 .. Len(B)
  BY DEF Whole
<1>2. Tells(B[m], T, s[m], s[m + 1], Follow(B, m), owner, metas)
  BY DEF Whole, Cut
<1>3. s[m] <= s[m + 1]
  BY <1>2 DEF Tells
<1>4. /\ Len(B) \in Nat /\ 1 <= Len(B)
      /\ Len(T) \in Nat /\ DOMAIN T = 1 .. Len(T)
  BY DEF Whole
<1>5. s[m] \in 1 .. (Len(T) + 1) /\ s[m + 1] \in 1 .. (Len(T) + 1) /\ s[1] = 1
  BY <1>1 DEF Whole, Cut
<1>6. m = Len(B) => s[m + 1] = Len(T) + 1 /\ ~ Ended(T, s[m], s[m + 1])
  BY DEF Whole, Cut, Live
<1> QED
  BY <1>1, <1>2, <1>3, <1>4, <1>5, <1>6

\* Execution that comes to the beginning of a block comes to every place in it.
LEMMA StraightOn ==
  ASSUME NEW B, NEW T, NEW s, NEW owner, NEW metas, NEW C, Whole(B, T, s, owner, metas, C),
         NEW m \in 1 .. Len(B), s[m] \in Visited(T)
  PROVE  Span(B, T, s, m) \subseteq Visited(T)
<1>1. PICK x \in Nat, y \in Nat : x = s[m] /\ y = s[m + 1] /\ x <= y /\ y <= Len(T) + 1 /\ 1 <= x
  BY PlacesOf
<1>2. Len(T) \in Nat /\ DOMAIN T = 1 .. Len(T) /\ Straight(T, x, y)
      /\ (m = Len(B) => ~ Ended(T, x, y))
  BY <1>1, PlacesOf DEF Tells
<1>3. PICK d \in Nat : y = x + d
  <2>1. y - x \in Nat /\ y = x + (y - x)
    BY <1>1
  <2> QED
    BY <2>1
<1> DEFINE Q == {k \in 0 .. d : x + k < y \/ m = Len(B) => x + k \in Visited(T)}
<1>4. 0 \in Q
  BY <1>1
<1>5. ASSUME NEW k \in 0 .. (d - 1), k \in Q PROVE k + 1 \in Q
  <2> PICK l \in Nat : l = Len(T)
    BY <1>2
  <2>1. PICK p \in Nat : p = x + k
    OBVIOUS
  <2>2. p + 1 = x + (k + 1) /\ p < y /\ x <= p /\ p <= Len(T) /\ 1 <= p /\ k + 1 \in 0 .. d
    <3>1. y <= l + 1 /\ 1 <= x
      BY <1>1
    <3>2. k \in Nat /\ k + 1 \in 0 .. d /\ k < d
      OBVIOUS
    <3>3. p + 1 = x + (k + 1) /\ p < y /\ x <= p
      BY <1>3, <2>1, <3>2
    <3> QED
      BY <3>1, <3>2, <3>3
  <2>3. p \in Visited(T)
    BY <1>5, <2>1, <2>2
  <2> HIDE DEF Q
  <2>4. SUFFICES ASSUME p + 1 < y \/ m = Len(B) PROVE p + 1 \in Visited(T)
    BY <2>2 DEF Q
  <2>5. T[p].op \notin Enders
    <3>1. p \in x .. (y - 1)
      BY <1>1, <2>2
    <3>2. CASE p + 1 < y
      <4>1. p # y - 1
        BY <1>1, <3>2
      <4> QED
        BY <1>2, <3>1, <4>1 DEF Straight
    <3>3. CASE ~ (p + 1 < y)
      <4>1. p = y - 1 /\ x < y
        <5>1. p < y /\ x <= p
          BY <2>2
        <5> QED
          BY <3>3, <5>1
      <4>2. ~ Ended(T, x, y)
        BY <1>2, <2>4, <3>3
      <4> QED
        BY <4>1, <4>2 DEF Ended
    <3> QED
      BY <3>2, <3>3
  <2>6. p \in Places(T)
    BY <1>2, <2>2 DEF Places
  <2>7. After(T, p) = {p + 1}
    BY <1>2, <2>2, <2>5, <2>6, AfterSays
  <2>8. After(T, p) \subseteq Visited(T)
    BY <1>2, <2>3, VisitedIsLeast
  <2> QED
    BY <2>7, <2>8
<1> HIDE DEF Q
<1>6. 0 .. d \subseteq Q
  BY <1>4, <1>5, UpFromNothing, Zenon
<1>7. ASSUME NEW p \in Span(B, T, s, m) PROVE p \in Visited(T)
  <2>1. p \in x .. y /\ (p < y \/ m = Len(B))
    BY <1>1 DEF Span
  <2>2. PICK k \in 0 .. d : p = x + k
    <3>1. p - x \in 0 .. d /\ p = x + (p - x)
      BY <1>1, <1>3, <2>1
    <3> QED
      BY <3>1
  <2> QED
    BY <1>6, <2>1, <2>2 DEF Q
<1> QED
  BY <1>7

\* Every call of the text is in a block.
LEMMA PieceOf ==
  ASSUME NEW B, NEW T, NEW s, NEW owner, NEW metas, NEW C, Whole(B, T, s, owner, metas, C),
         NEW p \in DOMAIN T
  PROVE  \E m \in 1 .. Len(B) : s[m] <= p /\ p < s[m + 1] /\ p \in s[m] .. (s[m + 1] - 1)
<1>1. p \in 1 .. Len(T) /\ Len(T) \in Nat
  BY DEF Whole
<1>2. PICK m \in 1 .. Len(B) : p \in s[m] .. (s[m + 1] - 1)
  BY <1>1 DEF Whole, Cut
<1>3. s[m] \in Nat /\ s[m + 1] \in Nat /\ p \in Nat
  BY <1>1, PlacesOf
<1> QED
  BY <1>2, <1>3

\* The block with a label's name begins with that label, and the label in no other.
LEMMA LabelBegins ==
  ASSUME NEW B, NEW T, NEW s, NEW owner, NEW metas, NEW C, Whole(B, T, s, owner, metas, C),
         NEW m \in 1 .. Len(B), NEW l
  PROVE  /\ B[m].name = Label(l) => s[m] \in At(T, l) /\ s[m] < s[m + 1]
         /\ \A p \in At(T, l) : s[m] <= p /\ p < s[m + 1] => p = s[m] /\ B[m].name = Label(l)
<1>1. PICK x \in Nat, y \in Nat : x = s[m] /\ y = s[m + 1] /\ x <= y /\ y <= Len(T) + 1 /\ 1 <= x
  BY PlacesOf
<1>2. PICK n \in Nat : n = Len(T) /\ DOMAIN T = 1 .. n
  BY PlacesOf
<1>3. Labelled(B[m], T, x, y)
  BY <1>1, PlacesOf DEF Tells
<1>4. PICK name : name = B[m].name
  OBVIOUS
<1>5. /\ name[1] = "label" => x < y /\ T[x].op = "label"
      /\ \A p \in x .. (y - 1) :
            T[p].op = "label" => p = x /\ name = Label(name[2]) /\ T[p].to = <<name[2]>>
  BY <1>3, <1>4 DEF Labelled
<1>6. ASSUME name = Label(l) PROVE x \in At(T, l) /\ x < y
  <2>1. name[1] = "label" /\ name[2] = l
    BY <1>6 DEF Label
  <2>2. x < y /\ T[x].op = "label"
    BY <1>5, <2>1
  <2>3. x \in x .. (y - 1)
    BY <2>2
  <2>4. T[x].to = <<l>>
    BY <1>5, <2>1, <2>2, <2>3
  <2>5. x \in 1 .. n
    BY <1>1, <1>2, <2>2
  <2> QED
    BY <1>2, <2>2, <2>4, <2>5 DEF At, LabelsOf, Ops
<1>7. ASSUME NEW p \in At(T, l), x <= p, p < y PROVE p = x /\ name = Label(l)
  <2>1. p \in 1 .. n /\ T[p].op = "label" /\ T[p].to = <<l>>
    BY <1>2 DEF At, LabelsOf, Ops
  <2>2. p \in x .. (y - 1)
    BY <1>7, <2>1
  <2>3. p = x /\ name = Label(name[2]) /\ T[p].to = <<name[2]>>
    BY <1>5, <2>1, <2>2
  <2>4. name[2] = l
    BY <2>1, <2>3
  <2> QED
    BY <2>3, <2>4
<1> QED
  BY <1>1, <1>4, <1>6, <1>7

\* What is left when a block is not ended, jumps, returns or calls.
LEMMA LeadsOn ==
  ASSUME NEW B, NEW T, NEW s, NEW owner, NEW metas, NEW C, Whole(B, T, s, owner, metas, C),
         NEW m \in 1 .. Len(B), NEW p \in Nat, p + 1 = s[m + 1], s[m] <= p
  PROVE  /\ T[p].op \notin Enders => FallsToLabel(B[m], Follow(B, m))
         /\ T[p].op \in Enders => m < Len(B) /\ Ended(T, s[m], s[m + 1])
         /\ T[p].op \in Jumps => JumpsTo(B[m], T[p], Follow(B, m))
         /\ T[p].op \in {"return", "abort"} => B[m].children = {} /\ B[m].returns
         /\ T[p].op = "call" => CallsBy(B[m], Follow(B, m), owner, metas)
<1>1. PICK x \in Nat, y \in Nat : x = s[m] /\ y = s[m + 1] /\ x <= y /\ y <= Len(T) + 1 /\ 1 <= x
  BY PlacesOf
<1>2. p = y - 1 /\ x < y
  BY <1>1
<1>3. Leads(B[m], T, x, y, Follow(B, m), owner, metas)
  BY <1>1, PlacesOf DEF Tells
<1>4. Ended(T, x, y) <=> T[p].op \in Enders
  BY <1>2 DEF Ended
<1>5. PICK n \in Nat : n = Len(B) /\ m \in 1 .. n
  BY PlacesOf
<1>6. m < n \/ m = n
  BY <1>5
<1>7. T[p].op \in Enders => m < Len(B)
  <2>1. m = n => ~ Ended(T, x, y)
    BY <1>1, <1>5, PlacesOf
  <2>2. T[p].op \in Enders => m < n
    BY <1>4, <1>6, <2>1
  <2> QED
    BY <1>5, <2>2
<1> QED
  BY <1>1, <1>2, <1>3, <1>4, <1>7 DEF Leads, Enders

\* A block without calls that is not ended leads to the next.
LEMMA EmptyLeadsOn ==
  ASSUME NEW B, NEW T, NEW s, NEW owner, NEW metas, NEW C, Whole(B, T, s, owner, metas, C),
         NEW m \in 1 .. Len(B), ~ Ended(T, s[m], s[m + 1])
  PROVE  FallsToLabel(B[m], Follow(B, m))
<1>1. Tells(B[m], T, s[m], s[m + 1], Follow(B, m), owner, metas)
  BY PlacesOf
<1> QED
  BY <1>1 DEF Tells, Leads

\* The children of blocks that are reached, are.
ReachedOn(B, metas, C) ==
  /\ \A m \in 1 .. Len(B) : C[m] = B[m] /\ m \in DOMAIN C
  /\ B[1].name \in Reached(C)
  /\ \A m, n \in 1 .. Len(B) :
       B[m].name \in Reached(C) /\ B[n].name \in B[m].children => B[n].name \in Reached(C)

\* What endProgram reaches is closed under children: the first block is reached, and so are the
\* children of a reached block.
LEMMA ReachesOn ==
  ASSUME NEW B, NEW T, NEW s, NEW owner, NEW metas, NEW S, NEW C \in Seq(S),
         Whole(B, T, s, owner, metas, C)
  PROVE  ReachedOn(B, metas, C)
<1>1. PICK n \in Nat : n = Len(B) /\ 1 <= n
  BY DEF Whole
<1>2. PICK c \in Nat : c = Len(C) /\ n <= c /\ DOMAIN C = 1 .. c /\ \A m \in 1 .. n : C[m] = B[m]
  BY <1>1 DEF Whole, Completes
<1>3. \A m \in 1 .. n : m \in DOMAIN C /\ B[m].name \in NamesIn(C)
  BY <1>2 DEF NamesIn, ToSet
<1>4. 1 \in 1 .. n /\ C # <<>>
  BY <1>1, <1>2
<1>5. /\ C[1].name \in Reached(C)
      /\ \A k \in DOMAIN C : C[k].name \in Reached(C) => C[k].children \cap NamesIn(C) \subseteq Reached(C)
  BY <1>4, ReachedIsLeast
<1>6. ASSUME NEW m \in 1 .. n, NEW k \in 1 .. n,
             B[m].name \in Reached(C), B[k].name \in B[m].children
      PROVE  B[k].name \in Reached(C)
  BY <1>2, <1>3, <1>5, <1>6
<1> QED
  BY <1>1, <1>2, <1>3, <1>4, <1>5, <1>6 DEF ReachedOn

\* By way of its metablock, a block that calls leads to the next.
LEMMA CallLeadsOn ==
  ASSUME NEW B, NEW T, NEW s, NEW owner, NEW metas, NEW S, NEW C \in Seq(S),
         Whole(B, T, s, owner, metas, C),
         NEW m \in 1 .. Len(B), m < Len(B), CallsBy(B[m], Follow(B, m), owner, metas),
         B[m].name \in Reached(C)
  PROVE  B[m + 1].name \in Reached(C)
<1>1. PICK i \in DOMAIN metas : metas[i].caller = owner
                                /\ B[m].children = {metas[i].name} /\ Follow(B, m) = {metas[i].nextBlock}
  BY DEF CallsBy
<1>2. PICK next : next = B[m + 1].name
  OBVIOUS
<1>3. metas[i].nextBlock = next
  <2>1. Follow(B, m) = {next}
    BY <1>2 DEF Follow
  <2> QED
    BY <1>1, <2>1
<1>4. PICK k \in 1 .. Len(C) : C[k] = Built(metas[i])
  BY <1>1 DEF Whole, Completes
<1>5. DOMAIN C = 1 .. Len(C) /\ Len(B) \in Nat /\ 1 <= Len(B) /\ Len(C) \in Nat /\ Len(B) <= Len(C)
      /\ \A j \in 1 .. Len(B) : C[j] = B[j]
  BY DEF Whole, Completes
<1>6. \A j \in DOMAIN C : C[j].name \in NamesIn(C)
  BY DEF NamesIn, ToSet
<1>7. C # <<>>
  BY <1>5
<1>8. \A j \in DOMAIN C : C[j].name \in Reached(C) => C[j].children \cap NamesIn(C) \subseteq Reached(C)
  BY <1>7, ReachedIsLeast
<1>9. C[k].name = metas[i].name /\ C[k].children = {next}
  BY <1>3, <1>4 DEF Built, LeadingTo, NewBlock
<1>10. m \in DOMAIN C /\ m + 1 \in DOMAIN C /\ C[m] = B[m] /\ C[m + 1] = B[m + 1]
  BY <1>5
<1>11. C[k].name \in Reached(C)
  <2>1. C[k].name \in C[m].children \cap NamesIn(C)
    BY <1>1, <1>4, <1>5, <1>6, <1>9, <1>10
  <2> QED
    BY <1>8, <1>10, <2>1
<1>12. next \in C[k].children \cap NamesIn(C)
  BY <1>2, <1>6, <1>9, <1>10
<1> QED
  BY <1>2, <1>4, <1>5, <1>8, <1>11, <1>12

\* The places the blocks that are reached stand for.
PlacesCut(B, T, s, C) ==
  {p \in Places(T) : \E m \in 1 .. Len(B) : B[m].name \in Reached(C) /\ p \in Span(B, T, s, m)}

\* A block that is reached covers its first place, or leads to one that does.
LEMMA StartsCovered ==
  ASSUME NEW B, NEW T, NEW s, NEW owner, NEW metas, NEW S, NEW C \in Seq(S),
         Whole(B, T, s, owner, metas, C),
         NEW m \in 1 .. Len(B), B[m].name \in Reached(C)
  PROVE  s[m] \in PlacesCut(B, T, s, C)
<1>1. PICK x \in Nat, y \in Nat : x = s[m] /\ y = s[m + 1] /\ x <= y /\ y <= Len(T) + 1 /\ 1 <= x
  BY PlacesOf
<1>2. PICK n \in Nat : n = Len(T)
  BY PlacesOf
<1>3. x \in Places(T)
  BY <1>1, <1>2 DEF Places
<1>4. PICK b \in Nat : b = Len(B)
  BY PlacesOf
<1>5. CASE x < y \/ m = b
  <2>1. x \in Span(B, T, s, m)
    BY <1>1, <1>4, <1>5 DEF Span
  <2> QED
    BY <1>1, <1>3, <2>1 DEF PlacesCut
<1>6. CASE ~ (x < y) /\ m # b
  <2>1. x = y /\ m + 1 \in 1 .. b /\ m < b
    BY <1>1, <1>4, <1>6
  <2>2. ~ Ended(T, s[m], s[m + 1])
    BY <1>1, <2>1 DEF Ended
  <2>3. FallsToLabel(B[m], Follow(B, m))
    BY <2>2, EmptyLeadsOn
  <2>4. PICK next : next = B[m + 1].name
    OBVIOUS
  <2>5. Follow(B, m) = {next}
    BY <1>4, <2>1, <2>4 DEF Follow
  <2>6. B[m].children = {next} /\ next[1] = "label"
    BY <2>3, <2>5 DEF FallsToLabel
  <2>7. next \in Reached(C)
    <3>1. ReachedOn(B, metas, C)
      BY ReachesOn
    <3> QED
      BY <1>4, <2>1, <2>4, <2>6, <3>1 DEF ReachedOn
  <2>8. Tells(B[m + 1], T, s[m + 1], s[(m + 1) + 1], Follow(B, m + 1), owner, metas)
    BY <1>4, <2>1, PlacesOf
  <2>9. s[m + 1] < s[(m + 1) + 1]
    BY <2>4, <2>6, <2>8 DEF Tells, Labelled
  <2>10. x \in s[m + 1] .. s[(m + 1) + 1] /\ x < s[(m + 1) + 1]
    <3>1. s[m + 1] \in Nat /\ s[(m + 1) + 1] \in Nat
      BY <1>4, <2>1, PlacesOf
    <3> QED
      BY <1>1, <2>1, <2>9, <3>1
  <2>11. x \in Span(B, T, s, m + 1)
    BY <2>10 DEF Span
  <2> QED
    BY <1>1, <1>3, <1>4, <2>1, <2>4, <2>7, <2>11 DEF PlacesCut
<1> QED
  BY <1>5, <1>6

\* Wherever execution comes, it is in a block that is reached.
LEMMA VisitedCovered ==
  ASSUME NEW B, NEW T, NEW s, NEW owner, NEW metas, NEW S, NEW C \in Seq(S),
         Whole(B, T, s, owner, metas, C)
  PROVE  Visited(T) \subseteq PlacesCut(B, T, s, C)
<1> PICK R : R = Reached(C)
  OBVIOUS
<1> PICK P : P = PlacesCut(B, T, s, C)
  OBVIOUS
<1>1. ReachedOn(B, metas, C)
  BY ReachesOn
<1>2. PICK b \in Nat : b = Len(B) /\ 1 <= b
  BY DEF Whole
<1>3. PICK n \in Nat : n = Len(T) /\ DOMAIN T = 1 .. n
  BY DEF Whole
<1>4. \A m \in 1 .. b : B[m].name \in R => s[m] \in P
  BY <1>2, StartsCovered
<1>5. 1 \in P
  <2>1. 1 \in 1 .. b /\ s[1] = 1
    BY <1>2 DEF Whole, Cut
  <2>2. B[1].name \in R
    BY <1>1 DEF ReachedOn
  <2> QED
    BY <1>4, <2>1, <2>2
<1>6. ASSUME NEW p \in Places(T), p \in P PROVE After(T, p) \subseteq P
  <2>1. p \in 1 .. (n + 1)
    BY <1>3 DEF Places
  <2>2. CASE p = n + 1
    <3>1. After(T, p) = {}
      BY <1>3, <2>2, AfterSays
    <3> QED
      BY <3>1
  <2>3. CASE p # n + 1
    <3>1. p \in 1 .. n /\ p + 1 \in Places(T)
      BY <1>3, <2>1, <2>3 DEF Places
    <3>2. PICK m \in 1 .. b : B[m].name \in R /\ p \in Span(B, T, s, m)
      BY <1>2, <1>6 DEF PlacesCut
    <3>3. PICK x \in Nat, y \in Nat : x = s[m] /\ y = s[m + 1] /\ x <= y /\ y <= n + 1 /\ 1 <= x
                                      /\ (m = b => y = n + 1)
      BY <1>2, <1>3, PlacesOf
    <3>4. x <= p /\ p < y
      <4>1. p \in x .. y /\ (p < y \/ m = b)
        BY <1>2, <3>2, <3>3 DEF Span
      <4> QED
        BY <3>1, <3>3, <4>1
    <3>5. Straight(T, x, y)
      <4>1. Tells(B[m], T, s[m], s[m + 1], Follow(B, m), owner, metas)
        BY <1>2, PlacesOf
      <4> QED
        BY <3>3, <4>1 DEF Tells
    <3>6. CASE p + 1 < y
      <4>1. p \in x .. (y - 1) /\ p # y - 1
        BY <3>1, <3>3, <3>4, <3>6
      <4>2. T[p].op \notin Enders
        BY <3>5, <4>1 DEF Straight
      <4>3. After(T, p) = {p + 1}
        BY <1>3, <1>6, <3>1, <4>2, AfterSays
      <4>4. p + 1 \in Span(B, T, s, m)
        <5>1. p + 1 \in x .. y
          BY <3>1, <3>3, <3>4, <3>6
        <5> QED
          BY <3>3, <3>6, <5>1 DEF Span
      <4>5. p + 1 \in P
        BY <1>2, <3>1, <3>2, <4>4 DEF PlacesCut
      <4> QED
        BY <4>3, <4>5
    <3>7. CASE ~ (p + 1 < y)
      <4>1. p + 1 = s[m + 1] /\ s[m] <= p /\ p \in Nat
        BY <3>1, <3>3, <3>4, <3>7
      <4>2. ASSUME m < b, B[m + 1].name \in R PROVE p + 1 \in P
        <5>1. m + 1 \in 1 .. b
          BY <4>2
        <5> QED
          BY <1>4, <4>1, <4>2, <5>1
      <4>3. CASE T[p].op \notin Enders
        <5>1. After(T, p) = {p + 1}
          BY <1>3, <1>6, <3>1, <4>3, AfterSays
        <5>2. FallsToLabel(B[m], Follow(B, m))
          BY <1>2, <4>1, <4>3, LeadsOn
        <5>3. CASE m = b
          <6>1. p + 1 \in Span(B, T, s, m)
            <7>1. p + 1 \in x .. y
              BY <3>3, <4>1
            <7> QED
              BY <1>2, <3>3, <5>3, <7>1 DEF Span
          <6>2. p + 1 \in P
            BY <1>2, <3>1, <3>2, <6>1 DEF PlacesCut
          <6> QED
            BY <5>1, <6>2
        <5>4. CASE m # b
          <6>1. m < b /\ m + 1 \in 1 .. b
            BY <5>4
          <6>2. Follow(B, m) = {B[m + 1].name}
            BY <1>2, <6>1 DEF Follow
          <6>3. B[m + 1].name \in B[m].children
            BY <5>2, <6>2 DEF FallsToLabel
          <6>4. B[m + 1].name \in R
            BY <1>1, <1>2, <3>2, <6>1, <6>3 DEF ReachedOn
          <6> QED
            BY <4>2, <5>1, <6>1, <6>4
        <5> QED
          BY <5>3, <5>4
      <4>4. CASE T[p].op \in {"return", "abort"}
        <5>1. After(T, p) = {}
          BY <1>3, <1>6, <3>1, <4>4, AfterSays
        <5> QED
          BY <5>1
      <4>5. CASE T[p].op = "call"
        <5>1. After(T, p) = {p + 1}
          BY <1>3, <1>6, <3>1, <4>5, AfterSays
        <5>2. T[p].op \in Enders
          BY <4>5 DEF Enders
        <5>3. m < b /\ CallsBy(B[m], Follow(B, m), owner, metas)
          BY <1>2, <4>1, <4>5, <5>2, LeadsOn
        <5>4. B[m + 1].name \in R
          BY <1>2, <3>2, <5>3, CallLeadsOn
        <5> QED
          BY <4>2, <5>1, <5>3, <5>4
      <4>6. CASE T[p].op \in Jumps
        <5>1. After(T, p) = UNION {At(T, l) : l \in Targets(T[p])}
          BY <1>3, <1>6, <3>1, <4>6, AfterSays
        <5>2. JumpsTo(B[m], T[p], Follow(B, m))
          BY <1>2, <4>1, <4>6, LeadsOn
        <5>3. ASSUME NEW l \in Targets(T[p]), NEW q \in At(T, l) PROVE q \in P
          <6>1. q \in DOMAIN T
            BY DEF At, LabelsOf, Ops
          <6>2. PICK k \in 1 .. b : s[k] <= q /\ q < s[k + 1]
            BY <1>2, <6>1, PieceOf
          <6>3. q = s[k] /\ B[k].name = Label(l)
            BY <1>2, <6>2, LabelBegins
          <6>4. B[k].name \in B[m].children
            BY <5>2, <6>3 DEF JumpsTo
          <6>5. B[k].name \in R
            BY <1>1, <1>2, <3>2, <6>4 DEF ReachedOn
          <6> QED
            BY <1>4, <6>3, <6>5
        <5> QED
          BY <5>1, <5>3
      <4> QED
        BY <4>3, <4>4, <4>5, <4>6 DEF Enders
    <3> QED
      BY <3>6, <3>7
  <2> QED
    BY <2>2, <2>3
<1> QED
  BY <1>3, <1>5, <1>6, VisitedIsLeast

\* Within a piece of the text only the last call may go elsewhere than to the next.
Piece(T, x, y) ==
  /\ x \in Nat /\ y \in Nat /\ 1 <= x /\ x <= y
  /\ Len(T) \in Nat /\ DOMAIN T = 1 .. Len(T) /\ y <= Len(T) + 1
  /\ Straight(T, x, y)

\* The pieces of the blocks are such.
LEMMA PieceIs ==
  ASSUME NEW B, NEW T, NEW s, NEW owner, NEW metas, NEW C, Whole(B, T, s, owner, metas, C),
         NEW m \in 1 .. Len(B)
  PROVE  Piece(T, s[m], s[m + 1])
<1>1. PICK x \in Nat, y \in Nat : x = s[m] /\ y = s[m + 1] /\ x <= y /\ y <= Len(T) + 1 /\ 1 <= x
  BY PlacesOf
<1>2. Len(T) \in Nat /\ DOMAIN T = 1 .. Len(T) /\ Straight(T, x, y)
  BY <1>1, PlacesOf DEF Tells
<1> QED
  BY <1>1, <1>2 DEF Piece

\* A place before the last of its piece goes on at the next.
LEMMA PieceGoesOn ==
  ASSUME NEW T, NEW x, NEW y, Piece(T, x, y), NEW p \in Nat, x <= p, p + 1 < y
  PROVE  After(T, p) = {p + 1} /\ p \in 1 .. Len(T)
<1>1. PICK n \in Nat : n = Len(T) /\ DOMAIN T = 1 .. n
  BY DEF Piece
<1>2. x \in Nat /\ y \in Nat /\ 1 <= x /\ y <= n + 1
  BY <1>1 DEF Piece
<1>3. p \in x .. (y - 1) /\ p # y - 1 /\ p \in 1 .. n /\ p \in 1 .. (n + 1)
  BY <1>2
<1>4. T[p].op \notin Enders
  BY <1>3 DEF Piece, Straight
<1> QED
  BY <1>1, <1>3, <1>4, AfterSays DEF Places

\* A set of places that is closed up to a place of a piece holds that place, if it holds
\* one before.
ClosedAt(T, p, L) == p \in L => After(T, p) \subseteq L

\* Within a piece, a set that goes on from every place short of a call comes to that call.
LEMMA WalksTo ==
  ASSUME NEW T, NEW x, NEW y, Piece(T, x, y), NEW L,
         NEW q \in Nat, NEW j \in Nat, x <= q, q <= j, j < y,
         q \in L, \A p \in q .. (j - 1) : ClosedAt(T, p, L)
  PROVE  j \in L
<1>1. PICK d \in Nat : j = q + d
  <2>1. j - q \in Nat /\ j = q + (j - q)
    OBVIOUS
  <2> QED
    BY <2>1
<1> DEFINE Q == {k \in 0 .. d : q + k \in L}
<1>2. 0 \in Q
  OBVIOUS
<1>3. ASSUME NEW k \in 0 .. (d - 1), k \in Q PROVE k + 1 \in Q
  <2>1. PICK p \in Nat : p = q + k /\ p \in L /\ p + 1 = q + (k + 1)
    BY <1>3
  <2>2. p \in q .. (j - 1) /\ k + 1 \in 0 .. d
    BY <1>1, <2>1
  <2>3. x \in Nat /\ y \in Nat
    BY DEF Piece
  <2>4. x <= p /\ p + 1 < y
    BY <2>2, <2>3
  <2>5. After(T, p) = {p + 1}
    BY <2>4, PieceGoesOn
  <2>6. p + 1 \in L
    BY <2>1, <2>2, <2>5 DEF ClosedAt
  <2> QED
    BY <2>1, <2>2, <2>6
<1> HIDE DEF Q
<1>4. d \in Q
  <2>1. 0 .. d \subseteq Q
    BY <1>2, <1>3, UpFromNothing, Zenon
  <2>2. d \in 0 .. d
    OBVIOUS
  <2> QED
    BY <2>1, <2>2
<1> QED
  BY <1>1, <1>4 DEF Q

\* The names whose blocks, also by way of a metablock, begin at places of L.
Begun(B, s, metas, C, L) ==
  {name \in NamesIn(C) :
     /\ \A m \in 1 .. Len(B) : B[m].name = name => s[m] \in L
     /\ \A i \in DOMAIN metas, m \in 1 .. Len(B) :
          metas[i].name = name /\ metas[i].nextBlock = B[m].name => s[m] \in L}

\* Names of blocks and of metablocks are not confused.
LEMMA BegunAre ==
  ASSUME NEW B, NEW T, NEW s, NEW owner, NEW metas, NEW C, Whole(B, T, s, owner, metas, C),
         NEW L, NEW c \in NamesIn(C)
  PROVE  /\ c[1] # "meta" /\ (\A m \in 1 .. Len(B) : B[m].name = c => s[m] \in L)
              => c \in Begun(B, s, metas, C, L)
         /\ \A i \in DOMAIN metas :
              c = metas[i].name /\ (\A m \in 1 .. Len(B) : metas[i].nextBlock = B[m].name => s[m] \in L)
              => c \in Begun(B, s, metas, C, L)
<1>1. PICK b \in Nat : b = Len(B) /\ 1 <= b
  BY DEF Whole
<1>2. /\ Len(metas) \in Nat /\ DOMAIN metas = 1 .. Len(metas)
      /\ \A i \in DOMAIN metas : metas[i].name = <<"meta", i - 1>>
  BY DEF Whole, MetasNamed
<1>3. \A i \in DOMAIN metas : metas[i].name[1] = "meta"
  BY <1>2
<1>4. ASSUME NEW m \in 1 .. b PROVE B[m].name[1] \in {"label", "block"}
  <2>1. Tells(B[m], T, s[m], s[m + 1], Follow(B, m), owner, metas)
    BY <1>1, PlacesOf
  <2> QED
    BY <2>1 DEF Tells, Labelled
<1>5. ASSUME c[1] # "meta", \A m \in 1 .. b : B[m].name = c => s[m] \in L
      PROVE  c \in Begun(B, s, metas, C, L)
  BY <1>1, <1>3, <1>5 DEF Begun
<1>6. ASSUME NEW i \in DOMAIN metas, c = metas[i].name,
             \A m \in 1 .. b : metas[i].nextBlock = B[m].name => s[m] \in L
      PROVE  c \in Begun(B, s, metas, C, L)
  <2>1. \A k \in 1 .. b : B[k].name # c
    BY <1>3, <1>4, <1>6
  <2>2. ASSUME NEW j \in DOMAIN metas, metas[j].name = c PROVE j = i
    <3>1. i - 1 = j - 1 /\ i \in Int /\ j \in Int
      BY <1>2, <1>6, <2>2
    <3> QED
      BY <3>1
  <2> QED
    BY <1>1, <1>6, <2>1, <2>2 DEF Begun
<1> QED
  BY <1>1, <1>5, <1>6

\* If execution goes on in L behind a call of a block, and L is closed for the calls of the
\* block behind that one, then the children of the block begin in L.
LEMMA LeavesBegun ==
  ASSUME NEW B, NEW T, NEW s, NEW owner, NEW metas, NEW C, Whole(B, T, s, owner, metas, C),
         NEW m \in 1 .. Len(B), NEW L, NEW i \in Nat, s[m] <= i, i < s[m + 1], After(T, i) \subseteq L,
         \A p \in (i + 1) .. (s[m + 1] - 1) : ClosedAt(T, p, L)
  PROVE  B[m].children \cap NamesIn(C) \subseteq Begun(B, s, metas, C, L)
<1>1. PICK b \in Nat : b = Len(B) /\ 1 <= b
  BY DEF Whole
<1>2. PICK n \in Nat : n = Len(T) /\ DOMAIN T = 1 .. n
  BY DEF Whole
<1>3. PICK x \in Nat, y \in Nat : x = s[m] /\ y = s[m + 1] /\ x <= y /\ y <= n + 1 /\ 1 <= x
  BY <1>2, PlacesOf
<1>4. Piece(T, x, y)
  BY <1>3, PieceIs
<1>5. PICK p \in Nat : p + 1 = y /\ x <= p /\ i <= p /\ p <= n /\ p \in 1 .. (n + 1) /\ p = y - 1
  <2>1. y - 1 \in Nat /\ (y - 1) + 1 = y /\ x <= y - 1 /\ i <= y - 1
    BY <1>3
  <2>2. y - 1 <= n /\ y - 1 \in 1 .. (n + 1)
    BY <1>3, <2>1
  <2> QED
    BY <2>1, <2>2
<1>6. After(T, p) \subseteq L
  <2>1. CASE i = p
    BY <2>1
  <2>2. CASE i # p
    <3>1. i + 1 <= p /\ i + 1 < y /\ x <= i + 1 /\ i + 1 \in Nat /\ p < y
      BY <1>3, <1>5, <2>2
    <3>2. i + 1 \in L
      BY <1>3, <1>4, <3>1, PieceGoesOn
    <3>3. \A k \in (i + 1) .. (p - 1) : ClosedAt(T, k, L)
      <4>1. \A k \in (i + 1) .. (p - 1) : k \in (i + 1) .. (y - 1)
        BY <1>5
      <4> QED
        BY <1>3, <4>1
    <3>4. p \in L
      BY <1>4, <3>1, <3>2, <3>3, WalksTo
    <3>5. p \in (i + 1) .. (y - 1)
      BY <1>5, <3>1
    <3> QED
      BY <1>3, <3>4, <3>5 DEF ClosedAt
  <2> QED
    BY <2>1, <2>2
<1>7. p + 1 = s[m + 1] /\ s[m] <= p /\ p \in Places(T)
  BY <1>2, <1>3, <1>5 DEF Places
<1>8. \A j, k \in 1 .. b : B[j].name = B[k].name => j = k
  BY <1>1 DEF Whole, Cut
<1>9. SUFFICES ASSUME NEW c \in B[m].children \cap NamesIn(C) PROVE c \in Begun(B, s, metas, C, L)
  OBVIOUS
<1>10. CASE T[p].op \notin Enders
  <2>1. FallsToLabel(B[m], Follow(B, m))
    BY <1>7, <1>10, LeadsOn
  <2>2. c \in Follow(B, m) /\ c[1] = "label"
    BY <2>1 DEF FallsToLabel
  <2>3. m < b /\ c = B[m + 1].name /\ m + 1 \in 1 .. b
    BY <1>1, <2>2 DEF Follow
  <2>4. After(T, p) = {p + 1}
    BY <1>2, <1>5, <1>7, <1>10, AfterSays
  <2>5. \A k \in 1 .. b : B[k].name = c => s[k] \in L
    BY <1>6, <1>7, <1>8, <2>3, <2>4
  <2>6. c[1] # "meta"
    BY <2>2
  <2> QED
    BY <1>1, <2>5, <2>6, BegunAre
<1>11. CASE T[p].op \in {"return", "abort"}
  <2>1. B[m].children = {}
    BY <1>7, <1>11, LeadsOn
  <2> QED
    BY <2>1
<1>12. CASE T[p].op = "call"
  <2>1. T[p].op \in Enders
    BY <1>12 DEF Enders
  <2>2. m < b /\ CallsBy(B[m], Follow(B, m), owner, metas)
    BY <1>1, <1>7, <1>12, <2>1, LeadsOn
  <2>3. PICK j \in DOMAIN metas : B[m].children = {metas[j].name} /\ Follow(B, m) = {metas[j].nextBlock}
    BY <2>2 DEF CallsBy
  <2>4. c = metas[j].name
    BY <2>3
  <2>5. m + 1 \in 1 .. b /\ metas[j].nextBlock = B[m + 1].name
    <3>1. Follow(B, m) = {B[m + 1].name} /\ m + 1 \in 1 .. b
      BY <1>1, <2>2 DEF Follow
    <3> QED
      BY <2>3, <3>1
  <2>6. After(T, p) = {p + 1}
    BY <1>2, <1>5, <1>7, <1>12, AfterSays
  <2>7. \A k \in 1 .. b : metas[j].nextBlock = B[k].name => s[k] \in L
    BY <1>6, <1>7, <1>8, <2>5, <2>6
  <2> QED
    BY <1>1, <2>4, <2>7, BegunAre
<1>13. CASE T[p].op \in Jumps
  <2>1. After(T, p) = UNION {At(T, l) : l \in Targets(T[p])}
    BY <1>2, <1>5, <1>7, <1>13, AfterSays
  <2>2. JumpsTo(B[m], T[p], Follow(B, m))
    BY <1>7, <1>13, LeadsOn
  <2>3. PICK l \in Targets(T[p]) : c = Label(l)
    BY <2>2 DEF JumpsTo
  <2>4. c[1] # "meta"
    BY <2>3 DEF Label
  <2>5. ASSUME NEW k \in 1 .. b, B[k].name = c PROVE s[k] \in L
    <3>1. s[k] \in At(T, l)
      BY <1>1, <2>3, <2>5, LabelBegins
    <3> QED
      BY <1>6, <2>1, <3>1
  <2> QED
    BY <1>1, <2>4, <2>5, BegunAre
<1> QED
  BY <1>10, <1>11, <1>12, <1>13 DEF Enders

\* If a block begins in L, and L is closed for its calls, its children begin in L.
LEMMA ChildrenBegun ==
  ASSUME NEW B, NEW T, NEW s, NEW owner, NEW metas, NEW C, Whole(B, T, s, owner, metas, C),
         NEW m \in 1 .. Len(B), NEW L, s[m] \in L,
         \A p \in s[m] .. (s[m + 1] - 1) : ClosedAt(T, p, L)
  PROVE  B[m].children \cap NamesIn(C) \subseteq Begun(B, s, metas, C, L)
<1>1. PICK b \in Nat : b = Len(B) /\ 1 <= b
  BY DEF Whole
<1>2. PICK x \in Nat, y \in Nat : x = s[m] /\ y = s[m + 1] /\ x <= y /\ 1 <= x
  BY PlacesOf
<1>3. CASE x < y
  <2>1. x \in x .. (y - 1) /\ \A p \in (x + 1) .. (y - 1) : p \in x .. (y - 1)
    BY <1>3
  <2>2. After(T, x) \subseteq L /\ \A p \in (x + 1) .. (y - 1) : ClosedAt(T, p, L)
    BY <1>2, <2>1 DEF ClosedAt
  <2>3. s[m] <= x /\ x < s[m + 1] /\ \A p \in (x + 1) .. (s[m + 1] - 1) : ClosedAt(T, p, L)
    BY <1>2, <1>3, <2>2
  <2> QED
    BY <2>2, <2>3, LeavesBegun
<1>4. CASE ~ (x < y)
  <2>1. x = y /\ ~ Ended(T, s[m], s[m + 1])
    BY <1>2, <1>4 DEF Ended
  <2>2. FallsToLabel(B[m], Follow(B, m))
    BY <2>1, EmptyLeadsOn
  <2>3. ASSUME NEW c \in B[m].children \cap NamesIn(C) PROVE c \in Begun(B, s, metas, C, L)
    <3>1. c \in Follow(B, m) /\ c[1] = "label"
      BY <2>2 DEF FallsToLabel
    <3>2. m < b /\ c = B[m + 1].name /\ m + 1 \in 1 .. b
      BY <1>1, <3>1 DEF Follow
    <3>3. \A j, k \in 1 .. b : B[j].name = B[k].name => j = k
      BY <1>1 DEF Whole, Cut
    <3>4. \A k \in 1 .. b : B[k].name = c => s[k] \in L
      BY <1>2, <2>1, <3>2, <3>3
    <3>5. c[1] # "meta"
      BY <3>1
    <3> QED
      BY <1>1, <3>4, <3>5, BegunAre
  <2> QED
    BY <2>3
<1> QED
  BY <1>3, <1>4

\* With a metablock the block behind the call begins in L.
LEMMA MetasBegun ==
  ASSUME NEW B, NEW T, NEW s, NEW owner, NEW metas, NEW C, Whole(B, T, s, owner, metas, C),
         NEW L, NEW k \in 1 .. Len(C), k > Len(B), C[k].name \in Begun(B, s, metas, C, L)
  PROVE  C[k].children \cap NamesIn(C) \subseteq Begun(B, s, metas, C, L)
<1>1. PICK b \in Nat : b = Len(B) /\ 1 <= b
  BY DEF Whole
<1>2. PICK i \in DOMAIN metas : C[k] = Built(metas[i])
  BY DEF Whole, Completes
<1>3. C[k].name = metas[i].name /\ C[k].children = {metas[i].nextBlock}
  BY <1>2 DEF Built, LeadingTo, NewBlock
<1>4. metas[i].nextBlock[1] # "meta"
  <2>1. metas[i].nextBlock[1] = "block"
    BY DEF Whole, MetasNamed
  <2> QED
    BY <2>1
<1>5. \A m \in 1 .. b : B[m].name = metas[i].nextBlock => s[m] \in L
  BY <1>1, <1>3 DEF Begun
<1> QED
  BY <1>1, <1>3, <1>4, <1>5, BegunAre

\* A block that is reached begins where execution comes.
LEMMA ReachedBegun ==
  ASSUME NEW B, NEW T, NEW s, NEW owner, NEW metas, NEW S, NEW C \in Seq(S),
         Whole(B, T, s, owner, metas, C)
  PROVE  Reached(C) \subseteq Begun(B, s, metas, C, Visited(T))
<1> PICK V : V = Visited(T)
  OBVIOUS
<1> PICK P : P = Begun(B, s, metas, C, V)
  OBVIOUS
<1>1. PICK b \in Nat : b = Len(B) /\ 1 <= b
  BY DEF Whole
<1>2. 1 \in V /\ \A p : ClosedAt(T, p, V)
  <2>1. Len(T) \in Nat /\ DOMAIN T = 1 .. Len(T)
    BY DEF Whole
  <2> QED
    BY <2>1, VisitedIsLeast DEF ClosedAt
<1>3. PICK c \in Nat : c = Len(C) /\ DOMAIN C = 1 .. c /\ b <= c /\ \A m \in 1 .. b : C[m] = B[m]
  BY <1>1 DEF Whole, Completes
<1>4. C[1].name \in P
  <2>1. 1 \in 1 .. b /\ s[1] = 1 /\ C[1] = B[1] /\ 1 \in DOMAIN C
    BY <1>1, <1>3 DEF Whole, Cut
  <2>2. C[1].name \in NamesIn(C)
    BY <2>1 DEF NamesIn, ToSet
  <2>3. C[1].name[1] # "meta"
    <3>1. Tells(B[1], T, s[1], s[1 + 1], Follow(B, 1), owner, metas)
      BY <1>1, <2>1, PlacesOf
    <3> QED
      BY <2>1, <3>1 DEF Tells, Labelled
  <2>4. \A m \in 1 .. b : B[m].name = C[1].name => s[m] \in V
    <3>1. \A m \in 1 .. b : B[m].name = B[1].name => m = 1
      BY <1>1, <2>1 DEF Whole, Cut
    <3> QED
      BY <1>2, <2>1, <3>1
  <2> QED
    BY <1>1, <2>2, <2>3, <2>4, BegunAre
<1>5. ASSUME NEW k \in DOMAIN C, C[k].name \in P PROVE C[k].children \cap NamesIn(C) \subseteq P
  <2>1. CASE k > b
    BY <1>1, <1>3, <1>5, <2>1, MetasBegun
  <2>2. CASE ~ (k > b)
    <3>1. k \in 1 .. b /\ C[k] = B[k]
      BY <1>3, <2>2
    <3>2. s[k] \in V
      BY <1>1, <1>5, <3>1 DEF Begun
    <3> QED
      BY <1>1, <1>2, <3>1, <3>2, ChildrenBegun
  <2> QED
    BY <2>1, <2>2
<1>6. C # <<>>
  BY <1>1, <1>3
<1> QED
  BY <1>4, <1>5, <1>6, ReachedIsLeast

\* The first check of the flow finds what runs off the end of the text.
LEMMA RunsOffTheEnd ==
  ASSUME NEW B, NEW T, NEW s, NEW owner, NEW metas, NEW S, NEW C \in Seq(S),
         Whole(B, T, s, owner, metas, C)
  PROVE  EndsWithoutReturn(C) <=> (Len(T) + 1) \in Visited(T)
<1>1. PICK b \in Nat : b = Len(B) /\ 1 <= b
  BY DEF Whole
<1>2. PICK n \in Nat : n = Len(T) /\ DOMAIN T = 1 .. n
  BY DEF Whole
<1>3. DOMAIN C = 1 .. Len(C) /\ Len(C) \in Nat /\ b <= Len(C) /\ \A m \in 1 .. b : C[m] = B[m]
  BY <1>1 DEF Whole, Completes
<1>4. b \in 1 .. b /\ s[b + 1] = n + 1
  BY <1>1, <1>2 DEF Whole, Cut
<1>5. ASSUME NEW k \in DOMAIN C, C[k].name \in Reached(C), C[k].children = {}, ~ C[k].returns
      PROVE  n + 1 \in Visited(T)
  <2>1. k <= b
    <3>1. SUFFICES ASSUME k > b PROVE FALSE
      BY <1>1, <1>3
    <3>2. PICK i \in DOMAIN metas : C[k] = Built(metas[i])
      BY <1>1, <1>3, <3>1 DEF Whole, Completes
    <3>3. C[k].children = {metas[i].nextBlock}
      BY <3>2 DEF Built, LeadingTo, NewBlock
    <3> QED
      BY <1>5, <3>3
  <2>2. k \in 1 .. b /\ C[k] = B[k]
    BY <1>1, <1>3, <2>1
  <2>3. s[k] \in Visited(T)
    BY <1>1, <1>5, <2>2, ReachedBegun DEF Begun
  <2>4. PICK x \in Nat, y \in Nat : x = s[k] /\ y = s[k + 1] /\ x <= y /\ y <= n + 1 /\ 1 <= x
    BY <1>1, <1>2, <2>2, PlacesOf
  <2>5. ~ Ended(T, x, y)
    <3>1. SUFFICES ASSUME Ended(T, x, y) PROVE FALSE
      OBVIOUS
    <3>2. x < y /\ T[y - 1].op \in Enders
      BY <3>1 DEF Ended
    <3>3. PICK p \in Nat : p + 1 = y /\ x <= p /\ p = y - 1
      <4>1. y - 1 \in Nat /\ (y - 1) + 1 = y /\ x <= y - 1
        BY <2>4, <3>2
      <4> QED
        BY <4>1
    <3>4. p + 1 = s[k + 1] /\ s[k] <= p
      BY <2>4, <3>3
    <3>5. T[p].op \in Jumps \/ T[p].op \in {"return", "abort"} \/ T[p].op = "call"
      BY <3>2, <3>3 DEF Enders
    <3>6. T[p].op \notin {"return", "abort"}
      <4>1. T[p].op \in {"return", "abort"} => B[k].returns
        BY <1>1, <2>2, <3>4, LeadsOn
      <4> QED
        BY <1>5, <2>2, <4>1
    <3>7. T[p].op # "call"
      <4>1. T[p].op = "call" => CallsBy(B[k], Follow(B, k), owner, metas)
        BY <1>1, <2>2, <3>4, LeadsOn
      <4> QED
        BY <1>5, <2>2, <4>1 DEF CallsBy
    <3>8. T[p].op \notin Jumps
      <4>1. T[p].op \in Jumps => JumpsTo(B[k], T[p], Follow(B, k))
        BY <1>1, <2>2, <3>4, LeadsOn
      <4>2. T[p].to[1] \in Targets(T[p])
        BY DEF Targets
      <4> QED
        BY <1>5, <2>2, <4>1, <4>2 DEF JumpsTo
    <3> QED
      BY <3>5, <3>6, <3>7, <3>8
  <2>6. FallsToLabel(B[k], Follow(B, k))
    BY <1>1, <2>2, <2>4, <2>5, EmptyLeadsOn
  <2>7. k = b
    <3>1. Follow(B, k) = {}
      BY <1>5, <2>2, <2>6 DEF FallsToLabel
    <3>2. SUFFICES ASSUME k < b PROVE FALSE
      BY <2>2
    <3>3. Follow(B, k) = {B[k + 1].name}
      BY <1>1, <3>2 DEF Follow
    <3> QED
      BY <3>1, <3>3
  <2>8. n + 1 \in Span(B, T, s, k)
    <3>1. y = n + 1
      BY <1>4, <2>4, <2>7
    <3>2. n + 1 \in x .. y
      BY <2>4, <3>1
    <3> QED
      BY <1>1, <2>4, <2>7, <3>2 DEF Span
  <2> QED
    BY <1>1, <2>2, <2>3, <2>8, StraightOn
<1>6. ASSUME n + 1 \in Visited(T)
      PROVE  \E k \in DOMAIN C : C[k].name \in Reached(C) /\ C[k].children = {} /\ ~ C[k].returns
  <2>1. PICK m \in 1 .. b : B[m].name \in Reached(C) /\ n + 1 \in Span(B, T, s, m)
    BY <1>1, <1>6, VisitedCovered DEF PlacesCut
  <2>2. PICK x \in Nat, y \in Nat : x = s[m] /\ y = s[m + 1] /\ x <= y /\ y <= n + 1 /\ 1 <= x
    BY <1>1, <1>2, PlacesOf
  <2>3. m = b
    <3>1. n + 1 < y \/ m = b
      BY <1>1, <2>1, <2>2 DEF Span
    <3>2. ~ (n + 1 < y)
      BY <2>2
    <3> QED
      BY <3>1, <3>2
  <2>4. ~ Ended(T, s[m], s[m + 1])
    BY <1>1, <2>3, PlacesOf
  <2>5. FallsToLabel(B[m], Follow(B, m))
    BY <1>1, <2>4, EmptyLeadsOn
  <2>6. Follow(B, m) = {}
    BY <1>1, <2>3 DEF Follow
  <2>7. m \in DOMAIN C /\ C[m] = B[m]
    BY <1>3
  <2> QED
    BY <2>1, <2>5, <2>6, <2>7 DEF FallsToLabel
<1>7. ToSet(C) = {C[k] : k \in DOMAIN C}
  BY DEF ToSet
<1> QED
  BY <1>2, <1>5, <1>6, <1>7 DEF EndsWithoutReturn

\* A label is defined just if the text has it.
LEMMA LabelsFound ==
  ASSUME NEW B, NEW T, NEW s, NEW owner, NEW metas, NEW C, NEW S, B \in Seq(S),
         Whole(B, T, s, owner, metas, C), NEW l
  PROVE  Label(l) \in NamesIn(B) <=> At(T, l) # {}
<1>1. NamesIn(B) = {B[m].name : m \in 1 .. Len(B)}
  <2>1. DOMAIN B = 1 .. Len(B)
    OBVIOUS
  <2> QED
    BY <2>1 DEF NamesIn, ToSet
<1>2. ASSUME NEW m \in 1 .. Len(B), B[m].name = Label(l) PROVE At(T, l) # {}
  <2>1. s[m] \in At(T, l)
    BY <1>2, LabelBegins
  <2> QED
    BY <2>1
<1>3. ASSUME NEW q \in At(T, l) PROVE Label(l) \in NamesIn(B)
  <2>1. q \in DOMAIN T
    BY DEF At, LabelsOf, Ops
  <2>2. PICK k \in 1 .. Len(B) : s[k] <= q /\ q < s[k + 1]
    BY <2>1, PieceOf
  <2>3. B[k].name = Label(l)
    BY <2>2, LabelBegins
  <2> QED
    BY <1>1, <2>3
<1> QED
  BY <1>1, <1>2, <1>3

\* The second check of the flow finds the labels that are dead and not marked.
LEMMA FindsDeadLabels ==
  ASSUME NEW B, NEW T, NEW s, NEW owner, NEW metas, NEW S, NEW C \in Seq(S),
         Whole(B, T, s, owner, metas, C)
  PROVE  HasDeadLabel(C) <=> \E i \in DeadLabels(T) : \A j \in DOMAIN T : ~ MarkedBy(T, i, j)
<1>1. PICK b \in Nat : b = Len(B) /\ 1 <= b
  BY DEF Whole
<1>2. PICK n \in Nat : n = Len(T) /\ DOMAIN T = 1 .. n
  BY DEF Whole
<1>3. DOMAIN C = 1 .. Len(C) /\ Len(C) \in Nat /\ b <= Len(C) /\ \A m \in 1 .. b : C[m] = B[m]
  BY <1>1 DEF Whole, Completes
<1>4. ToSet(C) = {C[k] : k \in DOMAIN C}
  BY DEF ToSet
<1>5. ASSUME NEW k \in DOMAIN C, C[k].name[1] = "label" PROVE k \in 1 .. b /\ C[k] = B[k]
  <2>1. SUFFICES ASSUME k > b PROVE FALSE
    BY <1>1, <1>3
  <2>2. PICK i \in DOMAIN metas : C[k] = Built(metas[i])
    BY <1>1, <1>3, <2>1 DEF Whole, Completes
  <2>3. C[k].name = metas[i].name
    BY <2>2 DEF Built, LeadingTo, NewBlock
  <2>4. metas[i].name[1] = "meta"
    BY DEF Whole, MetasNamed
  <2> QED
    BY <1>5, <2>3, <2>4
<1>6. ASSUME NEW k \in 1 .. b, B[k].name[1] = "label"
      PROVE  \E l : B[k].name = Label(l) /\ s[k] \in At(T, l)
  <2>1. Labelled(B[k], T, s[k], s[k + 1])
    BY <1>1, PlacesOf DEF Tells
  <2>2. s[k] \in Nat /\ s[k + 1] \in Nat /\ s[k] < s[k + 1] /\ T[s[k]].op = "label"
    <3>1. s[k] \in Nat /\ s[k + 1] \in Nat
      BY <1>1, PlacesOf
    <3> QED
      BY <1>6, <2>1, <3>1 DEF Labelled
  <2>3. s[k] \in s[k] .. (s[k + 1] - 1)
    BY <2>2
  <2>4. B[k].name = Label(B[k].name[2])
    BY <2>1, <2>2, <2>3 DEF Labelled
  <2>5. s[k] \in At(T, B[k].name[2])
    BY <1>1, <2>4, LabelBegins
  <2> QED
    BY <2>4, <2>5
<1>7. ASSUME NEW k \in 1 .. b, B[k].name[1] = "label"
      PROVE  /\ s[k] \in LabelsOf(T)
             /\ B[k].name \in Reached(C) <=> s[k] \in Visited(T)
  <2>1. PICK l : B[k].name = Label(l) /\ s[k] \in At(T, l)
    BY <1>6, <1>7
  <2>2. s[k] \in LabelsOf(T)
    BY <2>1 DEF At
  <2>3. ASSUME B[k].name \in Reached(C) PROVE s[k] \in Visited(T)
    BY <1>1, <2>3, ReachedBegun DEF Begun
  <2>4. ASSUME s[k] \in Visited(T) PROVE B[k].name \in Reached(C)
    <3>1. PICK m \in 1 .. b : B[m].name \in Reached(C) /\ s[k] \in Span(B, T, s, m)
      BY <1>1, <2>4, VisitedCovered DEF PlacesCut
    <3>2. s[k] \in 1 .. n
      BY <1>2, <2>2 DEF LabelsOf, Ops
    <3>3. PICK x \in Nat, y \in Nat : x = s[m] /\ y = s[m + 1] /\ x <= y /\ y <= n + 1 /\ (m = b => y = n + 1)
      <4>1. /\ s[m] \in 1 .. (n + 1) /\ s[m + 1] \in 1 .. (n + 1) /\ s[m] <= s[m + 1]
            /\ m = b => s[m + 1] = n + 1
        BY <1>1, <1>2, PlacesOf
      <4>2. s[m] \in Nat /\ s[m + 1] \in Nat /\ s[m + 1] <= n + 1
        BY <4>1
      <4> QED
        BY <4>1, <4>2
    <3>4. s[m] <= s[k] /\ s[k] < s[m + 1]
      BY <1>1, <3>1, <3>2, <3>3 DEF Span
    <3>5. B[m].name = Label(l)
      BY <1>1, <2>1, <3>4, LabelBegins
    <3> QED
      BY <2>1, <3>1, <3>5
  <2> QED
    BY <2>2, <2>3, <2>4
<1>8. ASSUME NEW k \in 1 .. b
      PROVE  LET x == s[k] y == s[k + 1] IN
             /\ x \in Nat /\ y \in Nat /\ 1 <= x /\ x <= y /\ y <= n + 1
             /\ B[k].reachable <=> \A p \in x .. (y - 1) : T[p].op # "unreachable"
  <2>1. MarksOf(B[k], T, s[k], s[k + 1])
    BY <1>1, PlacesOf DEF Tells
  <2>2. s[k] \in Nat /\ s[k + 1] \in Nat /\ 1 <= s[k] /\ s[k] <= s[k + 1] /\ s[k + 1] <= n + 1
    BY <1>1, <1>2, PlacesOf
  <2> QED
    BY <2>1, <2>2 DEF MarksOf
\* A block that is not marked: no mark before the next label, call, return or abort.
<1>9. ASSUME NEW k \in 1 .. b, B[k].name[1] = "label", B[k].reachable, NEW j \in DOMAIN T,
             MarkedBy(T, s[k], j)
      PROVE  FALSE
  <2>1. PICK x \in Nat, y \in Nat : x = s[k] /\ y = s[k + 1] /\ 1 <= x /\ x <= y /\ y <= n + 1
    BY <1>8
  <2>2. /\ j \in 1 .. n /\ T[j].op = "unreachable" /\ x < j
        /\ \A q \in (x + 1) .. j : q \notin Ops(T, {"label", "call", "return", "abort"})
    BY <1>2, <1>9, <2>1 DEF MarkedBy, Ops
  <2>3. ~ (j < y)
    <3>1. j < y => j \in x .. (y - 1)
      BY <2>1, <2>2
    <3> QED
      BY <1>8, <1>9, <2>1, <2>2, <3>1
  <2>4. x < y /\ T[x].op = "label"
    <3>1. Labelled(B[k], T, x, y)
      BY <1>1, <2>1, PlacesOf DEF Tells
    <3> QED
      BY <1>9, <3>1 DEF Labelled
  <2>5. PICK p \in Nat : p + 1 = y /\ x <= p /\ p \in 1 .. n /\ p < j /\ p + 1 \in 1 .. n
    <3>1. y - 1 \in Nat /\ (y - 1) + 1 = y /\ x <= y - 1 /\ y - 1 \in 1 .. n /\ y - 1 < j /\ y \in 1 .. n
      BY <2>1, <2>2, <2>3, <2>4
    <3> QED
      BY <3>1
  <2>6. k < b
    <3>1. k = b => y = n + 1
      BY <1>1, <1>2, <2>1, PlacesOf
    <3> QED
      BY <2>5, <3>1
  <2>7. p + 1 = s[k + 1] /\ s[k] <= p
    BY <2>1, <2>5
  <2>8. T[p].op \notin {"call", "return", "abort"}
    <3>1. CASE p = x
      BY <2>4, <3>1
    <3>2. CASE p # x
      <4>1. p \in (x + 1) .. j
        BY <2>2, <2>5, <3>2
      <4> QED
        BY <1>2, <2>2, <2>5, <4>1 DEF Ops
    <3> QED
      BY <3>1, <3>2
  <2>9. \A f \in Follow(B, k) : f[1] = "label"
    <3>1. CASE T[p].op \in Jumps
      <4>1. JumpsTo(B[k], T[p], Follow(B, k))
        BY <1>1, <2>7, <3>1, LeadsOn
      <4> QED
        BY <4>1 DEF JumpsTo
    <3>2. CASE T[p].op \notin Jumps
      <4>1. T[p].op \notin Enders
        BY <2>8, <3>2 DEF Enders
      <4>2. FallsToLabel(B[k], Follow(B, k))
        BY <1>1, <2>7, <4>1, LeadsOn
      <4> QED
        BY <4>2 DEF FallsToLabel
    <3> QED
      BY <3>1, <3>2
  <2>10. k + 1 \in 1 .. b /\ B[k + 1].name[1] = "label"
    <3>1. Follow(B, k) = {B[k + 1].name}
      BY <1>1, <2>6 DEF Follow
    <3> QED
      BY <2>6, <2>9, <3>1
  <2>11. s[k + 1] \in LabelsOf(T)
    BY <1>7, <2>10
  <2>12. y \in (x + 1) .. j /\ y \in DOMAIN T /\ T[y].op = "label"
    <3>1. y \in (x + 1) .. j
      BY <2>1, <2>2, <2>3, <2>4
    <3> QED
      BY <2>1, <2>11, <3>1 DEF LabelsOf, Ops
  <2> QED
    BY <2>2, <2>12 DEF Ops
\* A block that is marked: the mark is behind its label.
<1>10. ASSUME NEW k \in 1 .. b, B[k].name[1] = "label", ~ B[k].reachable
       PROVE  \E j \in DOMAIN T : MarkedBy(T, s[k], j)
  <2>1. PICK x \in Nat, y \in Nat : x = s[k] /\ y = s[k + 1] /\ 1 <= x /\ x <= y /\ y <= n + 1
    BY <1>8
  <2>2. PICK j \in x .. (y - 1) : T[j].op = "unreachable"
    BY <1>8, <1>10, <2>1
  <2>3. Labelled(B[k], T, x, y) /\ Straight(T, x, y)
    BY <1>1, <2>1, PlacesOf DEF Tells
  <2>4. T[x].op = "label"
    BY <1>10, <2>3 DEF Labelled
  <2>5. x < j /\ j \in DOMAIN T /\ j \in Nat /\ j < y
    <3>1. j # x
      BY <2>2, <2>4
    <3> QED
      BY <1>2, <2>1, <2>2, <3>1
  <2>6. ASSUME NEW q \in (x + 1) .. j, T[q].op \in {"label", "call", "return", "abort"} PROVE FALSE
    <3>1. q \in x .. (y - 1) /\ q # x /\ q \in Nat
      BY <2>1, <2>5
    <3>2. T[q].op # "label"
      BY <2>3, <3>1 DEF Labelled
    <3>3. q # j
      BY <2>2, <2>6
    <3>4. q # y - 1
      BY <2>1, <2>5, <3>1, <3>3
    <3>5. T[q].op \notin Enders
      BY <2>3, <3>1, <3>4 DEF Straight
    <3> QED
      BY <2>6, <3>2, <3>5 DEF Enders
  <2> QED
    BY <1>2, <2>1, <2>2, <2>5, <2>6 DEF MarkedBy, Ops
<1>11. ASSUME NEW k \in DOMAIN C, C[k].name[1] = "label", C[k].name \notin Reached(C), C[k].reachable
       PROVE  \E i \in DeadLabels(T) : \A j \in DOMAIN T : ~ MarkedBy(T, i, j)
  <2>1. k \in 1 .. b /\ C[k] = B[k]
    BY <1>5, <1>11
  <2>2. s[k] \in DeadLabels(T)
    BY <1>7, <1>11, <2>1 DEF DeadLabels
  <2> QED
    BY <1>9, <1>11, <2>1, <2>2
<1>12. ASSUME NEW i \in DeadLabels(T), \A j \in DOMAIN T : ~ MarkedBy(T, i, j)
       PROVE  \E k \in DOMAIN C : C[k].name[1] = "label" /\ C[k].name \notin Reached(C) /\ C[k].reachable
  <2>1. i \in DOMAIN T /\ T[i].op = "label" /\ i \notin Visited(T)
    BY DEF DeadLabels, LabelsOf, Ops
  <2>2. PICK k \in 1 .. b : s[k] <= i /\ i < s[k + 1] /\ i \in s[k] .. (s[k + 1] - 1)
    BY <1>1, <2>1, PieceOf
  <2>3. i = s[k] /\ B[k].name = Label(B[k].name[2])
    <3>1. Labelled(B[k], T, s[k], s[k + 1])
      BY <1>1, PlacesOf DEF Tells
    <3> QED
      BY <2>1, <2>2, <3>1 DEF Labelled
  <2>4. B[k].name[1] = "label"
    BY <2>3 DEF Label
  <2>5. B[k].name \notin Reached(C)
    BY <1>7, <2>1, <2>3, <2>4
  <2>6. B[k].reachable
    BY <1>10, <1>12, <2>3, <2>4
  <2>7. k \in DOMAIN C /\ C[k] = B[k]
    BY <1>3
  <2> QED
    BY <2>4, <2>5, <2>6, <2>7
<1>13. HasDeadLabel(C) <=> \E k \in DOMAIN C : C[k].name[1] = "label" /\ C[k].name \notin Reached(C) /\ C[k].reachable
  BY <1>4 DEF HasDeadLabel
<1> QED
  BY <1>11, <1>12, <1>13

\* The metablocks are only added to.
Extends(metas, more) == \A i \in DOMAIN metas : i \in DOMAIN more /\ more[i] = metas[i]

\* Code of calls that are left alone.
LEMMA CodesStill ==
  ASSUME NEW code, NEW T, NEW x \in Nat, NEW y \in Nat, Codes(code, T, x, y),
         NEW U, \A p \in x .. (y - 1) : U[p] = T[p]
  PROVE  Codes(code, U, x, y)
<1>1. \A k \in 1 .. Len(code) : code[k] \in x .. (y - 1) /\ U[code[k]].op \in Emits
  BY DEF Codes
<1>2. \A p \in x .. (y - 1) : U[p].op \in Emits => \E k \in 1 .. Len(code) : code[k] = p
  BY DEF Codes
<1> QED
  BY <1>1, <1>2 DEF Codes

\* Where nothing emits there is no code.
LEMMA CodesNothing ==
  ASSUME NEW T, NEW x \in Nat, NEW y \in Nat, \A p \in x .. (y - 1) : T[p].op \notin Emits
  PROVE  Codes(<<>>, T, x, y)
<1>1. <<>> \in Seq(Nat) /\ Len(<<>>) = 0
  OBVIOUS
<1> QED
  BY <1>1 DEF Codes

\* What a call at a place adds to the code of its block.
CodesOn(old, op, here, new) ==
  /\ op \in Emits => new = Append(old, here)
  /\ op \notin Emits => new = old

\* The code after a call more.
LEMMA CodesMore ==
  ASSUME NEW old, NEW T, NEW x \in Nat, NEW y \in Nat, x <= y, Codes(old, T, x, y),
         NEW U, \A p \in x .. (y - 1) : U[p] = T[p], NEW new, CodesOn(old, U[y].op, y, new),
         NEW z, z = y + 1
  PROVE  Codes(new, U, x, z)
<1>1. Codes(old, U, x, y)
  BY CodesStill
<1>2. /\ \A p \in x .. (z - 1) : p = y \/ p \in x .. (y - 1)
      /\ \A p \in x .. (y - 1) : p \in x .. (z - 1) /\ p < y
      /\ y \in x .. (z - 1)
  OBVIOUS
<1>3. CASE U[y].op \notin Emits
  <2>1. new = old
    BY <1>3 DEF CodesOn
  <2> QED
    BY <1>1, <1>2, <1>3, <2>1 DEF Codes
<1>4. CASE U[y].op \in Emits
  <2>1. PICK c \in Seq(Nat) : c = old
    BY <1>1 DEF Codes
  <2>2. PICK n \in Nat : n = Len(c)
    OBVIOUS
  <2>3. new = Append(c, y)
    BY <1>4, <2>1 DEF CodesOn
  <2>4. new \in Seq(Nat) /\ Len(new) = n + 1 /\ new[n + 1] = y /\ \A k \in 1 .. n : new[k] = c[k]
    BY <2>2, <2>3
  <2>5. \A k \in 1 .. (n + 1) : k \in 1 .. n \/ k = n + 1
    OBVIOUS
  <2>6. n + 1 \in 1 .. (n + 1) /\ \A k \in 1 .. n : k \in 1 .. (n + 1) /\ ~ (n + 1 < k)
    OBVIOUS
  <2>7. /\ \A k \in 1 .. n : c[k] \in x .. (y - 1) /\ U[c[k]].op \in Emits
        /\ \A j, k \in 1 .. n : j < k => c[j] < c[k]
        /\ \A p \in x .. (y - 1) : U[p].op \in Emits => \E k \in 1 .. n : c[k] = p
    BY <1>1, <2>1, <2>2 DEF Codes
  <2>8. \A k \in 1 .. (n + 1) : new[k] \in x .. (z - 1) /\ U[new[k]].op \in Emits
    BY <1>2, <1>4, <2>4, <2>5, <2>7
  <2>9. \A j, k \in 1 .. (n + 1) : j < k => new[j] < new[k]
    <3>1. \A j, k \in 1 .. n : j < k => new[j] < new[k]
      BY <2>4, <2>7
    <3>2. \A j \in 1 .. n : new[j] < new[n + 1]
      BY <1>2, <2>4, <2>7
    <3>3. ~ (n + 1 < n + 1)
      OBVIOUS
    <3> QED
      BY <2>5, <2>6, <3>1, <3>2, <3>3
  <2>10. \A p \in x .. (z - 1) : U[p].op \in Emits => \E k \in 1 .. (n + 1) : new[k] = p
    BY <1>2, <2>4, <2>6, <2>7
  <2> QED
    BY <2>4, <2>8, <2>9, <2>10 DEF Codes
<1> QED
  BY <1>3, <1>4

\* What a block tells, it tells of what is left alone.
LEMMA TellsStill ==
  ASSUME NEW b, NEW T, NEW x \in Nat, NEW y \in Nat, NEW follow, NEW owner, NEW metas,
         Tells(b, T, x, y, follow, owner, metas),
         NEW U, \A p \in x .. (y - 1) : U[p] = T[p], NEW more, Extends(metas, more)
  PROVE  Tells(b, U, x, y, follow, owner, more)
<1>1. x <= y /\ Labelled(b, U, x, y) /\ Straight(U, x, y) /\ MarksOf(b, U, x, y)
  <2>1. x <= y /\ Labelled(b, T, x, y) /\ Straight(T, x, y) /\ MarksOf(b, T, x, y)
    BY DEF Tells
  <2>2. x < y => x \in x .. (y - 1)
    OBVIOUS
  <2>3. Labelled(b, U, x, y)
    BY <2>1, <2>2 DEF Labelled
  <2>4. Straight(U, x, y)
    BY <2>1 DEF Straight
  <2>5. MarksOf(b, U, x, y)
    BY <2>1 DEF MarksOf
  <2> QED
    BY <2>1, <2>3, <2>4, <2>5
<1>2. Ended(U, x, y) <=> Ended(T, x, y)
  <2>1. x < y => y - 1 \in x .. (y - 1)
    OBVIOUS
  <2> QED
    BY <2>1 DEF Ended
<1>3. Ended(T, x, y) => U[y - 1] = T[y - 1]
  <2>1. x < y => y - 1 \in x .. (y - 1)
    OBVIOUS
  <2> QED
    BY <2>1 DEF Ended
<1>4. CallsBy(b, follow, owner, metas) => CallsBy(b, follow, owner, more)
  BY DEF CallsBy, Extends
<1>5. Leads(b, T, x, y, follow, owner, metas)
  BY DEF Tells
<1>6. Leads(b, U, x, y, follow, owner, more)
  BY <1>2, <1>3, <1>4, <1>5 DEF Leads
<1>7. Codes(b.code, U, x, y)
  BY CodesStill DEF Tells
<1> QED
  BY <1>1, <1>6, <1>7 DEF Tells

\* The block b that is open becomes c by a call that is no label.
Grows(b, T, x, y, c, U) ==
  /\ x \in Nat /\ y \in Nat /\ ~ Ended(T, x, y)
  /\ \A p \in x .. (y - 1) : U[p] = T[p]
  /\ U[y].op # "label"
  /\ CodesOn(b.code, U[y].op, y, c.code)
  /\ c.name = b.name
  /\ c.reachable <=> b.reachable /\ U[y].op # "unreachable"

\* What a block that is open tells when it is left or added to by a call.
LEMMA TellsMore ==
  ASSUME NEW b, NEW T, NEW x, NEW y, NEW owner, NEW metas, NEW old,
         Tells(b, T, x, y, old, owner, metas),
         NEW U, NEW c, Grows(b, T, x, y, c, U),
         NEW z, z = y + 1, NEW follow, NEW more, Leads(c, U, x, z, follow, owner, more)
  PROVE  Tells(c, U, x, z, follow, owner, more)
<1>0. /\ x \in Nat /\ y \in Nat /\ ~ Ended(T, x, y)
      /\ \A p \in x .. (y - 1) : U[p] = T[p]
      /\ U[y].op # "label"
      /\ c.name = b.name
      /\ c.reachable <=> b.reachable /\ U[y].op # "unreachable"
  BY DEF Grows
<1>1. x <= y /\ Labelled(b, T, x, y) /\ Straight(T, x, y) /\ MarksOf(b, T, x, y)
  BY DEF Tells
<1>2. /\ x <= z /\ (x < y => x \in x .. (y - 1) /\ x < z)
      /\ \A p \in x .. (z - 1) : p = y \/ p \in x .. (y - 1)
      /\ \A p \in x .. (y - 1) : p \in x .. (z - 1)
      /\ y \in x .. (z - 1) /\ y = z - 1
  BY <1>0, <1>1
<1>3. Labelled(c, U, x, z)
  <2>1. /\ b.name[1] \in {"label", "block"}
        /\ b.name[1] = "label" => x < y /\ T[x].op = "label"
        /\ \A p \in x .. (y - 1) :
             T[p].op = "label" => p = x /\ b.name = Label(b.name[2]) /\ T[p].to = <<b.name[2]>>
    BY <1>0, <1>1 DEF Labelled
  <2>2. b.name[1] = "label" => x < z /\ U[x].op = "label"
    BY <1>0, <1>2, <2>1
  <2>3. ASSUME NEW p \in x .. (z - 1), U[p].op = "label"
        PROVE  p = x /\ b.name = Label(b.name[2]) /\ U[p].to = <<b.name[2]>>
    <3>1. p \in x .. (y - 1)
      BY <1>0, <1>2, <2>3
    <3> QED
      BY <1>0, <2>1, <2>3, <3>1
  <2> QED
    BY <1>0, <2>1, <2>2, <2>3 DEF Labelled
<1>4. Straight(U, x, z)
  <2>1. ASSUME NEW p \in x .. (y - 1) PROVE U[p].op \notin Enders
    <3>1. T[p].op \in Enders => p = y - 1
      BY <1>0, <1>1 DEF Straight
    <3>2. x < y
      BY <1>0
    <3> QED
      BY <1>0, <3>1, <3>2 DEF Ended
  <2> QED
    BY <1>0, <1>2, <2>1 DEF Straight
<1>5. MarksOf(c, U, x, z)
  <2>1. (\A p \in x .. (z - 1) : U[p].op # "unreachable")
         <=> (\A p \in x .. (y - 1) : T[p].op # "unreachable") /\ U[y].op # "unreachable"
    BY <1>0, <1>2
  <2> QED
    BY <1>0, <1>1, <2>1 DEF MarksOf
<1>6. Codes(c.code, U, x, z)
  <2>1. Codes(b.code, T, x, y) /\ CodesOn(b.code, U[y].op, y, c.code)
    BY DEF Tells, Grows
  <2> QED
    BY <1>0, <1>1, <2>1, CodesMore
<1> QED
  BY <1>0, <1>2, <1>3, <1>4, <1>5, <1>6 DEF Tells

\* What the blocks of a function tell of its text, live if the last is open.
Told(B, T, owner, metas, live) ==
  \E s \in [1 .. (Len(B) + 1) -> 1 .. (Len(T) + 1)] :
    Cut(B, T, s, owner, metas) /\ (Live(B, T, s) <=> live)

\* Metablocks scheduled later change nothing of what the blocks of a function tell.
LEMMA ToldStill ==
  ASSUME NEW B, NEW T, NEW owner, NEW metas, NEW live, Told(B, T, owner, metas, live),
         Len(B) \in Nat, Len(T) \in Nat, NEW more, Extends(metas, more)
  PROVE  Told(B, T, owner, more, live)
<1>1. PICK s \in [1 .. (Len(B) + 1) -> 1 .. (Len(T) + 1)] :
        Cut(B, T, s, owner, metas) /\ (Live(B, T, s) <=> live)
  BY DEF Told
<1>2. ASSUME NEW m \in 1 .. Len(B)
      PROVE  Tells(B[m], T, s[m], s[m + 1], Follow(B, m), owner, more)
  <2>1. m \in 1 .. (Len(B) + 1) /\ m + 1 \in 1 .. (Len(B) + 1)
    OBVIOUS
  <2>2. s[m] \in Nat /\ s[m + 1] \in Nat
    BY <2>1
  <2>3. Tells(B[m], T, s[m], s[m + 1], Follow(B, m), owner, metas)
    BY <1>1 DEF Cut
  <2> QED
    BY <2>2, <2>3, TellsStill
<1>3. Cut(B, T, s, owner, more)
  BY <1>1, <1>2 DEF Cut
<1> QED
  BY <1>1, <1>3 DEF Told

\* Up to the last block of B, the cut t of a longer text U into the blocks D is the cut s.
Recuts(B, T, s, D, U, t, owner, metas) ==
  LET n == Len(B) d == Len(D) l == Len(T) IN
  /\ n \in Nat /\ 1 <= n /\ d \in Nat /\ n <= d /\ l \in Nat
  /\ DOMAIN T = 1 .. l /\ DOMAIN U = 1 .. (l + 1) /\ Len(U) = l + 1
  /\ \A p \in 1 .. l : U[p] = T[p]
  /\ \A m \in 1 .. (n - 1) : D[m] = B[m]
  /\ D[n].name = B[n].name
  /\ t \in [1 .. (d + 1) -> 1 .. (l + 2)] /\ t[d + 1] = l + 2
  /\ \A m \in 1 .. n : t[m] = s[m]
  /\ \A m \in n .. d : Tells(D[m], U, t[m], t[m + 1], Follow(D, m), owner, metas)
  /\ \A p \in s[n] .. (l + 1) : \E m \in n .. d : p \in t[m] .. (t[m + 1] - 1)
  /\ \A i, j \in 1 .. d : D[i].name = D[j].name => i = j

\* A call cuts the text anew at the last block only.
LEMMA Recut ==
  ASSUME NEW B, NEW T, NEW owner, NEW metas, NEW s, Cut(B, T, s, owner, metas),
         NEW more, Extends(metas, more), NEW D, NEW U, NEW t, Recuts(B, T, s, D, U, t, owner, more)
  PROVE  Cut(D, U, t, owner, more)
<1> PICK n \in Nat : n = Len(B) /\ 1 <= n
  BY DEF Recuts
<1> PICK l \in Nat : l = Len(T)
  BY DEF Recuts
<1> PICK d \in Nat : d = Len(D) /\ n <= d
  BY DEF Recuts
<1>0. /\ DOMAIN T = 1 .. l /\ DOMAIN U = 1 .. (l + 1) /\ Len(U) = l + 1
      /\ \A p \in 1 .. l : U[p] = T[p]
      /\ \A m \in 1 .. (n - 1) : D[m] = B[m]
      /\ D[n].name = B[n].name
      /\ t \in [1 .. (d + 1) -> 1 .. (l + 2)] /\ t[d + 1] = l + 2
      /\ \A m \in 1 .. n : t[m] = s[m]
      /\ \A m \in n .. d : Tells(D[m], U, t[m], t[m + 1], Follow(D, m), owner, more)
      /\ \A p \in s[n] .. (l + 1) : \E m \in n .. d : p \in t[m] .. (t[m + 1] - 1)
      /\ \A i, j \in 1 .. d : D[i].name = D[j].name => i = j
  BY DEF Recuts
<1>1. /\ s \in [1 .. (n + 1) -> 1 .. (l + 1)] /\ s[1] = 1 /\ s[n + 1] = l + 1
      /\ \A p \in 1 .. l : \E m \in 1 .. n : p \in s[m] .. (s[m + 1] - 1)
      /\ \A m \in 1 .. n : Tells(B[m], T, s[m], s[m + 1], Follow(B, m), owner, metas)
  BY DEF Cut
<1>2. t \in [1 .. (Len(D) + 1) -> 1 .. (Len(U) + 1)] /\ t[1] = 1 /\ t[Len(D) + 1] = Len(U) + 1
  <2>1. (l + 1) + 1 = l + 2 /\ 1 \in 1 .. n
    OBVIOUS
  <2> QED
    BY <1>0, <1>1, <2>1
<1>3. ASSUME NEW m \in 1 .. d PROVE Tells(D[m], U, t[m], t[m + 1], Follow(D, m), owner, more)
  <2>1. CASE m \in n .. d
    BY <1>0, <2>1
  <2>2. CASE m \in 1 .. (n - 1)
    <3>1. m \in 1 .. n /\ m + 1 \in 1 .. n /\ m \in 1 .. (n + 1) /\ m + 1 \in 1 .. (n + 1) /\ m < n /\ m < d
      BY <1>0, <2>2
    <3>2. D[m] = B[m] /\ t[m] = s[m] /\ t[m + 1] = s[m + 1]
      BY <1>0, <2>2, <3>1
    <3>3. D[m + 1].name = B[m + 1].name
      <4>1. m + 1 = n \/ m + 1 \in 1 .. (n - 1)
        BY <1>0, <2>2
      <4> QED
        BY <1>0, <4>1
    <3>4. Follow(D, m) = Follow(B, m)
      BY <1>0, <3>1, <3>3 DEF Follow
    <3>5. PICK x \in 1 .. (l + 1), y \in 1 .. (l + 1) : x = s[m] /\ y = s[m + 1]
      <4>1. s[m] \in 1 .. (l + 1) /\ s[m + 1] \in 1 .. (l + 1)
        BY <1>0, <1>1, <3>1
      <4> QED
        BY <1>0, <4>1
    <3>6. \A p \in x .. (y - 1) : U[p] = T[p]
      <4>1. \A p \in x .. (y - 1) : p \in 1 .. l
        OBVIOUS
      <4> QED
        BY <1>0, <4>1
    <3>7. Tells(B[m], T, x, y, Follow(B, m), owner, metas)
      BY <1>1, <3>1, <3>5
    <3>8. Tells(B[m], U, x, y, Follow(B, m), owner, more)
      <4>1. x \in Nat /\ y \in Nat
        OBVIOUS
      <4> QED
        BY <3>6, <3>7, <4>1, TellsStill
    <3> QED
      BY <3>2, <3>4, <3>5, <3>8
  <2>3. m \in n .. d \/ m \in 1 .. (n - 1)
    OBVIOUS
  <2> QED
    BY <1>0, <2>1, <2>2, <2>3
<1>4. ASSUME NEW p \in 1 .. (l + 1) PROVE \E m \in 1 .. d : p \in t[m] .. (t[m + 1] - 1)
  <2>1. n \in 1 .. (n + 1)
    OBVIOUS
  <2>2. s[n] \in 1 .. (l + 1)
    BY <1>0, <1>1, <2>1
  <2>3. CASE p \in s[n] .. (l + 1)
    <3>1. PICK m \in n .. d : p \in t[m] .. (t[m + 1] - 1)
      BY <1>0, <2>3
    <3>2. m \in 1 .. d
      OBVIOUS
    <3> QED
      BY <1>0, <3>1, <3>2
  <2>4. CASE p < s[n]
    <3>1. p \in 1 .. l
      BY <1>0, <2>2, <2>4
    <3>2. PICK m \in 1 .. n : p \in s[m] .. (s[m + 1] - 1)
      BY <1>0, <1>1, <3>1
    <3>3. m # n
      BY <1>0, <2>2, <2>4, <3>2
    <3>4. m \in 1 .. n /\ m + 1 \in 1 .. n /\ m \in 1 .. d
      BY <1>0, <3>3
    <3> QED
      BY <1>0, <3>2, <3>4
  <2> QED
    BY <1>0, <2>2, <2>3, <2>4
<1> QED
  BY <1>0, <1>2, <1>3, <1>4 DEF Cut

\* The piece of the last block.
LEMMA LastPiece ==
  ASSUME NEW B, NEW T, NEW owner, NEW metas, NEW n \in Nat \ {0}, Len(B) = n, NEW l \in Nat, Len(T) = l,
         NEW s, Cut(B, T, s, owner, metas)
  PROVE  /\ s \in [1 .. (n + 1) -> 1 .. (l + 1)] /\ s[n] \in 1 .. (l + 1)
         /\ Tells(B[n], T, s[n], l + 1, {}, owner, metas)
         /\ Live(B, T, s) <=> ~ Ended(T, s[n], l + 1)
         /\ Live(B, T, s) => FallsToLabel(B[n], {})
<1>1. s \in [1 .. (n + 1) -> 1 .. (l + 1)] /\ s[n + 1] = l + 1
  BY DEF Cut
<1>2. s[n] \in 1 .. (l + 1)
  <2>1. n \in 1 .. (n + 1)
    OBVIOUS
  <2> QED
    BY <1>1, <2>1
<1>3. Follow(B, n) = {} /\ n \in 1 .. n
  BY DEF Follow
<1>4. Tells(B[n], T, s[n], l + 1, {}, owner, metas)
  <2>1. Tells(B[n], T, s[n], s[n + 1], Follow(B, n), owner, metas)
    BY <1>3 DEF Cut
  <2> QED
    BY <1>1, <1>3, <2>1
<1>5. Live(B, T, s) <=> ~ Ended(T, s[n], l + 1)
  BY <1>1 DEF Live
<1>6. Live(B, T, s) => FallsToLabel(B[n], {})
  BY <1>4, <1>5 DEF Tells, Leads
<1> QED
  BY <1>1, <1>2, <1>4, <1>5, <1>6

\* A call that leaves the block as it is open, marks it, or jumps from it.
LEMMA ToldInside ==
  ASSUME NEW S, NEW B \in Seq(S), NEW n \in Nat \ {0}, Len(B) = n, NEW R, NEW T \in Seq(R),
         NEW owner, NEW metas, Told(B, T, owner, metas, TRUE),
         NEW say \in R, say.op # "label",
         NEW D \in Seq(S), Len(D) = n, \A m \in 1 .. (n - 1) : D[m] = B[m],
         D[n].name = B[n].name, D[n].reachable <=> B[n].reachable /\ say.op # "unreachable",
         say.op \notin Enders => D[n].children = B[n].children /\ D[n].returns = B[n].returns,
         say.op \in Enders => say.op \in Jumps /\ JumpsTo(D[n], say, {}),
         NEW here, here = Len(T) + 1, CodesOn(B[n].code, say.op, here, D[n].code),
         NEW more, Extends(metas, more), NEW live, live <=> say.op \notin Enders
  PROVE  Told(D, Append(T, say), owner, more, live)
<1>1. PICK U : U = Append(T, say)
  OBVIOUS
<1>2. PICK l \in Nat : l = Len(T) /\ DOMAIN T = 1 .. l
  OBVIOUS
<1>3. Len(U) = l + 1 /\ DOMAIN U = 1 .. (l + 1) /\ U[l + 1] = say /\ \A p \in 1 .. l : U[p] = T[p]
  BY <1>1, <1>2
<1>4. PICK s : Cut(B, T, s, owner, metas) /\ Live(B, T, s)
  BY DEF Told
<1>5. PICK x \in 1 .. (l + 1) : x = s[n]
  BY <1>2, <1>4, LastPiece
<1>6. /\ Tells(B[n], T, x, l + 1, {}, owner, metas) /\ ~ Ended(T, x, l + 1) /\ FallsToLabel(B[n], {})
      /\ s \in [1 .. (n + 1) -> 1 .. (l + 1)]
  BY <1>2, <1>4, <1>5, LastPiece
<1>7. PICK t : t = [i \in 1 .. (n + 1) |-> IF i = n + 1 THEN l + 2 ELSE s[i]]
  OBVIOUS
<1>8. t \in [1 .. (n + 1) -> 1 .. (l + 2)] /\ t[n + 1] = l + 2 /\ \A m \in 1 .. n : t[m] = s[m]
  <2>1. \A i \in 1 .. (n + 1) : s[i] \in 1 .. (l + 2)
    <3>1. \A i \in 1 .. (n + 1) : s[i] \in 1 .. (l + 1)
      BY <1>6
    <3>2. 1 .. (l + 1) \subseteq 1 .. (l + 2)
      OBVIOUS
    <3> QED
      BY <3>1, <3>2
  <2>2. l + 2 \in 1 .. (l + 2) /\ n + 1 \in 1 .. (n + 1) /\ \A m \in 1 .. n : m \in 1 .. (n + 1) /\ m # n + 1
    OBVIOUS
  <2> QED
    BY <1>7, <2>1, <2>2
<1>9. PICK y \in Nat : y = l + 1
  OBVIOUS
<1>10. \A p \in x .. (y - 1) : U[p] = T[p]
  <2>1. \A p \in x .. (y - 1) : p \in 1 .. l
    BY <1>9
  <2> QED
    BY <1>3, <2>1
<1>11. U[y] = say /\ x \in Nat /\ x <= y /\ (y + 1) - 1 = y /\ x < y + 1
  BY <1>3, <1>9
<1>12. Ended(U, x, y + 1) <=> say.op \in Enders
  BY <1>11 DEF Ended
<1>13. Leads(D[n], U, x, y + 1, {}, owner, more)
  <2>1. say.op \notin Enders => FallsToLabel(D[n], {})
    BY <1>6 DEF FallsToLabel
  <2>2. say.op \in Jumps => say.op \notin {"return", "abort", "call"}
    BY DEF Jumps
  <2> QED
    BY <1>11, <1>12, <2>1, <2>2 DEF Leads
<1>14. Tells(D[n], U, x, y + 1, {}, owner, more)
  <2> PICK b : b = B[n]
    OBVIOUS
  <2> PICK c : c = D[n]
    OBVIOUS
  <2>1. PICK z \in Nat : z = y + 1
    OBVIOUS
  <2>2. Tells(b, T, x, y, {}, owner, metas) /\ ~ Ended(T, x, y)
    BY <1>6, <1>9, <2>1
  <2>3. Grows(b, T, x, y, c, U)
    <3>1. here = y /\ CodesOn(b.code, U[y].op, y, c.code)
      BY <1>2, <1>9, <1>11
    <3> QED
      BY <1>10, <1>11, <2>2, <3>1 DEF Grows
  <2>4. Leads(c, U, x, z, {}, owner, more)
    BY <1>11, <1>13, <2>1
  <2>5. Tells(c, U, x, z, {}, owner, more)
    BY <2>1, <2>2, <2>3, <2>4, TellsMore
  <2> QED
    BY <2>1, <2>5
<1>15. \A m \in n .. n : Tells(D[m], U, t[m], t[m + 1], Follow(D, m), owner, more)
  <2>1. Follow(D, n) = {} /\ n \in 1 .. n
    BY DEF Follow
  <2>2. t[n] = x /\ t[n + 1] = y + 1
    BY <1>5, <1>8, <1>9, <2>1
  <2>3. Tells(D[n], U, t[n], t[n + 1], Follow(D, n), owner, more)
    BY <1>14, <2>1, <2>2
  <2> QED
    BY <2>3
<1>16. \A p \in s[n] .. (l + 1) : \E m \in n .. n : p \in t[m] .. (t[m + 1] - 1)
  <2>1. t[n] = x /\ t[n + 1] = l + 2 /\ n \in n .. n /\ s[n] = x
    BY <1>5, <1>8
  <2>2. \A p \in x .. (l + 1) : p \in x .. ((l + 2) - 1)
    OBVIOUS
  <2> QED
    BY <2>1, <2>2
<1>17. \A i, j \in 1 .. n : D[i].name = D[j].name => i = j
  <2>1. \A i \in 1 .. n : D[i].name = B[i].name
    <3>1. \A i \in 1 .. n : i = n \/ i \in 1 .. (n - 1)
      OBVIOUS
    <3> QED
      BY <3>1
  <2> QED
    BY <1>4, <2>1 DEF Cut
<1>18. Cut(D, U, t, owner, more)
  <2>1. Len(T) = l /\ DOMAIN T = 1 .. l /\ Len(U) = l + 1 /\ DOMAIN U = 1 .. (l + 1)
    BY <1>2, <1>3
  <2>2. \A p \in 1 .. l : U[p] = T[p]
    BY <1>3
  <2>3. n <= n /\ n \in Nat
    OBVIOUS
  <2>4. Recuts(B, T, s, D, U, t, owner, more)
    BY <1>8, <1>15, <1>16, <1>17, <2>1, <2>2, <2>3 DEF Recuts
  <2> QED
    BY <1>4, <2>4, Recut
<1>19. Live(D, U, t) <=> live
  <2>1. n \in 1 .. n
    OBVIOUS
  <2> QED
    BY <1>5, <1>8, <1>9, <1>12, <2>1 DEF Live
<1>20. t \in [1 .. (Len(D) + 1) -> 1 .. (Len(U) + 1)]
  BY <1>3, <1>8
<1> QED
  BY <1>1, <1>18, <1>19, <1>20 DEF Told

\* The last of the blocks B is left by a call for the last of D, which has no label.
LeftBehind(B, n, say, here, D, name, owner, metas) ==
  /\ say.op \in {"call", "return", "abort"} /\ CodesOn(B[n].code, say.op, here, D[n].code)
  /\ Len(D) = n + 1 /\ \A m \in 1 .. (n - 1) : D[m] = B[m]
  /\ D[n].name = B[n].name /\ (D[n].reachable <=> B[n].reachable)
  /\ D[n + 1] = NewBlock(name) /\ name[1] = "block" /\ \A m \in 1 .. n : B[m].name # name
  /\ say.op = "call" => CallsBy(D[n], {name}, owner, metas)
  /\ say.op # "call" => D[n].children = {} /\ D[n].returns

\* A call that leaves the block for one that has no label.
LEMMA ToldBehind ==
  ASSUME NEW S, NEW B \in Seq(S), NEW n \in Nat \ {0}, Len(B) = n, NEW R, NEW T \in Seq(R),
         NEW owner, NEW metas, Told(B, T, owner, metas, TRUE),
         NEW say \in R, NEW D \in Seq(S), NEW name, NEW more, Extends(metas, more),
         NEW here, here = Len(T) + 1, LeftBehind(B, n, say, here, D, name, owner, more)
  PROVE  Told(D, Append(T, say), owner, more, TRUE)
<1> USE DEF LeftBehind
<1>1. PICK U : U = Append(T, say)
  OBVIOUS
<1>2. PICK l \in Nat : l = Len(T) /\ DOMAIN T = 1 .. l
  OBVIOUS
<1>3. Len(U) = l + 1 /\ DOMAIN U = 1 .. (l + 1) /\ U[l + 1] = say /\ \A p \in 1 .. l : U[p] = T[p]
  BY <1>1, <1>2
<1>4. PICK s : Cut(B, T, s, owner, metas) /\ Live(B, T, s)
  BY DEF Told
<1>5. PICK x \in 1 .. (l + 1) : x = s[n]
  BY <1>2, <1>4, LastPiece
<1>6. /\ Tells(B[n], T, x, l + 1, {}, owner, metas) /\ ~ Ended(T, x, l + 1) /\ FallsToLabel(B[n], {})
      /\ s \in [1 .. (n + 1) -> 1 .. (l + 1)]
  BY <1>2, <1>4, <1>5, LastPiece
<1>7. PICK t : t = [i \in 1 .. (n + 2) |-> IF i > n THEN l + 2 ELSE s[i]]
  OBVIOUS
<1>8. t \in [1 .. (n + 2) -> 1 .. (l + 2)] /\ t[n + 1] = l + 2 /\ t[n + 2] = l + 2 /\ \A m \in 1 .. n : t[m] = s[m]
  <2>1. \A i \in 1 .. n : s[i] \in 1 .. (l + 2)
    <3>1. \A i \in 1 .. n : s[i] \in 1 .. (l + 1)
      <4>1. \A i \in 1 .. n : i \in 1 .. (n + 1)
        OBVIOUS
      <4>2. s \in [1 .. (n + 1) -> 1 .. (l + 1)]
        BY <1>6
      <4> QED
        BY <4>1, <4>2
    <3>2. 1 .. (l + 1) \subseteq 1 .. (l + 2)
      OBVIOUS
    <3> QED
      BY <3>1, <3>2
  <2>2. /\ l + 2 \in 1 .. (l + 2) /\ n + 1 \in 1 .. (n + 2) /\ n + 2 \in 1 .. (n + 2)
        /\ \A m \in 1 .. n : m \in 1 .. (n + 2) /\ ~ (m > n)
        /\ n + 1 > n /\ n + 2 > n /\ \A m \in 1 .. (n + 2) : m > n \/ m \in 1 .. n
    OBVIOUS
  <2> QED
    BY <1>7, <2>1, <2>2
<1>9. PICK y \in Nat : y = l + 1
  OBVIOUS
<1>10. \A p \in x .. (y - 1) : U[p] = T[p]
  <2>1. \A p \in x .. (y - 1) : p \in 1 .. l
    BY <1>9
  <2> QED
    BY <1>3, <2>1
<1>11. U[y] = say /\ x \in Nat /\ x <= y /\ (y + 1) - 1 = y /\ x < y + 1
  BY <1>3, <1>9
<1>12. Ended(U, x, y + 1)
  BY <1>11 DEF Ended, Enders
<1>13. Leads(D[n], U, x, y + 1, {name}, owner, more)
  <2>1. say.op \notin Jumps
    BY DEF Jumps
  <2> QED
    BY <1>11, <1>12, <2>1 DEF Leads
<1>14. Tells(D[n], U, x, y + 1, {name}, owner, more)
  <2> PICK b : b = B[n]
    OBVIOUS
  <2> PICK c : c = D[n]
    OBVIOUS
  <2>1. PICK z \in Nat : z = y + 1
    OBVIOUS
  <2>2. Tells(b, T, x, y, {}, owner, metas) /\ ~ Ended(T, x, y)
    BY <1>6, <1>9, <2>1
  <2>3. Grows(b, T, x, y, c, U)
    <3>1. here = y /\ CodesOn(b.code, U[y].op, y, c.code)
      BY <1>2, <1>9, <1>11
    <3> QED
      BY <1>10, <1>11, <2>2, <3>1 DEF Grows
  <2>4. Leads(c, U, x, z, {name}, owner, more)
    BY <1>11, <1>13, <2>1
  <2>5. Tells(c, U, x, z, {name}, owner, more)
    BY <2>1, <2>2, <2>3, <2>4, TellsMore
  <2> QED
    BY <2>1, <2>5
<1>15. PICK z \in Nat : z = l + 2
  OBVIOUS
<1>16. Tells(NewBlock(name), U, z, z, {}, owner, more)
  <2>1. ~ Ended(U, z, z)
    BY DEF Ended
  <2>2. \A p \in z .. (z - 1) : FALSE
    OBVIOUS
  <2>3. /\ NewBlock(name).name = name /\ NewBlock(name).reachable
        /\ NewBlock(name).children = {} /\ ~ NewBlock(name).returns /\ NewBlock(name).code = <<>>
    BY DEF NewBlock
  <2>4. Codes(<<>>, U, z, z)
    BY <2>2, CodesNothing
  <2> QED
    BY <2>1, <2>2, <2>3, <2>4 DEF Tells, Labelled, Straight, MarksOf, Leads, FallsToLabel
<1>17. \A m \in n .. (n + 1) : Tells(D[m], U, t[m], t[m + 1], Follow(D, m), owner, more)
  <2>1. Follow(D, n) = {name}
    BY DEF Follow, NewBlock
  <2>2. Follow(D, n + 1) = {} /\ n \in 1 .. n /\ (n + 1) + 1 = n + 2
    BY DEF Follow
  <2>3. t[n] = x /\ t[n + 1] = y + 1 /\ t[n + 1] = z /\ t[(n + 1) + 1] = z
    BY <1>5, <1>8, <1>9, <1>15, <2>2
  <2>4. Tells(D[n], U, t[n], t[n + 1], Follow(D, n), owner, more)
    BY <1>14, <2>1, <2>3
  <2>5. Tells(D[n + 1], U, t[n + 1], t[(n + 1) + 1], Follow(D, n + 1), owner, more)
    BY <1>16, <2>2, <2>3
  <2>6. \A m \in n .. (n + 1) : m = n \/ m = n + 1
    OBVIOUS
  <2> QED
    BY <2>4, <2>5, <2>6
<1>18. \A p \in s[n] .. (l + 1) : \E m \in n .. (n + 1) : p \in t[m] .. (t[m + 1] - 1)
  <2>1. t[n] = x /\ t[n + 1] = l + 2 /\ n \in n .. (n + 1) /\ s[n] = x
    BY <1>5, <1>8
  <2>2. \A p \in x .. (l + 1) : p \in x .. ((l + 2) - 1)
    OBVIOUS
  <2> QED
    BY <2>1, <2>2
<1>19. \A i, j \in 1 .. (n + 1) : D[i].name = D[j].name => i = j
  <2>1. \A i \in 1 .. n : D[i].name = B[i].name
    <3>1. \A i \in 1 .. n : i = n \/ i \in 1 .. (n - 1)
      OBVIOUS
    <3> QED
      BY <3>1
  <2>2. \A i, j \in 1 .. n : D[i].name = D[j].name => i = j
    BY <1>4, <2>1 DEF Cut
  <2>3. D[n + 1].name = name
    BY DEF NewBlock
  <2>4. \A i \in 1 .. (n + 1) : i = n + 1 \/ i \in 1 .. n
    OBVIOUS
  <2> QED
    BY <2>1, <2>2, <2>3, <2>4
<1>20. Cut(D, U, t, owner, more)
  <2>1. PICK d \in Nat : d = n + 1
    OBVIOUS
  <2>2. Len(D) = d /\ n <= d /\ d + 1 = n + 2 /\ t[d + 1] = l + 2
    BY <1>8, <2>1
  <2>3. Len(T) = l /\ DOMAIN T = 1 .. l /\ Len(U) = l + 1 /\ DOMAIN U = 1 .. (l + 1)
    BY <1>2, <1>3
  <2>4. \A p \in 1 .. l : U[p] = T[p]
    BY <1>3
  <2>5. /\ t \in [1 .. (d + 1) -> 1 .. (l + 2)] /\ \A m \in 1 .. n : t[m] = s[m]
        /\ \A m \in n .. d : Tells(D[m], U, t[m], t[m + 1], Follow(D, m), owner, more)
        /\ \A p \in s[n] .. (l + 1) : \E m \in n .. d : p \in t[m] .. (t[m + 1] - 1)
        /\ \A i, j \in 1 .. d : D[i].name = D[j].name => i = j
    BY <1>8, <1>17, <1>18, <1>19, <2>1, <2>2
  <2>6. Recuts(B, T, s, D, U, t, owner, more)
    BY <2>1, <2>2, <2>3, <2>4, <2>5 DEF Recuts
  <2> QED
    BY <1>4, <2>6, Recut
<1>21. Live(D, U, t)
  <2>1. ~ Ended(U, z, z) /\ (n + 1) + 1 = n + 2
    BY DEF Ended
  <2> QED
    BY <1>8, <1>15, <2>1 DEF Live
<1>22. t \in [1 .. (Len(D) + 1) -> 1 .. (Len(U) + 1)]
  <2>1. (n + 1) + 1 = n + 2 /\ (l + 1) + 1 = l + 2
    OBVIOUS
  <2> QED
    BY <1>3, <1>8, <2>1
<1> QED
  BY <1>1, <1>20, <1>21, <1>22 DEF Told

\* The last of the blocks B leads to the last of D, which has the label, if it is live.
LabelPut(B, n, say, label, D, live) ==
  /\ say.op = "label" /\ say.to = <<label>>
  /\ Len(D) = n + 1 /\ \A m \in 1 .. (n - 1) : D[m] = B[m]
  /\ D[n].name = B[n].name /\ (D[n].reachable <=> B[n].reachable) /\ D[n].returns = B[n].returns
  /\ D[n].code = B[n].code
  /\ live => D[n].children = B[n].children \cup {Label(label)}
  /\ ~ live => D[n].children = B[n].children
  /\ D[n + 1] = NewBlock(Label(label)) /\ \A m \in 1 .. n : B[m].name # Label(label)

\* A label begins a block, and the block that is open, if there is one, leads to it.
LEMMA ToldLabel ==
  ASSUME NEW S, NEW B \in Seq(S), NEW n \in Nat \ {0}, Len(B) = n, NEW R, NEW T \in Seq(R),
         NEW owner, NEW metas, NEW live, Told(B, T, owner, metas, live),
         NEW say \in R, NEW label, NEW D \in Seq(S), LabelPut(B, n, say, label, D, live)
  PROVE  Told(D, Append(T, say), owner, metas, TRUE)
<1> USE DEF LabelPut
<1>1. PICK U : U = Append(T, say)
  OBVIOUS
<1>2. PICK l \in Nat : l = Len(T) /\ DOMAIN T = 1 .. l
  OBVIOUS
<1>3. Len(U) = l + 1 /\ DOMAIN U = 1 .. (l + 1) /\ U[l + 1] = say /\ \A p \in 1 .. l : U[p] = T[p]
  BY <1>1, <1>2
<1>4. PICK s : Cut(B, T, s, owner, metas) /\ (Live(B, T, s) <=> live)
  BY DEF Told
<1>5. PICK x \in 1 .. (l + 1) : x = s[n]
  BY <1>2, <1>4, LastPiece
<1>6. PICK y \in Nat : y = l + 1
  OBVIOUS
<1>7. /\ Tells(B[n], T, x, y, {}, owner, metas) /\ (live <=> ~ Ended(T, x, y))
      /\ live => FallsToLabel(B[n], {})
      /\ s \in [1 .. (n + 1) -> 1 .. (l + 1)]
  BY <1>2, <1>4, <1>5, <1>6, LastPiece
<1>8. PICK t : t = [i \in 1 .. (n + 2) |-> IF i = n + 2 THEN l + 2 ELSE IF i = n + 1 THEN l + 1 ELSE s[i]]
  OBVIOUS
<1>9. t \in [1 .. (n + 2) -> 1 .. (l + 2)] /\ t[n + 1] = y /\ t[n + 2] = l + 2 /\ \A m \in 1 .. n : t[m] = s[m]
  <2>1. \A i \in 1 .. n : s[i] \in 1 .. (l + 2)
    BY <1>7
  <2>2. /\ l + 2 \in 1 .. (l + 2) /\ l + 1 \in 1 .. (l + 2) /\ n + 1 \in 1 .. (n + 2) /\ n + 2 \in 1 .. (n + 2)
        /\ \A m \in 1 .. n : m \in 1 .. (n + 2) /\ m # n + 1 /\ m # n + 2
        /\ n + 1 # n + 2 /\ \A m \in 1 .. (n + 2) : m = n + 1 \/ m = n + 2 \/ m \in 1 .. n
    OBVIOUS
  <2> QED
    BY <1>6, <1>8, <2>1, <2>2
<1>10. \A p \in x .. (y - 1) : U[p] = T[p]
  <2>1. \A p \in x .. (y - 1) : p \in 1 .. l
    BY <1>6
  <2> QED
    BY <1>3, <2>1
<1>11. x \in Nat /\ x <= y /\ U[y] = say
  BY <1>3, <1>6
<1>12. PICK name : name = Label(label)
  OBVIOUS
<1>13. name[1] = "label" /\ name[2] = label
  BY <1>12 DEF Label
<1>14. Tells(B[n], U, x, y, {}, owner, metas)
  <2>1. Extends(metas, metas)
    BY DEF Extends
  <2> QED
    BY <1>7, <1>10, <1>11, <2>1, TellsStill
<1>15. Ended(U, x, y) <=> ~ live
  <2>1. x < y => y - 1 \in x .. (y - 1)
    BY <1>11
  <2>2. Ended(U, x, y) <=> Ended(T, x, y)
    BY <1>10, <2>1 DEF Ended
  <2> QED
    BY <1>7, <2>2
<1>16. Leads(D[n], U, x, y, {name}, owner, metas)
  <2>1. Leads(B[n], U, x, y, {}, owner, metas)
    BY <1>14 DEF Tells
  <2>2. CASE live
    <3>1. D[n].children = {name} /\ ~ D[n].returns
      BY <1>7, <1>12, <2>2 DEF FallsToLabel
    <3>2. FallsToLabel(D[n], {name})
      BY <1>13, <3>1 DEF FallsToLabel
    <3> QED
      BY <1>15, <2>2, <3>2 DEF Leads
  <2>3. CASE ~ live
    <3>1. U[y - 1].op \in Enders
      BY <1>15, <2>3 DEF Ended
    <3>2. U[y - 1].op \notin {"return", "abort"}
      BY <1>15, <2>1, <2>3 DEF Leads
    <3>3. U[y - 1].op # "call"
      <4>1. ~ CallsBy(B[n], {}, owner, metas)
        BY DEF CallsBy
      <4> QED
        BY <1>15, <2>1, <2>3, <4>1 DEF Leads
    <3>4. U[y - 1].op \in Jumps
      BY <3>1, <3>2, <3>3 DEF Enders
    <3>5. JumpsTo(B[n], U[y - 1], {})
      BY <1>15, <2>1, <2>3, <3>4 DEF Leads
    <3>6. JumpsTo(D[n], U[y - 1], {name})
      BY <1>13, <2>3, <3>5 DEF JumpsTo
    <3> QED
      BY <1>15, <2>3, <3>2, <3>3, <3>6 DEF Leads
  <2> QED
    BY <2>2, <2>3
<1>17. Tells(D[n], U, x, y, {name}, owner, metas)
  BY <1>14, <1>16 DEF Tells, Labelled, Straight, MarksOf
<1>18. PICK z \in Nat : z = l + 2
  OBVIOUS
<1>19. Tells(NewBlock(name), U, y, z, {}, owner, metas)
  <2>1. /\ NewBlock(name).name = name /\ NewBlock(name).reachable
        /\ NewBlock(name).children = {} /\ ~ NewBlock(name).returns /\ NewBlock(name).code = <<>>
    BY DEF NewBlock
  <2>2. y < z /\ z - 1 = y /\ \A p \in y .. (z - 1) : p = y
    BY <1>6, <1>18
  <2>3. U[y].op = "label" /\ U[y].to = <<name[2]>> /\ name = Label(name[2])
    BY <1>11, <1>12, <1>13
  <2>4. ~ Ended(U, y, z)
    BY <2>2, <2>3 DEF Ended, Enders, Jumps
  <2>5. Labelled(NewBlock(name), U, y, z)
    BY <1>13, <2>1, <2>2, <2>3 DEF Labelled
  <2>6. Straight(U, y, z)
    BY <2>2 DEF Straight
  <2>7. MarksOf(NewBlock(name), U, y, z)
    BY <2>1, <2>2, <2>3 DEF MarksOf
  <2>8. Leads(NewBlock(name), U, y, z, {}, owner, metas)
    BY <2>1, <2>4 DEF Leads, FallsToLabel
  <2>9. Codes(NewBlock(name).code, U, y, z)
    <3>1. \A p \in y .. (z - 1) : U[p].op \notin Emits
      BY <2>2, <2>3 DEF Emits
    <3>2. Codes(<<>>, U, y, z)
      BY <1>6, <1>18, <3>1, CodesNothing
    <3> QED
      BY <2>1, <3>2, Zenon
  <2> QED
    BY <2>2, <2>5, <2>6, <2>7, <2>8, <2>9 DEF Tells
<1>20. \A m \in n .. (n + 1) : Tells(D[m], U, t[m], t[m + 1], Follow(D, m), owner, metas)
  <2>1. Follow(D, n) = {name}
    BY <1>12 DEF Follow, NewBlock
  <2>2. Follow(D, n + 1) = {} /\ n \in 1 .. n /\ (n + 1) + 1 = n + 2
    BY DEF Follow
  <2>3. t[n] = x /\ t[n + 1] = y /\ t[(n + 1) + 1] = z
    BY <1>5, <1>9, <1>18, <2>2
  <2>4. Tells(D[n], U, t[n], t[n + 1], Follow(D, n), owner, metas)
    BY <1>17, <2>1, <2>3
  <2>5. Tells(D[n + 1], U, t[n + 1], t[(n + 1) + 1], Follow(D, n + 1), owner, metas)
    BY <1>12, <1>19, <2>2, <2>3
  <2>6. \A m \in n .. (n + 1) : m = n \/ m = n + 1
    OBVIOUS
  <2> QED
    BY <2>4, <2>5, <2>6
<1>21. \A p \in s[n] .. (l + 1) : \E m \in n .. (n + 1) : p \in t[m] .. (t[m + 1] - 1)
  <2>1. t[n] = x /\ t[n + 1] = y /\ t[(n + 1) + 1] = z /\ n \in n .. (n + 1) /\ n + 1 \in n .. (n + 1)
    <3>1. (n + 1) + 1 = n + 2 /\ n \in 1 .. n
      OBVIOUS
    <3> QED
      BY <1>5, <1>9, <1>18, <3>1
  <2>2. \A p \in x .. (l + 1) : p \in x .. (y - 1) \/ p \in y .. (z - 1)
    BY <1>6, <1>18
  <2> QED
    BY <1>5, <2>1, <2>2
<1>22. \A i, j \in 1 .. (n + 1) : D[i].name = D[j].name => i = j
  <2>1. \A i \in 1 .. n : D[i].name = B[i].name
    <3>1. \A i \in 1 .. n : i = n \/ i \in 1 .. (n - 1)
      OBVIOUS
    <3> QED
      BY <3>1
  <2>2. \A i, j \in 1 .. n : D[i].name = D[j].name => i = j
    BY <1>4, <2>1 DEF Cut
  <2>3. D[n + 1].name = name
    BY <1>12 DEF NewBlock
  <2>4. \A i \in 1 .. (n + 1) : i = n + 1 \/ i \in 1 .. n
    OBVIOUS
  <2> QED
    BY <1>12, <2>1, <2>2, <2>3, <2>4
<1>23. Cut(D, U, t, owner, metas)
  <2>1. PICK d \in Nat : d = n + 1
    OBVIOUS
  <2>2. Len(D) = d /\ n <= d /\ d + 1 = n + 2 /\ t[d + 1] = l + 2
    BY <1>9, <2>1
  <2>3. Len(T) = l /\ DOMAIN T = 1 .. l /\ Len(U) = l + 1 /\ DOMAIN U = 1 .. (l + 1)
    BY <1>2, <1>3
  <2>4. \A p \in 1 .. l : U[p] = T[p]
    BY <1>3
  <2>5. /\ t \in [1 .. (d + 1) -> 1 .. (l + 2)] /\ \A m \in 1 .. n : t[m] = s[m]
        /\ \A m \in n .. d : Tells(D[m], U, t[m], t[m + 1], Follow(D, m), owner, metas)
        /\ \A p \in s[n] .. (l + 1) : \E m \in n .. d : p \in t[m] .. (t[m + 1] - 1)
        /\ \A i, j \in 1 .. d : D[i].name = D[j].name => i = j
    BY <1>9, <1>20, <1>21, <1>22, <2>1, <2>2
  <2>6. Recuts(B, T, s, D, U, t, owner, metas)
    BY <2>1, <2>2, <2>3, <2>4, <2>5 DEF Recuts
  <2>7. Extends(metas, metas)
    BY DEF Extends
  <2> QED
    BY <1>4, <2>6, <2>7, Recut
<1>24. Live(D, U, t)
  <2>1. ~ Ended(U, y, z)
    <3>1. z - 1 = y /\ U[y].op = "label"
      BY <1>6, <1>11, <1>18
    <3> QED
      BY <3>1 DEF Ended, Enders, Jumps
  <2>2. (n + 1) + 1 = n + 2
    OBVIOUS
  <2> QED
    BY <1>9, <1>18, <2>1, <2>2 DEF Live
<1>25. t \in [1 .. (Len(D) + 1) -> 1 .. (Len(U) + 1)]
  <2>1. (n + 1) + 1 = n + 2 /\ (l + 1) + 1 = l + 2
    OBVIOUS
  <2> QED
    BY <1>3, <1>9, <2>1
<1> QED
  BY <1>1, <1>23, <1>24, <1>25 DEF Told

\* A function begins with a block that nothing was said in.
LEMMA ToldAfresh ==
  ASSUME NEW name, name[1] = "block", NEW owner, NEW metas
  PROVE  Told(<<NewBlock(name)>>, <<>>, owner, metas, TRUE)
<1>1. PICK B : B = <<NewBlock(name)>>
  OBVIOUS
<1>2. Len(B) = 1 /\ B[1] = NewBlock(name)
  BY <1>1
<1>3. PICK T : T = <<>>
  OBVIOUS
<1>4. Len(T) = 0
  BY <1>3
<1>5. PICK s : s = [i \in 1 .. 2 |-> 1]
  OBVIOUS
<1>6. s \in [1 .. (Len(B) + 1) -> 1 .. (Len(T) + 1)] /\ s[1] = 1 /\ s[2] = 1
  BY <1>2, <1>4, <1>5
<1>7. Tells(NewBlock(name), T, 1, 1, {}, owner, metas)
  <2>1. ~ Ended(T, 1, 1)
    BY DEF Ended
  <2>2. \A p \in 1 .. (1 - 1) : FALSE
    OBVIOUS
  <2>3. /\ NewBlock(name).name = name /\ NewBlock(name).reachable
        /\ NewBlock(name).children = {} /\ ~ NewBlock(name).returns /\ NewBlock(name).code = <<>>
    BY DEF NewBlock
  <2>4. Codes(<<>>, T, 1, 1)
    BY <2>2, CodesNothing
  <2> QED
    BY <2>1, <2>2, <2>3, <2>4 DEF Tells, Labelled, Straight, MarksOf, Leads, FallsToLabel
<1>8. Follow(B, 1) = {}
  BY <1>2 DEF Follow
<1>9. \A m \in 1 .. Len(B) : m = 1
  BY <1>2
<1>10. Cut(B, T, s, owner, metas)
  <2>1. \A p \in 1 .. Len(T) : FALSE
    BY <1>4
  <2>2. 1 + 1 = 2 /\ 0 + 1 = 1
    OBVIOUS
  <2> QED
    BY <1>2, <1>4, <1>6, <1>7, <1>8, <1>9, <2>1, <2>2 DEF Cut
<1>11. Live(B, T, s)
  <2>1. ~ Ended(T, 1, 1)
    BY DEF Ended
  <2> QED
    BY <1>2, <1>6, <2>1 DEF Live
<1> QED
  BY <1>1, <1>3, <1>6, <1>10, <1>11 DEF Told

----------------------------------------------------------------------------
(* The variables of a builder. *)

Names == ({"label"} \X Labels) \cup ({"block", "meta"} \X Nat)
BlockType ==
  [name : Names, code : Seq(Nat), children : SUBSET Names, calls : SUBSET Functions,
   returns : BOOLEAN, reachable : BOOLEAN]
FunctionType == [name : Functions, blocks : Seq(BlockType)]
MetaType == [name : Names, caller : Functions, callees : SUBSET Functions, nextBlock : Names]
Kinds ==
  {"work", "label", "jump", "jumpIf", "jumpIf literal", "call", "return", "abort", "unreachable", "scope", "endScope"}
SayType == [op : Kinds, to : Seq(Labels \cup Functions)]

Numbers(fs) == UNION {{k} \X DOMAIN fs[k].blocks : k \in DOMAIN fs}

\* The functions when the last of them has other blocks.
LEMMA WithBlocksIs ==
  ASSUME functions \in Seq(FunctionType), functions # <<>>, NEW D \in Seq(BlockType)
  PROVE  /\ WithBlocks(D) \in Seq(FunctionType)
         /\ Len(WithBlocks(D)) = Len(functions) /\ DOMAIN WithBlocks(D) = DOMAIN functions
         /\ Len(functions) \in DOMAIN functions
         /\ \A k \in DOMAIN functions : k # Len(functions) => WithBlocks(D)[k] = functions[k]
         /\ WithBlocks(D)[Len(functions)].name = Current.name
         /\ WithBlocks(D)[Len(functions)].blocks = D
<1>1. PICK n \in Nat : n = Len(functions) /\ n \in DOMAIN functions /\ DOMAIN functions = 1 .. n
  OBVIOUS
<1>2. functions[n] \in FunctionType
  BY <1>1
<1>3. PICK fn : fn = [functions[n] EXCEPT !.blocks = D]
  OBVIOUS
<1>4. fn \in FunctionType /\ fn.name = functions[n].name /\ fn.blocks = D
  BY <1>2, <1>3 DEF FunctionType
<1>5. WithBlocks(D) = [functions EXCEPT ![n] = fn]
  BY <1>1, <1>3, Zenon DEF WithBlocks
<1>6. [functions EXCEPT ![n] = fn] \in Seq(FunctionType)
  BY <1>1, <1>4
<1> QED
  BY <1>1, <1>4, <1>5, <1>6 DEF Current

\* The blocks when the last of them is another.
LEMMA ChangedIs ==
  ASSUME NEW B \in Seq(BlockType), NEW n \in Nat \ {0}, n = Len(B), NEW b \in BlockType
  PROVE  /\ Front(B) \o <<b>> \in Seq(BlockType) /\ Len(Front(B) \o <<b>>) = n
         /\ \A m \in 1 .. (n - 1) : (Front(B) \o <<b>>)[m] = B[m]
         /\ (Front(B) \o <<b>>)[n] = b
<1>1. Front(B) \in Seq(BlockType) /\ Len(Front(B)) = n - 1 /\ \A m \in 1 .. (n - 1) : Front(B)[m] = B[m]
  BY DEF Front
<1>2. <<b>> \in Seq(BlockType) /\ Len(<<b>>) = 1 /\ <<b>>[1] = b
  OBVIOUS
<1> QED
  BY <1>1, <1>2

\* The elements of the sequence that is made of what is called.
LEMMA CalleesAreSaid ==
  ASSUME NEW F, NEW callees \in SUBSET F, callees = {} \/ \E f \in F : callees = {f}
  PROVE  SetToSeq(callees) \in Seq(F) /\ ToSet(SetToSeq(callees)) = callees
<1> PICK n : n = Cardinality(callees)
  OBVIOUS
<1>1. n \in {0, 1} /\ (n = 0 <=> callees = {})
  BY FS_EmptySet, FS_Singleton
<1>2. \E g \in [1 .. n -> callees] : IsInjective(g)
  <2>1. CASE callees = {}
    <3>1. n = 0
      BY <1>1, <2>1
    <3>2. PICK g : g = [i \in 1 .. 0 |-> i]
      OBVIOUS
    <3>3. g \in [1 .. n -> callees] /\ DOMAIN g = {}
      BY <3>1, <3>2
    <3> QED
      BY <3>3 DEF IsInjective
  <2>2. ASSUME NEW f \in F, callees = {f} PROVE \E g \in [1 .. n -> callees] : IsInjective(g)
    <3>1. n = 1
      BY <1>1, <2>2
    <3>2. PICK g : g = [i \in 1 .. 1 |-> f]
      OBVIOUS
    <3>3. g \in [1 .. n -> callees] /\ DOMAIN g = {1}
      BY <2>2, <3>1, <3>2
    <3> QED
      BY <3>3 DEF IsInjective
  <2> QED
    BY <2>1, <2>2
<1>3. PICK g : g = SetToSeq(callees)
  OBVIOUS
<1>4. g \in [1 .. n -> callees]
  BY <1>2, <1>3 DEF SetToSeq
<1>5. g \in Seq(F)
  BY <1>1, <1>4
<1>6. ToSet(g) = callees
  <2>1. DOMAIN g = 1 .. n /\ \A i \in 1 .. n : g[i] \in callees
    BY <1>4
  <2>2. CASE callees = {}
    BY <1>1, <2>1, <2>2 DEF ToSet
  <2>3. ASSUME NEW f \in F, callees = {f} PROVE ToSet(g) = callees
    <3>1. n = 1 /\ 1 \in 1 .. n
      BY <1>1, <2>3
    <3> QED
      BY <2>1, <2>3, <3>1 DEF ToSet
  <2> QED
    BY <2>2, <2>3
<1> QED
  BY <1>3, <1>5, <1>6

\* The blocks of a program can be counted.
LEMMA NumbersFinite ==
  ASSUME NEW fs \in Seq(FunctionType)
  PROVE  IsFiniteSet(Numbers(fs))
<1>1. PICK n \in Nat : n = Len(fs) /\ DOMAIN fs = 1 .. n
  OBVIOUS
<1>2. PICK f : f = [k \in 1 .. n |-> {k} \X DOMAIN fs[k].blocks]
  OBVIOUS
<1>3. PICK S : S = {{k} \X DOMAIN fs[k].blocks : k \in 1 .. n}
  OBVIOUS
<1>4. ASSUME NEW m \in Nat PROVE IsFiniteSet(1 .. m)
  <2>1. 1 \in Int /\ m \in Int
    OBVIOUS
  <2> QED
    BY <2>1, FS_Interval
<1>5. IsFiniteSet(S)
  <2>1. f \in Surjection(1 .. n, S)
    BY <1>2, <1>3 DEF Surjection
  <2> QED
    BY <1>4, <2>1, FS_Surjection
<1>6. ASSUME NEW T \in S PROVE IsFiniteSet(T)
  <2>1. PICK k \in 1 .. n : T = {k} \X DOMAIN fs[k].blocks
    BY <1>3
  <2>2. PICK m \in Nat : DOMAIN fs[k].blocks = 1 .. m
    <3>1. fs[k] \in FunctionType
      BY <1>1
    <3>2. fs[k].blocks \in Seq(BlockType)
      BY <3>1 DEF FunctionType
    <3>3. DOMAIN fs[k].blocks = 1 .. Len(fs[k].blocks) /\ Len(fs[k].blocks) \in Nat
      BY <3>2
    <3> QED
      BY <3>3
  <2>3. IsFiniteSet({k}) /\ IsFiniteSet(1 .. m)
    BY <1>4, FS_Singleton
  <2> QED
    BY <2>1, <2>2, <2>3, FS_Product
<1>7. Numbers(fs) = UNION S
  BY <1>1, <1>3 DEF Numbers
<1> QED
  BY <1>5, <1>6, <1>7, FS_UNION

Count(fs) == Cardinality(Numbers(fs))

\* The name a block gets where no label gives it one is the number of blocks there are.
LEMMA GeneratedCounts == Generated = <<"block", Count(functions)>>
BY Zenon DEF Generated, Count, Numbers

\* A block more is one more to count.
LEMMA CountGrows ==
  ASSUME NEW fs \in Seq(FunctionType), NEW gs \in Seq(FunctionType),
         NEW k, NEW i, <<k, i>> \notin Numbers(fs), Numbers(gs) = Numbers(fs) \cup {<<k, i>>}
  PROVE  Count(fs) \in Nat /\ Count(gs) = Count(fs) + 1
<1>1. IsFiniteSet(Numbers(fs))
  BY NumbersFinite
<1>2. Count(fs) \in Nat
  BY <1>1, FS_CardinalityType DEF Count
<1>3. Cardinality(Numbers(fs) \cup {<<k, i>>}) = Cardinality(Numbers(fs)) + 1
  BY <1>1, FS_AddElement
<1> QED
  BY <1>2, <1>3 DEF Count

\* The blocks there are, counted after the current function got other blocks, or one more.
LEMMA CountOfBlocks ==
  ASSUME functions \in Seq(FunctionType), functions # <<>>, NEW D \in Seq(BlockType)
  PROVE  /\ Count(functions) \in Nat
         /\ Len(D) = Len(Current.blocks) => Count(WithBlocks(D)) = Count(functions)
         /\ Len(D) = Len(Current.blocks) + 1 => Count(WithBlocks(D)) = Count(functions) + 1
<1>1. PICK n \in Nat : n = Len(functions) /\ n \in DOMAIN functions /\ DOMAIN functions = 1 .. n
  OBVIOUS
<1>2. PICK gs : gs = WithBlocks(D)
  OBVIOUS
<1>3. /\ gs \in Seq(FunctionType) /\ DOMAIN gs = DOMAIN functions
      /\ \A k \in DOMAIN functions : k # n => gs[k] = functions[k]
      /\ gs[n].blocks = D
  BY <1>1, <1>2, WithBlocksIs
<1>4. functions[n].blocks \in Seq(BlockType)
  <2>1. functions[n] \in FunctionType
    BY <1>1
  <2> QED
    BY <2>1 DEF FunctionType
<1>5. PICK m \in Nat : m = Len(functions[n].blocks) /\ DOMAIN functions[n].blocks = 1 .. m
  BY <1>4
<1>6. DOMAIN D = 1 .. Len(D)
  OBVIOUS
<1>7. Count(functions) \in Nat
  BY NumbersFinite, FS_CardinalityType DEF Count
<1>8. ASSUME Len(D) = m PROVE Count(gs) = Count(functions)
  <2>1. \A k \in DOMAIN functions : DOMAIN gs[k].blocks = DOMAIN functions[k].blocks
    BY <1>3, <1>5, <1>6, <1>8
  <2>2. Numbers(gs) = Numbers(functions)
    BY <1>3, <2>1 DEF Numbers
  <2> QED
    BY <2>2 DEF Count
<1>9. ASSUME Len(D) = m + 1 PROVE Count(gs) = Count(functions) + 1
  <2>1. DOMAIN gs[n].blocks = DOMAIN functions[n].blocks \cup {m + 1} /\ m + 1 \notin DOMAIN functions[n].blocks
    BY <1>3, <1>5, <1>6, <1>9
  <2>2. \A k \in DOMAIN functions : k # n => DOMAIN gs[k].blocks = DOMAIN functions[k].blocks
    BY <1>3
  <2>3. \A k, i : /\ <<k, i>> \in Numbers(gs) <=> k \in DOMAIN gs /\ i \in DOMAIN gs[k].blocks
                  /\ <<k, i>> \in Numbers(functions) <=> k \in DOMAIN functions /\ i \in DOMAIN functions[k].blocks
    BY DEF Numbers
  <2>4. <<n, m + 1>> \notin Numbers(functions)
    BY <2>1, <2>3
  <2>5. Numbers(gs) = Numbers(functions) \cup {<<n, m + 1>>}
    <3>1. \A e \in Numbers(gs) : e = <<e[1], e[2]>>
      BY DEF Numbers
    <3>2. \A e \in Numbers(functions) : e = <<e[1], e[2]>>
      BY DEF Numbers
    <3>3. ASSUME NEW e \in Numbers(gs) PROVE e \in Numbers(functions) \cup {<<n, m + 1>>}
      <4>1. PICK k, i : e = <<k, i>>
        BY <3>1
      <4>2. k \in DOMAIN functions /\ i \in DOMAIN gs[k].blocks
        BY <1>3, <2>3, <4>1
      <4>3. CASE k = n
        BY <2>1, <2>3, <4>1, <4>2, <4>3
      <4>4. CASE k # n
        BY <2>2, <2>3, <4>1, <4>2, <4>4
      <4> QED
        BY <4>3, <4>4
    <3>4. ASSUME NEW e \in Numbers(functions) PROVE e \in Numbers(gs)
      <4>1. PICK k, i : e = <<k, i>>
        BY <3>2
      <4>2. k \in DOMAIN functions /\ i \in DOMAIN functions[k].blocks
        BY <2>3, <4>1
      <4>3. i \in DOMAIN gs[k].blocks
        BY <2>1, <2>2, <4>2
      <4> QED
        BY <1>3, <2>3, <4>1, <4>2, <4>3
    <3>5. <<n, m + 1>> \in Numbers(gs)
      BY <1>1, <1>3, <2>1, <2>3
    <3> QED
      BY <3>3, <3>4, <3>5
  <2> QED
    BY <1>3, <2>4, <2>5, CountGrows
<1> QED
  BY <1>1, <1>2, <1>5, <1>7, <1>8, <1>9 DEF Current

\* What a call more mentions and calls.
LEMMA SaidMore ==
  ASSUME NEW R, NEW T \in Seq(R), NEW say \in R
  PROVE  /\ \A l : l \in Mentioned(Append(T, say)) <=>
                     l \in Mentioned(T) \/ (say.op \in Jumps /\ l \in ToSet(say.to))
         /\ \A f : f \in Called(Append(T, say)) <=>
                     f \in Called(T) \/ (say.op = "call" /\ f \in ToSet(say.to))
<1>1. PICK U : U = Append(T, say)
  OBVIOUS
<1>2. PICK l \in Nat : l = Len(T) /\ DOMAIN T = 1 .. l /\ DOMAIN U = 1 .. (l + 1) /\ U[l + 1] = say
                       /\ \A i \in 1 .. l : U[i] = T[i]
  BY <1>1
<1>3. \A i \in DOMAIN U : i = l + 1 \/ i \in DOMAIN T
  BY <1>2
<1>4. ASSUME NEW K PROVE \A z : (\E i \in Ops(U, K) : z \in ToSet(U[i].to)) <=>
                           (\E i \in Ops(T, K) : z \in ToSet(T[i].to)) \/ (say.op \in K /\ z \in ToSet(say.to))
  <2>1. \A i \in 1 .. l : i \in Ops(U, K) <=> i \in Ops(T, K)
    BY <1>2 DEF Ops
  <2>2. l + 1 \in Ops(U, K) <=> say.op \in K
    BY <1>2 DEF Ops
  <2>3. Ops(U, K) \subseteq DOMAIN U /\ Ops(T, K) \subseteq DOMAIN T
    BY DEF Ops
  <2> QED
    BY <1>2, <1>3, <2>1, <2>2, <2>3
<1>5. \A z : z \in Mentioned(U) <=> \E i \in Ops(U, Jumps) : z \in ToSet(U[i].to)
  BY DEF Mentioned
<1>6. \A z : z \in Mentioned(T) <=> \E i \in Ops(T, Jumps) : z \in ToSet(T[i].to)
  BY DEF Mentioned
<1>7. \A z : z \in Called(U) <=> \E i \in Ops(U, {"call"}) : z \in ToSet(U[i].to)
  BY DEF Called
<1>8. \A z : z \in Called(T) <=> \E i \in Ops(T, {"call"}) : z \in ToSet(T[i].to)
  BY DEF Called
<1>9. \A z : z \in Mentioned(U) <=> z \in Mentioned(T) \/ (say.op \in Jumps /\ z \in ToSet(say.to))
  BY <1>4, <1>5, <1>6
<1>10. \A z : z \in Called(U) <=> z \in Called(T) \/ (say.op \in {"call"} /\ z \in ToSet(say.to))
  BY <1>4, <1>7, <1>8
<1> QED
  BY <1>1, <1>9, <1>10

Typed ==
  /\ functions \in Seq(FunctionType)
  /\ text \in Seq(Seq(SayType))
  /\ metaBlocks \in Seq(MetaType)

\* Each function has the body that is said of it, and a name of its own.
Paired ==
  /\ Len(text) = Len(functions) /\ (inFunction => functions # <<>>)
  /\ \A j, k \in DOMAIN functions : functions[j].name = functions[k].name => j = k
  /\ \A k \in DOMAIN functions : functions[k].blocks # <<>>

\* The last block is left where a jump was the last call.
Going(k) == k = Len(functions) /\ inFunction => open
BlocksTell ==
  \A k \in DOMAIN functions :
    Told(functions[k].blocks, text[k], functions[k].name, metaBlocks, Going(k))

\* The next generated name is not taken.
Numbered ==
  \A k \in DOMAIN functions : \A i \in DOMAIN functions[k].blocks :
    functions[k].blocks[i].name[1] = "block" => functions[k].blocks[i].name[2] < Count(functions)

MetasKnown == MetasNamed(metaBlocks) /\ \A i \in DOMAIN metaBlocks : IsDefined(metaBlocks[i].caller)

\* What is deferred is what the text says.
CallsNoted == UNION {m.callees : m \in ToSet(metaBlocks)} = UNION {Called(text[k]) : k \in DOMAIN text}
LabelsNoted ==
  labelChecks = UNION {{<<functions[k].name, Label(l)>> : l \in Mentioned(text[k])} : k \in DOMAIN functions}

InProgram == Paired /\ BlocksTell /\ Numbered /\ MetasKnown /\ CallsNoted /\ LabelsNoted

\* A call in the body of the last function, which leaves it with the blocks D.
BodyStep(D, say) ==
  /\ phase = "program" /\ phase' = "program" /\ inFunction /\ inFunction'
  /\ say \in SayType /\ text' = [text EXCEPT ![Len(text)] = Append(@, say)]
  /\ D \in Seq(BlockType) /\ functions' = WithBlocks(D)
  /\ Len(D) = Len(Current.blocks) \/ Len(D) = Len(Current.blocks) + 1
  /\ \A i \in DOMAIN D : D[i].name[1] = "block" =>
       \/ \E j \in DOMAIN Current.blocks : D[i].name = Current.blocks[j].name
       \/ Len(D) = Len(Current.blocks) + 1 /\ D[i].name = Generated
  /\ metaBlocks' \in Seq(MetaType) /\ MetasNamed(metaBlocks') /\ Extends(metaBlocks, metaBlocks')
  /\ \A i \in DOMAIN metaBlocks' : i \in DOMAIN metaBlocks \/ metaBlocks'[i].caller = Current.name
  /\ Told(D, Append(text[Len(text)], say), Current.name, metaBlocks', open')
  /\ UNION {m.callees : m \in ToSet(metaBlocks')}
       = (UNION {m.callees : m \in ToSet(metaBlocks)}) \cup (IF say.op = "call" THEN ToSet(say.to) ELSE {})
  /\ labelChecks' = labelChecks \cup
       (IF say.op \in Jumps THEN {<<Current.name, Label(l)>> : l \in ToSet(say.to)} ELSE {})

\* A call in the body of a function keeps what the blocks tell of the text.
LEMMA BodyKeeps ==
  ASSUME Typed, InProgram, NEW D, NEW say, BodyStep(D, say)
  PROVE  Typed' /\ InProgram'
<1>1. functions \in Seq(FunctionType) /\ functions # <<>> /\ D \in Seq(BlockType) /\ functions' = WithBlocks(D)
  BY DEF Typed, InProgram, Paired, BodyStep
<1>2. PICK n \in Nat \ {0} : n = Len(functions) /\ DOMAIN functions = 1 .. n
  BY <1>1
<1>3. PICK name : name = Current.name /\ name = functions[n].name
  BY <1>2 DEF Current
<1>4. PICK B : B = Current.blocks /\ B = functions[n].blocks
  BY <1>2 DEF Current
<1>5. functions[n] \in FunctionType /\ B \in Seq(BlockType) /\ B # <<>> /\ n \in DOMAIN functions
  <2>1. functions[n] \in FunctionType /\ n \in DOMAIN functions
    BY <1>1, <1>2
  <2>2. B # <<>>
    BY <1>4, <2>1 DEF InProgram, Paired
  <2> QED
    BY <1>4, <2>1, <2>2 DEF FunctionType
<1>6. /\ functions' \in Seq(FunctionType) /\ Len(functions') = n /\ DOMAIN functions' = 1 .. n
      /\ \A k \in 1 .. n : k # n => functions'[k] = functions[k]
      /\ functions'[n].name = name /\ functions'[n].blocks = D
  BY <1>1, <1>2, <1>3, WithBlocksIs
<1>7. \A k \in 1 .. n : functions'[k].name = functions[k].name
  BY <1>3, <1>6
<1>8. text \in Seq(Seq(SayType)) /\ Len(text) = n /\ DOMAIN text = 1 .. n /\ say \in SayType
  BY <1>2 DEF Typed, InProgram, Paired, BodyStep
<1>9. PICK T \in Seq(SayType) : T = text[n]
  BY <1>5, <1>2, <1>8
<1>10. PICK U \in Seq(SayType) : U = Append(T, say)
  <2>1. Append(T, say) \in Seq(SayType)
    BY <1>8
  <2> QED
    BY <2>1
<1>11. /\ text' \in Seq(Seq(SayType)) /\ Len(text') = n /\ DOMAIN text' = 1 .. n
       /\ text'[n] = U /\ \A k \in 1 .. n : k # n => text'[k] = text[k]
  <2>1. text' = [text EXCEPT ![n] = U]
    BY <1>8, <1>9, <1>10 DEF BodyStep
  <2> QED
    BY <1>2, <1>5, <1>8, <2>1
<1>12. Typed'
  BY <1>6, <1>11 DEF BodyStep, Typed
<1>13. Paired'
  <2>1. \A j, k \in 1 .. n : functions'[j].name = functions'[k].name => j = k
    BY <1>2, <1>7 DEF InProgram, Paired
  <2>2. D # <<>>
    <3>1. Len(D) # 0
      BY <1>4, <1>5 DEF BodyStep
    <3> QED
      BY <3>1
  <2>3. \A k \in 1 .. n : functions'[k].blocks # <<>>
    BY <1>2, <1>6, <2>2 DEF InProgram, Paired
  <2>4. functions' # <<>>
    BY <1>6
  <2> QED
    BY <1>6, <1>11, <2>1, <2>3, <2>4 DEF Paired
<1>14. BlocksTell'
  <2>1. ASSUME NEW k \in 1 .. n, k # n
        PROVE  Told(functions'[k].blocks, text'[k], functions'[k].name, metaBlocks', Going(k)')
    <3>1. Told(functions[k].blocks, text[k], functions[k].name, metaBlocks, Going(k))
      BY <1>2 DEF InProgram, BlocksTell
    <3>2. Going(k) = TRUE /\ Going(k)' = TRUE
      BY <1>2, <1>6, <2>1 DEF Going
    <3>3. Extends(metaBlocks, metaBlocks')
      BY DEF BodyStep
    <3>4. Len(functions[k].blocks) \in Nat
      <4>1. functions[k] \in FunctionType
        BY <1>1, <1>2
      <4>2. functions[k].blocks \in Seq(BlockType)
        BY <4>1 DEF FunctionType
      <4> QED
        BY <4>2
    <3>5. Len(text[k]) \in Nat
      <4>1. text[k] \in Seq(SayType)
        BY <1>8
      <4> QED
        BY <4>1
    <3>6. PICK fn : fn = functions[k] /\ fn = functions'[k]
      BY <1>6, <2>1
    <3>7. PICK V : V = text[k] /\ V = text'[k]
      BY <1>11, <2>1
    <3>8. Told(fn.blocks, V, fn.name, metaBlocks, TRUE)
      BY <3>1, <3>2, <3>6, <3>7
    <3>9. Told(fn.blocks, V, fn.name, metaBlocks', TRUE)
      BY <3>3, <3>4, <3>5, <3>6, <3>7, <3>8, ToldStill
    <3> QED
      BY <3>2, <3>6, <3>7, <3>9
  <2>2. Told(functions'[n].blocks, text'[n], functions'[n].name, metaBlocks', Going(n)')
    <3>1. Told(D, U, name, metaBlocks', open')
      BY <1>3, <1>8, <1>9, <1>10 DEF BodyStep
    <3>2. Going(n)' <=> open'
      BY <1>6 DEF Going, BodyStep
    <3>3. Told(D, U, name, metaBlocks', Going(n)')
      BY <3>1, <3>2 DEF Told
    <3> QED
      BY <1>6, <1>11, <3>3
  <2>3. \A k \in 1 .. n : Told(functions'[k].blocks, text'[k], functions'[k].name, metaBlocks', Going(k)')
    BY <2>1, <2>2
  <2> QED
    BY <1>6, <2>3 DEF BlocksTell
<1>15. Numbered'
  <2>1. PICK c \in Nat : c = Count(functions)
    BY <1>1, CountOfBlocks
  <2>2. PICK e \in Nat : e = Count(functions') /\ c <= e /\ (Len(D) = Len(Current.blocks) + 1 => c < e)
    <3>1. Count(functions') = c \/ Count(functions') = c + 1
      BY <1>1, <2>1, CountOfBlocks DEF BodyStep
    <3>2. Len(D) = Len(Current.blocks) + 1 => Count(functions') = c + 1
      BY <1>1, <2>1, CountOfBlocks
    <3> QED
      BY <3>1, <3>2
  <2>3. ASSUME NEW k \in 1 .. n, NEW i \in DOMAIN functions[k].blocks, functions[k].blocks[i].name[1] = "block"
        PROVE  functions[k].blocks[i].name[2] < e
    <3>1. functions[k].blocks[i].name[2] < c
      BY <1>2, <2>1, <2>3 DEF InProgram, Numbered
    <3>2. functions[k] \in FunctionType
      BY <1>1, <1>2
    <3>3. functions[k].blocks \in Seq(BlockType)
      BY <3>2 DEF FunctionType
    <3>4. functions[k].blocks[i] \in BlockType
      BY <3>3
    <3>5. PICK x : x = functions[k].blocks[i].name
      OBVIOUS
    <3>6. x \in Names /\ x[1] = "block"
      BY <2>3, <3>4, <3>5 DEF BlockType
    <3>7. x[2] \in Nat
      BY <3>6 DEF Names
    <3> QED
      BY <2>2, <3>1, <3>5, <3>7
  <2>4. ASSUME NEW i \in DOMAIN D, D[i].name[1] = "block" PROVE D[i].name[2] < e
    <3>1. CASE \E j \in DOMAIN Current.blocks : D[i].name = Current.blocks[j].name
      <4>1. PICK j \in DOMAIN B : D[i].name = B[j].name
        BY <1>4, <3>1
      <4> QED
        BY <1>2, <1>4, <1>5, <2>3, <2>4, <4>1
    <3>2. CASE Len(D) = Len(Current.blocks) + 1 /\ D[i].name = Generated
      <4>1. D[i].name[2] = c
        BY <2>1, <3>2, GeneratedCounts
      <4> QED
        BY <2>2, <3>2, <4>1
    <3> QED
      BY <2>4, <3>1, <3>2 DEF BodyStep
  <2>5. ASSUME NEW k \in 1 .. n, NEW i \in DOMAIN functions'[k].blocks, functions'[k].blocks[i].name[1] = "block"
        PROVE  functions'[k].blocks[i].name[2] < e
    <3>1. CASE k = n
      BY <1>6, <2>4, <2>5, <3>1
    <3>2. CASE k # n
      BY <1>6, <2>3, <2>5, <3>2
    <3> QED
      BY <3>1, <3>2
  <2> QED
    BY <1>6, <2>2, <2>5 DEF Numbered
<1>16. MetasKnown'
  <2>1. \A f : IsDefined(f) => \E k \in 1 .. n : functions'[k].name = f
    BY <1>2, <1>7 DEF IsDefined
  <2>2. IsDefined(Current.name)
    BY <1>3, <1>5 DEF IsDefined
  <2>3. PICK metas : metas = metaBlocks'
    OBVIOUS
  <2>4. ASSUME NEW i \in DOMAIN metas PROVE IsDefined(metas[i].caller)
    BY <2>2, <2>3 DEF InProgram, MetasKnown, BodyStep, Extends
  <2>5. \A i \in DOMAIN metas : \E k \in 1 .. n : functions'[k].name = metas[i].caller
    BY <2>1, <2>4
  <2>6. MetasNamed(metaBlocks')
    BY DEF BodyStep
  <2> QED
    BY <1>6, <2>3, <2>5, <2>6 DEF MetasKnown, IsDefined
<1>17. CallsNoted'
  <2>1. \A f : f \in Called(U) <=> f \in Called(T) \/ (say.op = "call" /\ f \in ToSet(say.to))
    BY <1>8, <1>10, SaidMore
  <2>2. \A f : (\E k \in 1 .. n : f \in Called(text'[k]))
               <=> (\E k \in 1 .. n : f \in Called(text[k])) \/ (say.op = "call" /\ f \in ToSet(say.to))
    BY <1>2, <1>5, <1>9, <1>11, <2>1
  <2>3. (UNION {Called(text'[k]) : k \in 1 .. n})
          = (UNION {Called(text[k]) : k \in 1 .. n}) \cup (IF say.op = "call" THEN ToSet(say.to) ELSE {})
    BY <2>2
  <2>4. UNION {m.callees : m \in ToSet(metaBlocks)} = UNION {Called(text[k]) : k \in 1 .. n}
    BY <1>8 DEF InProgram, CallsNoted
  <2>5. UNION {m.callees : m \in ToSet(metaBlocks')}
          = (UNION {m.callees : m \in ToSet(metaBlocks)}) \cup (IF say.op = "call" THEN ToSet(say.to) ELSE {})
    BY DEF BodyStep
  <2>6. UNION {m.callees : m \in ToSet(metaBlocks')} = UNION {Called(text'[k]) : k \in 1 .. n}
    BY <2>3, <2>4, <2>5
  <2> QED
    BY <1>11, <2>6 DEF CallsNoted
<1>18. LabelsNoted'
  <2>1. PICK W : W = IF say.op \in Jumps THEN ToSet(say.to) ELSE {}
    OBVIOUS
  <2>2. Mentioned(U) = Mentioned(T) \cup W
    BY <1>8, <1>10, <2>1, SaidMore
  <2>3. labelChecks = UNION {{<<functions[k].name, Label(l)>> : l \in Mentioned(text[k])} : k \in 1 .. n}
    BY <1>2 DEF InProgram, LabelsNoted
  <2>4. labelChecks' = labelChecks \cup {<<name, Label(l)>> : l \in W}
    BY <1>3, <2>1 DEF BodyStep
  <2>5. \A k \in 1 .. n : {<<functions'[k].name, Label(l)>> : l \in Mentioned(text'[k])}
          = {<<functions[k].name, Label(l)>> : l \in Mentioned(text[k])}
            \cup (IF k = n THEN {<<name, Label(l)>> : l \in W} ELSE {})
    <3>1. ASSUME NEW k \in 1 .. n, k # n
          PROVE {<<functions'[k].name, Label(l)>> : l \in Mentioned(text'[k])}
                  = {<<functions[k].name, Label(l)>> : l \in Mentioned(text[k])}
      <4>1. text'[k] = text[k] /\ functions'[k].name = functions[k].name
        BY <1>7, <1>11, <3>1
      <4> QED
        BY <4>1
    <3>2. {<<functions'[n].name, Label(l)>> : l \in Mentioned(text'[n])}
            = {<<functions[n].name, Label(l)>> : l \in Mentioned(text[n])} \cup {<<name, Label(l)>> : l \in W}
      <4>1. text'[n] = U /\ functions'[n].name = name /\ functions[n].name = name /\ text[n] = T
        BY <1>3, <1>6, <1>9, <1>11
      <4>2. {<<name, Label(l)>> : l \in Mentioned(U)}
             = {<<name, Label(l)>> : l \in Mentioned(T)} \cup {<<name, Label(l)>> : l \in W}
        BY <2>2
      <4> QED
        BY <4>1, <4>2
    <3> QED
      BY <3>1, <3>2
  <2>6. n \in 1 .. n
    OBVIOUS
  <2>7. labelChecks' = UNION {{<<functions'[k].name, Label(l)>> : l \in Mentioned(text'[k])} : k \in 1 .. n}
    <3> DEFINE G(k) == {<<functions[k].name, Label(l)>> : l \in Mentioned(text[k])}
               H(k) == {<<functions'[k].name, Label(l)>> : l \in Mentioned(text'[k])}
               X == {<<name, Label(l)>> : l \in W}
    <3>1. labelChecks = UNION {G(k) : k \in 1 .. n} /\ labelChecks' = labelChecks \cup X
      BY <2>3, <2>4
    <3>2. \A k \in 1 .. n : H(k) = G(k) \cup (IF k = n THEN X ELSE {})
      BY <2>5
    <3> HIDE DEF G, H, X
    <3>3. UNION {H(k) : k \in 1 .. n} = labelChecks'
      BY <2>6, <3>1, <3>2
    <3> QED
      BY <3>3 DEF H
  <2> QED
    BY <1>6, <2>7 DEF LabelsNoted
<1> QED
  BY <1>12, <1>13, <1>14, <1>15, <1>16, <1>17, <1>18 DEF InProgram

\* What the calls in a body find: the block that is open, unless a jump closed it.
InTheBody ==
  /\ functions \in Seq(FunctionType) /\ functions # <<>> /\ Current.name \in Functions
  /\ Current.blocks \in Seq(BlockType) /\ Len(Current.blocks) \in Nat \ {0}
  /\ OpenBlock = Current.blocks[Len(Current.blocks)] /\ OpenBlock \in BlockType
  /\ text[Len(text)] \in Seq(SayType) /\ Here \in Nat /\ Here = Len(text[Len(text)]) + 1
  /\ Told(Current.blocks, text[Len(text)], Current.name, metaBlocks, open)
  /\ Generated \in Names /\ Generated[1] = "block"
  /\ \A j \in DOMAIN Current.blocks : Current.blocks[j].name # Generated
  /\ metaBlocks \in Seq(MetaType) /\ MetasNamed(metaBlocks)

\* What is known of the function under construction when a call in its body is made.
LEMMA BodyFacts ==
  ASSUME Typed, InProgram, inFunction
  PROVE  InTheBody
<1>1. PICK n \in Nat \ {0} : n = Len(functions) /\ DOMAIN functions = 1 .. n /\ n \in DOMAIN functions
  <2>1. functions \in Seq(FunctionType) /\ functions # <<>>
    BY DEF Typed, InProgram, Paired
  <2> QED
    BY <2>1
<1>2. functions \in Seq(FunctionType) /\ functions # <<>>
  BY DEF Typed, InProgram, Paired
<1>3. PICK fn \in FunctionType : fn = functions[n] /\ fn = Current
  BY <1>1, <1>2 DEF Current
<1>4. PICK B \in Seq(BlockType) : B = Current.blocks /\ B # <<>>
  <2>1. fn.blocks \in Seq(BlockType)
    BY <1>3 DEF FunctionType
  <2>2. fn.blocks # <<>>
    BY <1>1, <1>3 DEF InProgram, Paired
  <2> QED
    BY <1>3, <2>1, <2>2
<1>5. PICK m \in Nat \ {0} : m = Len(B) /\ DOMAIN B = 1 .. m /\ m \in DOMAIN B
  BY <1>4
<1>6. OpenBlock = B[m] /\ B[m] \in BlockType
  BY <1>4, <1>5 DEF OpenBlock, Last
<1>7. Current.name \in Functions
  BY <1>3 DEF FunctionType
<1>8. text \in Seq(Seq(SayType)) /\ Len(text) = n
  BY <1>1 DEF Typed, InProgram, Paired
<1>9. PICK T \in Seq(SayType) : T = text[Len(text)] /\ T = text[n]
  <2>1. text[n] \in Seq(SayType)
    BY <1>1, <1>8
  <2> QED
    BY <1>8, <2>1
<1>10. Here \in Nat /\ Here = Len(T) + 1
  BY <1>9 DEF Here, Last
<1>11. Told(B, T, Current.name, metaBlocks, open)
  <2>1. Told(B, T, Current.name, metaBlocks, Going(n))
    BY <1>1, <1>3, <1>4, <1>9 DEF InProgram, BlocksTell
  <2>2. Going(n) <=> open
    BY <1>1 DEF Going
  <2> QED
    BY <2>1, <2>2 DEF Told
<1>12. Count(functions) \in Nat
  BY <1>2, <1>4, CountOfBlocks
<1>13. Generated \in Names /\ Generated[1] = "block" /\ Generated[2] = Count(functions)
  BY <1>12, GeneratedCounts DEF Names
<1>14. ASSUME NEW j \in DOMAIN B, B[j].name = Generated PROVE FALSE
  <2>1. B[j].name[2] < Count(functions)
    BY <1>1, <1>3, <1>4, <1>13, <1>14 DEF InProgram, Numbered
  <2> QED
    BY <1>12, <1>13, <1>14, <2>1
<1>15. metaBlocks \in Seq(MetaType) /\ MetasNamed(metaBlocks)
  BY DEF Typed, InProgram, MetasKnown
<1> QED
  BY <1>2, <1>4, <1>5, <1>6, <1>7, <1>9, <1>10, <1>11, <1>13, <1>14, <1>15 DEF InTheBody

\* A list of metablocks extends itself.
LEMMA ExtendsItself ==
  ASSUME NEW metas
  PROVE  Extends(metas, metas)
BY DEF Extends

\* Calls that leave a function with as many blocks as it had.
SameStep(op, to, D) ==
  LET n == Len(Current.blocks) IN
  /\ Says(op, to) /\ op # "label" /\ op # "call" /\ open /\ phase' = phase /\ inFunction' = inFunction
  /\ [op |-> op, to |-> to] \in SayType
  /\ D \in Seq(BlockType) /\ Len(D) = n /\ \A m \in 1 .. (n - 1) : D[m] = Current.blocks[m]
  /\ D[n].name = OpenBlock.name /\ (D[n].reachable <=> OpenBlock.reachable /\ op # "unreachable")
  /\ op \notin Enders => D[n].children = OpenBlock.children /\ D[n].returns = OpenBlock.returns
  /\ op \in Enders => op \in Jumps /\ JumpsTo(D[n], [op |-> op, to |-> to], {})
  /\ CodesOn(OpenBlock.code, op, Here, D[n].code)
  /\ functions' = WithBlocks(D) /\ metaBlocks' = metaBlocks /\ (open' <=> op \notin Enders)
  /\ labelChecks' = labelChecks \cup
       (IF op \in Jumps THEN {<<Current.name, Label(l)>> : l \in ToSet(to)} ELSE {})

\* A call that leaves the function with as many blocks as it had is a step of the body.
LEMMA SameSteps ==
  ASSUME InTheBody, NEW op, NEW to, NEW D, SameStep(op, to, D)
  PROVE  BodyStep(D, [op |-> op, to |-> to])
<1>1. PICK say \in SayType : say = [op |-> op, to |-> to] /\ say.op = op /\ say.to = to
  BY DEF SameStep
<1>2. PICK B \in Seq(BlockType) : B = Current.blocks
  BY DEF InTheBody
<1>3. PICK n \in Nat \ {0} : n = Len(B) /\ DOMAIN B = 1 .. n /\ OpenBlock = B[n]
  BY <1>2 DEF InTheBody
<1>4. PICK T \in Seq(SayType) : T = text[Len(text)]
  BY DEF InTheBody
<1>5. Told(B, T, Current.name, metaBlocks, TRUE)
  BY <1>2, <1>4 DEF InTheBody, SameStep, Told
<1>6. /\ D \in Seq(BlockType) /\ Len(D) = n /\ \A m \in 1 .. (n - 1) : D[m] = B[m]
      /\ D[n].name = B[n].name /\ (D[n].reachable <=> B[n].reachable /\ say.op # "unreachable")
      /\ say.op \notin Enders => D[n].children = B[n].children /\ D[n].returns = B[n].returns
      /\ say.op \in Enders => say.op \in Jumps /\ JumpsTo(D[n], say, {})
      /\ say.op # "label" /\ DOMAIN D = 1 .. n
      /\ CodesOn(B[n].code, say.op, Here, D[n].code)
  BY <1>1, <1>2, <1>3 DEF SameStep
<1>7. PICK live : live = open'
  OBVIOUS
<1>8. Told(D, Append(T, say), Current.name, metaBlocks, live)
  <2>1. live <=> say.op \notin Enders
    BY <1>1, <1>7 DEF SameStep
  <2>2. Extends(metaBlocks, metaBlocks)
    BY ExtendsItself
  <2>3. PICK owner : owner = Current.name
    OBVIOUS
  <2>4. Told(B, T, owner, metaBlocks, TRUE)
    BY <1>5, <2>3
  <2>5. PICK here : here = Here /\ here = Len(T) + 1
    BY <1>4 DEF InTheBody
  <2>6. Told(D, Append(T, say), owner, metaBlocks, live)
    BY <1>3, <1>6, <2>1, <2>2, <2>4, <2>5, ToldInside
  <2> QED
    BY <2>3, <2>6
<1>9. \A i \in DOMAIN D : \E j \in DOMAIN B : D[i].name = B[j].name
  <2>1. \A i \in 1 .. n : D[i].name = B[i].name
    <3>1. \A i \in 1 .. n : i = n \/ i \in 1 .. (n - 1)
      OBVIOUS
    <3> QED
      BY <1>6, <3>1
  <2> QED
    BY <1>3, <1>6, <2>1
<1>10. phase = "program" /\ inFunction /\ phase' = "program" /\ inFunction'
  BY DEF SameStep, Says
<1>11. text' = [text EXCEPT ![Len(text)] = Append(@, say)]
  BY <1>1 DEF SameStep, Says
<1>12. metaBlocks' = metaBlocks /\ functions' = WithBlocks(D) /\ say.op # "call"
  BY <1>1 DEF SameStep
<1>13. labelChecks' = labelChecks \cup
         (IF say.op \in Jumps THEN {<<Current.name, Label(l)>> : l \in ToSet(say.to)} ELSE {})
  BY <1>1 DEF SameStep
<1>14. /\ metaBlocks' \in Seq(MetaType) /\ MetasNamed(metaBlocks') /\ Extends(metaBlocks, metaBlocks')
       /\ \A i \in DOMAIN metaBlocks' : i \in DOMAIN metaBlocks
  BY <1>12, ExtendsItself DEF InTheBody
<1>15. Told(D, Append(text[Len(text)], say), Current.name, metaBlocks', open')
  BY <1>4, <1>7, <1>8, <1>12
<1>16. UNION {m.callees : m \in ToSet(metaBlocks')}
         = (UNION {m.callees : m \in ToSet(metaBlocks)}) \cup (IF say.op = "call" THEN ToSet(say.to) ELSE {})
  BY <1>12
<1>17. BodyStep(D, say)
  BY <1>2, <1>3, <1>6, <1>9, <1>10, <1>11, <1>12, <1>13, <1>14, <1>15, <1>16 DEF BodyStep
<1> QED
  BY <1>1, <1>17

\* The blocks of the function when the last becomes b.
LEMMA PutBlock ==
  ASSUME InTheBody, NEW b \in BlockType
  PROVE  LET n == Len(Current.blocks) IN
         /\ Changed(b) \in Seq(BlockType) /\ Len(Changed(b)) = n
         /\ \A m \in 1 .. (n - 1) : Changed(b)[m] = Current.blocks[m]
         /\ Changed(b)[n] = b
<1>1. PICK B \in Seq(BlockType) : B = Current.blocks
  BY DEF InTheBody
<1>2. PICK n \in Nat \ {0} : n = Len(B)
  BY <1>1 DEF InTheBody
<1>3. Changed(b) = Front(B) \o <<b>>
  BY <1>1 DEF Changed
<1>4. PICK C : C = Front(B) \o <<b>>
  OBVIOUS
<1>5. C \in Seq(BlockType) /\ Len(C) = n /\ C[n] = b /\ \A m \in 1 .. (n - 1) : C[m] = B[m]
  BY <1>2, <1>4, ChangedIs
<1> QED
  BY <1>1, <1>2, <1>3, <1>4, <1>5

\* A call that is no label finds its block open.
LEMMA OpenToCalls ==
  ASSUME BlockInv, NEW op, NEW to, Says(op, to), op # "label"
  PROVE  open /\ inFunction /\ phase = "program" /\ expected = None
BY DEF BlockInv, Awaited, EmitsIntoABlock, Says, None

\* Names and blocks that are made of those there are.
LEMMA BlocksMade ==
  /\ \A l \in Labels : Label(l) \in Names
  /\ \A i \in Nat : <<"meta", i>> \in Names
  /\ \A name \in Names : NewBlock(name) \in BlockType /\ NewBlock(name).name = name
BY DEF Names, Label, NewBlock, BlockType

\* A block with code put into it.
LEMMA EmittedIs ==
  ASSUME InTheBody, NEW b \in BlockType
  PROVE  /\ Emitted(b) \in BlockType /\ Emitted(b).name = b.name /\ Emitted(b).reachable = b.reachable
         /\ Emitted(b).children = b.children /\ Emitted(b).returns = b.returns /\ Emitted(b).calls = b.calls
         /\ \A op \in Emits : CodesOn(b.code, op, Here, Emitted(b).code)
<1>1. PICK code \in Seq(Nat) : code = Append(b.code, Here)
  <2>1. b.code \in Seq(Nat) /\ Here \in Nat
    BY DEF InTheBody, BlockType
  <2>2. PICK here \in Nat : here = Here
    BY <2>1
  <2>3. PICK said \in Seq(Nat) : said = b.code
    BY <2>1
  <2>4. Append(said, here) \in Seq(Nat)
    OBVIOUS
  <2> QED
    BY <2>2, <2>3, <2>4
<1>2. Emitted(b) = [b EXCEPT !.code = code]
  BY <1>1 DEF Emitted
<1>3. \A op \in Emits : CodesOn(b.code, op, Here, code)
  BY <1>1 DEF CodesOn
<1> QED
  BY <1>2, <1>3 DEF BlockType

\* Emitting an instruction is such a call.
LEMMA WorkSteps ==
  ASSUME InTheBody, BlockInv, Work
  PROVE  SameStep("work", <<>>, Changed(Emitted(OpenBlock)))
<1>1. PICK b : b = OpenBlock
  OBVIOUS
<1>2. PICK c \in BlockType : /\ c = Emitted(b) /\ c.name = b.name /\ c.reachable = b.reachable
                             /\ c.children = b.children /\ c.returns = b.returns
                             /\ CodesOn(b.code, "work", Here, c.code)
  BY <1>1, EmittedIs DEF InTheBody, Emits
<1>3. Says("work", <<>>) /\ open /\ inFunction /\ phase = "program" /\ expected = None
  BY OpenToCalls DEF Work
<1>4. [op |-> "work", to |-> <<>>] \in SayType
  BY DEF SayType, Kinds
<1>5. /\ functions' = WithBlocks(Changed(c))
      /\ UNCHANGED <<phase, error, inFunction, open, depth, expected, metaBlocks, labelChecks>>
  BY <1>1, <1>2 DEF Work
<1> QED
  BY <1>1, <1>2, <1>3, <1>4, <1>5, PutBlock DEF SameStep, Enders, Jumps

\* Marking the open block unreachable is such a call.
LEMMA UnreachableSteps ==
  ASSUME InTheBody, BlockInv, Unreachable
  PROVE  SameStep("unreachable", <<>>, Changed([OpenBlock EXCEPT !.reachable = FALSE]))
<1>1. PICK b : b = OpenBlock
  OBVIOUS
<1>2. PICK c \in BlockType : /\ c = [b EXCEPT !.reachable = FALSE] /\ c.name = b.name /\ c.reachable = FALSE
                             /\ c.children = b.children /\ c.returns = b.returns
                             /\ CodesOn(b.code, "unreachable", Here, c.code)
  <2>1. b \in BlockType
    BY <1>1 DEF InTheBody
  <2>2. [b EXCEPT !.reachable = FALSE] \in BlockType
    BY <2>1 DEF BlockType
  <2> QED
    BY <2>1, <2>2 DEF BlockType, CodesOn, Emits
<1>3. Says("unreachable", <<>>) /\ open /\ inFunction /\ phase = "program" /\ expected = None
  BY OpenToCalls DEF Unreachable
<1>4. [op |-> "unreachable", to |-> <<>>] \in SayType
  BY DEF SayType, Kinds
<1>5. /\ functions' = WithBlocks(Changed(c))
      /\ UNCHANGED <<phase, error, inFunction, open, depth, expected, metaBlocks, labelChecks>>
  BY <1>1, <1>2 DEF Unreachable
<1> QED
  BY <1>1, <1>2, <1>3, <1>4, <1>5, PutBlock DEF SameStep, Enders, Jumps

\* Opening or closing a scope is such a call.
LEMMA ScopeSteps ==
  ASSUME InTheBody, BlockInv, BeginScope \/ EndScope
  PROVE  \E op \in Kinds : SameStep(op, <<>>, Current.blocks)
<1>1. PICK op \in {"scope", "endScope"} : Says(op, <<>>)
  BY DEF BeginScope, EndScope
<1>2. /\ op # "label" /\ op # "call" /\ op # "unreachable" /\ op \notin Enders /\ op \notin Jumps
      /\ op \in Kinds /\ CodesOn(OpenBlock.code, op, Here, OpenBlock.code)
  BY <1>1 DEF Enders, Jumps, Kinds, CodesOn, Emits
<1>3. open /\ inFunction /\ phase = "program" /\ expected = None
  BY <1>1, <1>2, OpenToCalls
<1>4. [op |-> op, to |-> <<>>] \in SayType
  BY <1>2 DEF SayType
<1>5. UNCHANGED <<phase, error, functions, inFunction, open, metaBlocks, labelChecks>>
  BY DEF BeginScope, EndScope
<1>6. WithBlocks(Current.blocks) = functions
  <2>1. PICK n \in Nat : n = Len(functions) /\ n \in DOMAIN functions /\ functions[n] \in FunctionType
    BY DEF InTheBody
  <2>2. PICK fn \in FunctionType : fn = functions[n] /\ fn = Current
    BY <2>1 DEF Current
  <2>3. [fn EXCEPT !.blocks = fn.blocks] = fn
    BY DEF FunctionType
  <2>4. WithBlocks(Current.blocks) = [functions EXCEPT ![n] = [fn EXCEPT !.blocks = fn.blocks]]
    BY <2>1, <2>2 DEF WithBlocks
  <2>5. [functions EXCEPT ![n] = fn] = functions
    <3>1. PICK fs \in Seq(FunctionType) : fs = functions
      BY DEF InTheBody
    <3>2. [fs EXCEPT ![n] = fs[n]] = fs
      OBVIOUS
    <3> QED
      BY <2>2, <3>1, <3>2
  <2> QED
    BY <2>3, <2>4, <2>5
<1>7. Current.blocks[Len(Current.blocks)] = OpenBlock /\ Current.blocks \in Seq(BlockType)
  BY DEF InTheBody
<1>8. SameStep(op, <<>>, Current.blocks)
  BY <1>1, <1>2, <1>3, <1>4, <1>5, <1>6, <1>7 DEF SameStep
<1> QED
  BY <1>2, <1>8

\* Nothing has left a block that is open.
LEMMA OpenIsBare ==
  ASSUME InTheBody, open
  PROVE  OpenBlock.children = {} /\ ~ OpenBlock.returns
<1>1. PICK B \in Seq(BlockType) : B = Current.blocks
  BY DEF InTheBody
<1>2. PICK n \in Nat \ {0} : n = Len(B) /\ OpenBlock = B[n]
  BY <1>1 DEF InTheBody
<1>3. PICK T \in Seq(SayType) : T = text[Len(text)]
  BY DEF InTheBody
<1>4. PICK l \in Nat : l = Len(T)
  BY <1>3
<1>5. PICK owner : owner = Current.name
  OBVIOUS
<1>6. PICK metas : metas = metaBlocks
  OBVIOUS
<1>7. Told(B, T, owner, metas, open)
  BY <1>1, <1>3, <1>5, <1>6 DEF InTheBody
<1>8. PICK s \in [1 .. (Len(B) + 1) -> 1 .. (Len(T) + 1)] : Cut(B, T, s, owner, metas) /\ Live(B, T, s)
  BY <1>7 DEF Told
<1>9. FallsToLabel(B[n], {})
  BY <1>2, <1>4, <1>8, LastPiece
<1> QED
  BY <1>2, <1>9 DEF FallsToLabel

\* A jump from the block that is open, decided or not.
LEMMA JumpSteps ==
  ASSUME InTheBody, BlockInv, NEW op \in Jumps, NEW to \in Seq(Labels), Says(op, to), ExpectLabel,
         NEW names \in SUBSET Labels, names = Targets([op |-> op, to |-> to]), LeaveFor(names, ToSet(to))
  PROVE  SameStep(op, to, Changed(LeadingTo(OpenBlock, {Label(l) : l \in names})))
<1>1. PICK b \in BlockType : b = OpenBlock
  BY DEF InTheBody
<1>2. op # "label" /\ op # "call" /\ op # "unreachable" /\ op \in Enders /\ op \in Kinds
  BY DEF Enders, Jumps, Kinds
<1>3. open /\ inFunction /\ phase = "program" /\ expected = None
  BY <1>2, OpenToCalls
<1>4. b.children = {} /\ ~ b.returns
  BY <1>1, <1>3, OpenIsBare
<1>5. PICK leads \in SUBSET Names : leads = {Label(l) : l \in names}
  BY BlocksMade
<1>6. PICK c \in BlockType : /\ c = LeadingTo(b, leads) /\ c.name = b.name /\ c.reachable = b.reachable
                             /\ c.children = leads /\ ~ c.returns
                             /\ CodesOn(b.code, op, Here, c.code)
  <2>1. b.children \cup leads = leads
    BY <1>4
  <2>2. [b EXCEPT !.children = leads] \in BlockType
    BY DEF BlockType
  <2>3. LeadingTo(b, leads) = [b EXCEPT !.children = leads]
    BY <2>1 DEF LeadingTo
  <2>4. op \notin Emits
    BY DEF Jumps, Emits
  <2> QED
    BY <1>4, <2>2, <2>3, <2>4 DEF BlockType, CodesOn
<1>7. PICK say \in SayType : say = [op |-> op, to |-> to]
  <2>1. to \in Seq(Labels \cup Functions)
    OBVIOUS
  <2> QED
    BY <1>2, <2>1 DEF SayType
<1>8. JumpsTo(c, say, {})
  BY <1>5, <1>6, <1>7 DEF JumpsTo
<1>9. /\ functions' = WithBlocks(Changed(c)) /\ metaBlocks' = metaBlocks /\ open' = FALSE
      /\ phase' = phase /\ inFunction' = inFunction
      /\ labelChecks' = labelChecks \cup {<<Current.name, Label(l)>> : l \in ToSet(to)}
  BY <1>1, <1>5, <1>6 DEF LeaveFor
<1>10. SameStep(op, to, Changed(c))
  <2>1. PICK D : D = Changed(c)
    OBVIOUS
  <2>2. PICK n : n = Len(Current.blocks)
    OBVIOUS
  <2>3. D \in Seq(BlockType) /\ Len(D) = n /\ (\A m \in 1 .. (n - 1) : D[m] = Current.blocks[m]) /\ D[n] = c
    BY <2>1, <2>2, PutBlock
  <2>4. SameStep(op, to, D)
    BY <1>1, <1>2, <1>3, <1>6, <1>7, <1>8, <1>9, <2>1, <2>2, <2>3 DEF SameStep
  <2> QED
    BY <2>1, <2>4
<1> QED
  BY <1>1, <1>5, <1>6, <1>10

\* What is scheduled with a call.
Schedules(more, callees) ==
  /\ more \in Seq(MetaType) /\ MetasNamed(more) /\ Extends(metaBlocks, more)
  /\ \A i \in DOMAIN more : i \in DOMAIN metaBlocks \/ more[i].caller = Current.name
  /\ UNION {m.callees : m \in ToSet(more)} = (UNION {m.callees : m \in ToSet(metaBlocks)}) \cup callees

\* Calls that leave a block for one without a label.
BehindStep(op, to, c) ==
  /\ Says(op, to) /\ op \in {"call", "return", "abort"} /\ open /\ open' = open
  /\ phase' = phase /\ inFunction' = inFunction /\ labelChecks' = labelChecks
  /\ [op |-> op, to |-> to] \in SayType
  /\ c \in BlockType /\ c.name = OpenBlock.name /\ (c.reachable <=> OpenBlock.reachable)
  /\ CodesOn(OpenBlock.code, op, Here, c.code)
  /\ functions' = WithBlocks(Append(Changed(c), NewBlock(Generated)))
  /\ Schedules(metaBlocks', IF op = "call" THEN ToSet(to) ELSE {})
  /\ op = "call" => CallsBy(c, {Generated}, Current.name, metaBlocks')
  /\ op # "call" => c.children = {} /\ c.returns

\* A call that ends the open block and opens a generated one behind it is a step of the body.
LEMMA BehindSteps ==
  ASSUME InTheBody, NEW op, NEW to, NEW c, BehindStep(op, to, c)
  PROVE  BodyStep(Append(Changed(c), NewBlock(Generated)), [op |-> op, to |-> to])
<1>1. PICK say \in SayType : say = [op |-> op, to |-> to] /\ say.op = op /\ say.to = to
  BY DEF BehindStep
<1>2. PICK B \in Seq(BlockType) : B = Current.blocks
  BY DEF InTheBody
<1>3. PICK n \in Nat \ {0} : n = Len(B) /\ DOMAIN B = 1 .. n /\ OpenBlock = B[n]
  <2>1. Len(Current.blocks) \in Nat \ {0} /\ OpenBlock = Current.blocks[Len(Current.blocks)]
    BY Zenon DEF InTheBody
  <2> QED
    BY <1>2, <2>1
<1>4. PICK T \in Seq(SayType) : T = text[Len(text)]
  BY DEF InTheBody
<1>5. PICK owner : owner = Current.name
  OBVIOUS
<1>6. Told(B, T, owner, metaBlocks, TRUE)
  <2>1. open
    BY DEF BehindStep
  <2> QED
    BY <1>2, <1>4, <1>5, <2>1 DEF InTheBody, Told
<1>7. PICK name : name = Generated /\ name \in Names /\ name[1] = "block"
  BY DEF InTheBody
<1>8. c \in BlockType /\ NewBlock(name) \in BlockType /\ NewBlock(name).name = name
  BY <1>7, BlocksMade DEF BehindStep
<1>9. PICK D : D = Append(Changed(c), NewBlock(name))
  OBVIOUS
<1>10. D \in Seq(BlockType) /\ Len(D) = n + 1 /\ (\A m \in 1 .. (n - 1) : D[m] = B[m])
       /\ D[n] = c /\ D[n + 1] = NewBlock(name) /\ DOMAIN D = 1 .. (n + 1)
  <2>1. D \in Seq(BlockType) /\ Len(D) = n + 1 /\ (\A m \in 1 .. (n - 1) : D[m] = B[m])
        /\ D[n] = c /\ D[n + 1] = NewBlock(name)
    <3>1. PICK new \in BlockType : new = NewBlock(name)
      BY <1>8
    <3>2. PICK C \in Seq(BlockType) :
            /\ C = Changed(c) /\ Len(C) = n /\ C[n] = c /\ \A m \in 1 .. (n - 1) : C[m] = B[m]
      BY <1>2, <1>3, <1>8, PutBlock
    <3>3. D = Append(C, new)
      BY <1>9, <3>1, <3>2
    <3>4. D \in Seq(BlockType) /\ Len(D) = n + 1 /\ D[n + 1] = new /\ \A m \in 1 .. n : D[m] = C[m]
      BY <3>2, <3>3
    <3> QED
      BY <3>1, <3>2, <3>4
  <2> QED
    BY <2>1
<1>11. PICK more : more = metaBlocks'
  OBVIOUS
<1>12. Told(D, Append(T, say), owner, more, TRUE)
  <2>1. Extends(metaBlocks, more)
    BY <1>11 DEF BehindStep, Schedules
  <2>2. \A m \in 1 .. n : B[m].name # name
    BY <1>2, <1>3, <1>7 DEF InTheBody
  <2>3. D[n].name = B[n].name /\ (D[n].reachable <=> B[n].reachable) /\ say.op \in {"call", "return", "abort"}
    BY <1>1, <1>3, <1>10 DEF BehindStep
  <2>4. say.op = "call" => CallsBy(D[n], {name}, owner, more)
    BY <1>1, <1>5, <1>7, <1>10, <1>11 DEF BehindStep
  <2>5. say.op # "call" => D[n].children = {} /\ D[n].returns
    BY <1>1, <1>10 DEF BehindStep
  <2>6. PICK here : here = Here /\ here = Len(T) + 1
    BY <1>4 DEF InTheBody
  <2>7. CodesOn(B[n].code, say.op, here, D[n].code)
    BY <1>1, <1>3, <1>10, <2>6 DEF BehindStep
  <2>8. LeftBehind(B, n, say, here, D, name, owner, more)
    BY <1>7, <1>10, <2>2, <2>3, <2>4, <2>5, <2>7 DEF LeftBehind
  <2> QED
    BY <1>3, <1>6, <1>10, <2>1, <2>6, <2>8, ToldBehind
<1>13. Told(D, Append(text[Len(text)], say), Current.name, metaBlocks', open')
  <2>2. open' <=> TRUE
    BY DEF BehindStep
  <2>3. Told(D, Append(T, say), owner, more, open')
    BY <1>12, <2>2 DEF Told
  <2> QED
    BY <1>4, <1>5, <1>11, <2>3
<1>14. \A i \in DOMAIN D : (\E j \in DOMAIN B : D[i].name = B[j].name) \/ D[i].name = name
  <2>1. \A i \in 1 .. (n + 1) : i = n + 1 \/ i = n \/ i \in 1 .. (n - 1)
    OBVIOUS
  <2>2. \A i \in 1 .. (n - 1) : i \in 1 .. n /\ D[i].name = B[i].name
    BY <1>10
  <2>3. D[n].name = B[n].name /\ n \in 1 .. n
    BY <1>3, <1>10 DEF BehindStep
  <2>4. D[n + 1].name = name
    BY <1>8, <1>10
  <2> QED
    BY <1>3, <1>10, <2>1, <2>2, <2>3, <2>4
<1>15. phase = "program" /\ inFunction /\ phase' = "program" /\ inFunction' /\ labelChecks' = labelChecks
  BY DEF BehindStep, Says
<1>16. text' = [text EXCEPT ![Len(text)] = Append(@, say)]
  BY <1>1 DEF BehindStep, Says
<1>17. functions' = WithBlocks(D)
  BY <1>7, <1>9 DEF BehindStep
<1>18. /\ metaBlocks' \in Seq(MetaType) /\ MetasNamed(metaBlocks') /\ Extends(metaBlocks, metaBlocks')
       /\ \A i \in DOMAIN metaBlocks' : i \in DOMAIN metaBlocks \/ metaBlocks'[i].caller = Current.name
  BY DEF BehindStep, Schedules
<1>19. UNION {m.callees : m \in ToSet(metaBlocks')}
         = (UNION {m.callees : m \in ToSet(metaBlocks)}) \cup (IF say.op = "call" THEN ToSet(say.to) ELSE {})
  BY <1>1 DEF BehindStep, Schedules
<1>20. say.op \notin Jumps
  BY <1>1 DEF BehindStep, Jumps
<1>21. labelChecks' = labelChecks \cup
         (IF say.op \in Jumps THEN {<<Current.name, Label(l)>> : l \in ToSet(say.to)} ELSE {})
  BY <1>15, <1>20
<1>22. BodyStep(D, say)
  BY <1>2, <1>3, <1>7, <1>10, <1>13, <1>14, <1>15, <1>16, <1>17, <1>18, <1>19, <1>21 DEF BodyStep
<1> QED
  BY <1>1, <1>7, <1>9, <1>22

\* A return and an abort are such calls.
LEMMA LeaveSteps ==
  ASSUME InTheBody, BlockInv, NEW op \in {"return", "abort"}, Leave(op)
  PROVE  BehindStep(op, <<>>, [Emitted(OpenBlock) EXCEPT !.returns = TRUE])
<1>1. PICK b \in BlockType : b = OpenBlock
  BY DEF InTheBody
<1>2. op # "label" /\ op # "call" /\ op \in Kinds
  BY DEF Kinds
<1>3. Says(op, <<>>) /\ open /\ inFunction /\ phase = "program" /\ expected = None
  BY <1>2, OpenToCalls DEF Leave
<1>4. b.children = {}
  BY <1>1, <1>3, OpenIsBare
<1>5. PICK e \in BlockType : /\ e = Emitted(b) /\ e.name = b.name /\ e.reachable = b.reachable /\ e.children = {}
                             /\ CodesOn(b.code, op, Here, e.code)
  <2>1. op \in Emits
    BY DEF Emits
  <2> QED
    BY <1>4, <2>1, EmittedIs
<1>6. PICK c \in BlockType : /\ c = [e EXCEPT !.returns = TRUE] /\ c.name = b.name
                             /\ c.reachable = b.reachable /\ c.children = {} /\ c.returns
                             /\ c.code = e.code
  <2>1. [e EXCEPT !.returns = TRUE] \in BlockType
    BY DEF BlockType
  <2> QED
    BY <1>5, <2>1 DEF BlockType
<1>7. [op |-> op, to |-> <<>>] \in SayType
  BY <1>2 DEF SayType
<1>8. /\ functions' = WithBlocks(Append(Changed(c), NewBlock(Generated)))
      /\ UNCHANGED <<phase, error, inFunction, open, depth, expected, metaBlocks, labelChecks>>
  BY <1>1, <1>5, <1>6 DEF Leave
<1>9. Schedules(metaBlocks', {})
  <2>1. Schedules(metaBlocks, {})
    BY ExtendsItself DEF Schedules, InTheBody
  <2> QED
    BY <1>8, <2>1
<1>10. BehindStep(op, <<>>, c)
  BY <1>1, <1>2, <1>3, <1>5, <1>6, <1>7, <1>8, <1>9 DEF BehindStep
<1> QED
  BY <1>1, <1>5, <1>6, <1>10

\* The metablock of a call is new.
LEMMA MetaScheduled ==
  ASSUME InTheBody, NEW callees \in SUBSET Functions
  PROVE  LET more == Scheduled(callees) i == Len(metaBlocks) + 1 IN
         /\ Schedules(more, callees)
         /\ MetaName \in Names /\ i \in DOMAIN more
         /\ more[i].caller = Current.name /\ more[i].name = MetaName /\ more[i].nextBlock = Generated
<1>1. PICK metas \in Seq(MetaType) : metas = metaBlocks /\ MetasNamed(metas)
  BY DEF InTheBody
<1>2. PICK n \in Nat : n = Len(metas) /\ DOMAIN metas = 1 .. n
  BY <1>1
<1>3. MetaName = <<"meta", n>> /\ MetaName \in Names
  BY <1>1, <1>2, BlocksMade DEF MetaName
<1>4. PICK new \in MetaType : new = [name |-> MetaName, caller |-> Current.name, callees |-> callees,
                                     nextBlock |-> Generated]
  BY <1>3 DEF InTheBody, MetaType
<1>5. new.name = MetaName /\ new.caller = Current.name /\ new.callees = callees /\ new.nextBlock = Generated
  BY <1>4
<1>6. PICK more : more = Append(metas, new)
  OBVIOUS
<1>7. /\ more \in Seq(MetaType) /\ Len(more) = n + 1 /\ DOMAIN more = 1 .. (n + 1)
      /\ more[n + 1] = new /\ \A i \in 1 .. n : more[i] = metas[i]
  BY <1>2, <1>6
<1>8. \A i \in 1 .. (n + 1) : i \in 1 .. n \/ i = n + 1
  OBVIOUS
<1>9. MetasNamed(more)
  <2>1. \A i \in 1 .. n : more[i].name = <<"meta", i - 1>> /\ more[i].nextBlock[1] = "block"
    BY <1>1, <1>2, <1>7 DEF MetasNamed
  <2>2. more[n + 1].name = <<"meta", (n + 1) - 1>> /\ more[n + 1].nextBlock[1] = "block"
    <3>1. Generated[1] = "block"
      BY Zenon DEF InTheBody
    <3> QED
      BY <1>3, <1>5, <1>7, <3>1
  <2> QED
    BY <1>7, <1>8, <2>1, <2>2 DEF MetasNamed
<1>10. Extends(metas, more) /\ \A i \in DOMAIN more : i \in DOMAIN metas \/ more[i].caller = Current.name
  BY <1>2, <1>5, <1>7, <1>8 DEF Extends
<1>11. UNION {m.callees : m \in ToSet(more)} = (UNION {m.callees : m \in ToSet(metas)}) \cup callees
  <2>1. ToSet(more) = ToSet(metas) \cup {new}
    BY <1>2, <1>7, <1>8 DEF ToSet
  <2> QED
    BY <1>5, <2>1
<1>12. Scheduled(callees) = more
  BY <1>1, <1>4, <1>6 DEF Scheduled
<1>13. Schedules(more, callees)
  BY <1>1, <1>7, <1>9, <1>10, <1>11 DEF Schedules
<1>14. n + 1 \in DOMAIN more
  BY <1>7
<1> QED
  BY <1>1, <1>2, <1>3, <1>5, <1>7, <1>12, <1>13, <1>14

\* The call of a function, by name or by pointer, is such a call.
LEMMA CallSteps ==
  ASSUME InTheBody, BlockInv, NEW callees \in SUBSET Functions,
         callees = {} \/ \E f \in Functions : callees = {f}, Call(callees)
  PROVE  \E c : BehindStep("call", SetToSeq(callees), c)
<1>1. PICK b \in BlockType : b = OpenBlock
  BY DEF InTheBody
<1>2. PICK to : to = SetToSeq(callees) /\ to \in Seq(Functions) /\ ToSet(to) = callees
  BY CalleesAreSaid
<1>3. Says("call", to) /\ open /\ inFunction /\ phase = "program" /\ expected = None
  BY <1>2, OpenToCalls DEF Call
<1>4. b.children = {} /\ ~ b.returns
  BY <1>1, <1>3, OpenIsBare
<1>5. PICK e \in BlockType : /\ e = Emitted(b) /\ e.name = b.name /\ e.reachable = b.reachable
                             /\ e.children = {} /\ ~ e.returns /\ CodesOn(b.code, "call", Here, e.code)
  BY <1>4, EmittedIs DEF Emits
<1>6. PICK name \in Names : name = MetaName
  BY MetaScheduled
<1>7. PICK c \in BlockType : /\ c = [LeadingTo(e, {name}) EXCEPT !.calls = @ \cup callees]
                             /\ c.name = b.name /\ c.reachable = b.reachable
                             /\ c.children = {name} /\ ~ c.returns /\ c.code = e.code
  <2>1. PICK g \in BlockType : g = LeadingTo(e, {name}) /\ g.name = b.name /\ g.reachable = b.reachable
                               /\ g.children = {name} /\ ~ g.returns /\ g.code = e.code
    <3>1. LeadingTo(e, {name}) = [e EXCEPT !.children = {name}]
      BY <1>5 DEF LeadingTo
    <3>2. [e EXCEPT !.children = {name}] \in BlockType
      BY DEF BlockType
    <3> QED
      BY <1>5, <3>1, <3>2 DEF BlockType
  <2>2. PICK calls \in SUBSET Functions : calls = g.calls \cup callees
    BY DEF BlockType
  <2>3. [g EXCEPT !.calls = calls] \in BlockType
    BY DEF BlockType
  <2> QED
    BY <2>1, <2>2, <2>3 DEF BlockType
<1>8. [op |-> "call", to |-> to] \in SayType
  <2>1. to \in Seq(Labels \cup Functions) /\ "call" \in Kinds
    BY <1>2 DEF Kinds
  <2> QED
    BY <2>1 DEF SayType
<1>9. /\ functions' = WithBlocks(Append(Changed(c), NewBlock(Generated)))
      /\ metaBlocks' = Scheduled(callees)
      /\ UNCHANGED <<phase, error, inFunction, open, depth, expected, labelChecks>>
  BY <1>1, <1>5, <1>6, <1>7 DEF Call
<1>10. Schedules(metaBlocks', callees) /\ CallsBy(c, {Generated}, Current.name, metaBlocks')
  <2>1. PICK more : more = Scheduled(callees)
    OBVIOUS
  <2>2. PICK i : i \in DOMAIN more /\ more[i].caller = Current.name /\ more[i].name = name /\ more[i].nextBlock = Generated
    BY <1>6, <2>1, MetaScheduled
  <2>3. CallsBy(c, {Generated}, Current.name, more)
    BY <1>7, <2>2 DEF CallsBy
  <2> QED
    BY <1>9, <2>1, <2>3, MetaScheduled
<1>11. BehindStep("call", to, c)
  BY <1>1, <1>2, <1>3, <1>5, <1>7, <1>8, <1>9, <1>10 DEF BehindStep
<1> QED
  BY <1>2, <1>11

\* What BeginLabel makes of the blocks.
LEMMA LabelledBlocks ==
  ASSUME InTheBody, BlockInv, NEW l \in Labels, BeginLabel(l),
         NEW say \in SayType, say.op = "label", say.to = <<l>>
  PROVE  \E D \in Seq(BlockType) :
           /\ functions' = WithBlocks(D)
           /\ LabelPut(Current.blocks, Len(Current.blocks), say, l, D, open)
<1>1. PICK n \in Nat \ {0} : n = Len(Current.blocks)
  BY DEF InTheBody
<1>2. PICK B \in Seq(BlockType) : B = Current.blocks
  BY DEF InTheBody
<1>3. PICK b \in BlockType : b = OpenBlock /\ b = B[n]
  BY <1>1, <1>2 DEF InTheBody
<1>4. PICK name \in Names : name = Label(l)
  BY BlocksMade
<1>5. PICK new \in BlockType : new = NewBlock(name)
  BY BlocksMade
<1>6. \A m \in 1 .. n : B[m].name # name
  <2>1. \A m \in 1 .. n : B[m] \in ToSet(B)
    BY <1>1, <1>2 DEF ToSet
  <2>2. \A d \in ToSet(B) : d.name # name
    BY <1>2, <1>4 DEF BeginLabel, NamesIn
  <2> QED
    BY <2>1, <2>2
<1>7. CASE open
  <2>1. PICK c \in BlockType : /\ c = LeadingTo(b, {name}) /\ c.name = b.name /\ c.reachable = b.reachable
                               /\ c.children = b.children \cup {name} /\ c.returns = b.returns
                               /\ c.code = b.code
    <3>1. PICK kids \in SUBSET Names : kids = b.children \cup {name}
      BY DEF BlockType
    <3>2. LeadingTo(b, {name}) = [b EXCEPT !.children = kids]
      BY <3>1 DEF LeadingTo
    <3>3. [b EXCEPT !.children = kids] \in BlockType
      BY DEF BlockType
    <3> QED
      BY <3>1, <3>2, <3>3 DEF BlockType
  <2>2. PICK D : D = Append(Changed(c), new)
    OBVIOUS
  <2>3. /\ D \in Seq(BlockType) /\ Len(D) = n + 1 /\ (\A m \in 1 .. (n - 1) : D[m] = B[m])
        /\ D[n] = c /\ D[n + 1] = new
    <3>1. PICK C \in Seq(BlockType) :
            /\ C = Changed(c) /\ Len(C) = n /\ C[n] = c /\ \A m \in 1 .. (n - 1) : C[m] = B[m]
      BY <1>1, <1>2, PutBlock
    <3>2. D = Append(C, new)
      BY <2>2, <3>1
    <3>3. D \in Seq(BlockType) /\ Len(D) = n + 1 /\ D[n + 1] = new /\ \A m \in 1 .. n : D[m] = C[m]
      BY <3>1, <3>2
    <3> QED
      BY <3>1, <3>3
  <2>4. functions' = WithBlocks(D)
    BY <1>3, <1>4, <1>5, <1>7, <2>1, <2>2 DEF BeginLabel
  <2>5. LabelPut(B, n, say, l, D, open)
    BY <1>3, <1>4, <1>5, <1>6, <1>7, <2>1, <2>3 DEF LabelPut
  <2> QED
    BY <1>1, <1>2, <2>3, <2>4, <2>5
<1>8. CASE ~ open
  <2>1. PICK D : D = Append(B, new)
    OBVIOUS
  <2>2. D \in Seq(BlockType) /\ Len(D) = n + 1 /\ (\A m \in 1 .. n : D[m] = B[m]) /\ D[n + 1] = new
    BY <1>1, <1>2, <2>1
  <2>3. D[n] = b /\ \A m \in 1 .. (n - 1) : D[m] = B[m]
    BY <1>3, <2>2
  <2>4. functions' = WithBlocks(D)
    BY <1>2, <1>4, <1>5, <1>8, <2>1 DEF BeginLabel
  <2>5. LabelPut(B, n, say, l, D, open)
    BY <1>4, <1>5, <1>6, <1>8, <2>2, <2>3 DEF LabelPut
  <2> QED
    BY <1>1, <1>2, <2>2, <2>4, <2>5
<1> QED
  BY <1>7, <1>8

\* A label is a step of the body, whether it finds a block open or a jump has just ended it.
LEMMA LabelSteps ==
  ASSUME InTheBody, BlockInv, NEW l \in Labels, BeginLabel(l)
  PROVE  \E D, say : BodyStep(D, say)
<1>1. PICK say \in SayType : say = [op |-> "label", to |-> <<l>>] /\ say.op = "label" /\ say.to = <<l>>
  <2>1. PICK to \in Seq(Labels \cup Functions) : to = <<l>>
    <3>1. PICK z \in Labels \cup Functions : z = l
      OBVIOUS
    <3>2. <<z>> \in Seq(Labels \cup Functions)
      OBVIOUS
    <3> QED
      BY <3>1, <3>2
  <2>2. [op |-> "label", to |-> to] \in SayType
    BY DEF SayType, Kinds
  <2> QED
    BY <2>1, <2>2
<1>2. PICK D \in Seq(BlockType) :
        functions' = WithBlocks(D) /\ LabelPut(Current.blocks, Len(Current.blocks), say, l, D, open)
  BY <1>1, LabelledBlocks
<1>3. PICK n \in Nat \ {0} : n = Len(Current.blocks)
  BY DEF InTheBody
<1>4. PICK B \in Seq(BlockType) : B = Current.blocks /\ DOMAIN B = 1 .. n
  BY <1>3 DEF InTheBody
<1>5. PICK T \in Seq(SayType) : T = text[Len(text)]
  BY DEF InTheBody
<1>6. PICK owner : owner = Current.name
  OBVIOUS
<1>7. PICK live : live = open
  OBVIOUS
<1>8. LabelPut(B, n, say, l, D, live) /\ Told(B, T, owner, metaBlocks, live)
  BY <1>2, <1>3, <1>4, <1>5, <1>6, <1>7 DEF InTheBody
<1>9. Told(D, Append(T, say), owner, metaBlocks, TRUE)
  BY <1>3, <1>4, <1>8, ToldLabel
<1>10. /\ phase = "program" /\ inFunction /\ text' = [text EXCEPT ![Len(text)] = Append(@, say)]
       /\ open' = TRUE /\ UNCHANGED <<phase, error, inFunction, depth, metaBlocks, labelChecks>>
  BY <1>1 DEF BeginLabel, Says
<1>11. Told(D, Append(text[Len(text)], say), Current.name, metaBlocks', open')
  BY <1>5, <1>6, <1>9, <1>10
<1>12. /\ metaBlocks' \in Seq(MetaType) /\ MetasNamed(metaBlocks') /\ Extends(metaBlocks, metaBlocks')
       /\ \A i \in DOMAIN metaBlocks' : i \in DOMAIN metaBlocks
  BY <1>10, ExtendsItself DEF InTheBody
<1>13. \A i \in DOMAIN D : D[i].name[1] = "block" => \E j \in DOMAIN B : D[i].name = B[j].name
  <2>1. /\ Len(D) = n + 1 /\ \A m \in 1 .. (n - 1) : D[m] = B[m]
        /\ D[n].name = B[n].name /\ D[n + 1] = NewBlock(Label(l))
    BY <1>8 DEF LabelPut
  <2>2. D[n + 1].name[1] = "label"
    BY <2>1 DEF NewBlock, Label
  <2>3. DOMAIN D = 1 .. (n + 1)
    BY <2>1
  <2>4. \A i \in 1 .. (n + 1) : i = n + 1 \/ i = n \/ i \in 1 .. (n - 1)
    OBVIOUS
  <2>5. \A i \in 1 .. (n - 1) : i \in 1 .. n /\ D[i].name = B[i].name
    BY <2>1
  <2>6. n \in 1 .. n
    OBVIOUS
  <2> QED
    BY <1>4, <2>1, <2>2, <2>3, <2>4, <2>5, <2>6
<1>14. Len(D) = Len(Current.blocks) + 1
  BY <1>2 DEF LabelPut
<1>15. say.op # "call" /\ say.op \notin Jumps
  BY <1>1 DEF Jumps
<1>16. UNION {m.callees : m \in ToSet(metaBlocks')}
         = (UNION {m.callees : m \in ToSet(metaBlocks)}) \cup (IF say.op = "call" THEN ToSet(say.to) ELSE {})
  BY <1>10, <1>15
<1>17. labelChecks' = labelChecks \cup
         (IF say.op \in Jumps THEN {<<Current.name, Label(m)>> : m \in ToSet(say.to)} ELSE {})
  BY <1>10, <1>15
<1>18. BodyStep(D, say)
  BY <1>1, <1>2, <1>4, <1>10, <1>11, <1>12, <1>13, <1>14, <1>16, <1>17 DEF BodyStep
<1> QED
  BY <1>18

\* Every call in a body is such a step.
LEMMA BodySteps ==
  ASSUME InTheBody, BlockInv, BodyCall
  PROVE  \E D, say : BodyStep(D, say)
<1>1. CASE Work
  BY <1>1, WorkSteps, SameSteps
<1>2. ASSUME NEW l \in Labels, BeginLabel(l) PROVE \E D, say : BodyStep(D, say)
  BY <1>2, LabelSteps
<1>3. ASSUME NEW op \in Jumps, NEW to \in Seq(Labels), Says(op, to), ExpectLabel,
             LeaveFor(Targets([op |-> op, to |-> to]), ToSet(to)),
             Targets([op |-> op, to |-> to]) \in SUBSET Labels
      PROVE  \E D, say : BodyStep(D, say)
  BY <1>3, JumpSteps, SameSteps
<1>4. ASSUME NEW l \in Labels, Jump(l) PROVE \E D, say : BodyStep(D, say)
  <2>1. PICK to \in Seq(Labels) : to = <<l>> /\ ToSet(to) = {l} /\ to[1] = l
    <3>1. <<l>> \in Seq(Labels) /\ ToSet(<<l>>) = {l}
      BY DEF ToSet
    <3> QED
      BY <3>1
  <2>2. PICK op \in Jumps : op = "jump"
    BY DEF Jumps
  <2>3. Targets([op |-> op, to |-> to]) = {l}
    BY <2>1, <2>2 DEF Targets
  <2> QED
    BY <1>3, <1>4, <2>1, <2>2, <2>3 DEF Jump
<1>5. ASSUME NEW l \in Labels, NEW k \in Labels, JumpIf(l, k) \/ JumpIfLiteral(l, k)
      PROVE  \E D, say : BodyStep(D, say)
  <2>1. PICK to \in Seq(Labels) : to = <<l, k>> /\ ToSet(to) = {l, k} /\ to[1] = l /\ to[2] = k
    <3>1. PICK to : to = <<l, k>>
      OBVIOUS
    <3>2. to \in Seq(Labels) /\ DOMAIN to = {1, 2} /\ to[1] = l /\ to[2] = k
      BY <3>1
    <3>3. ToSet(to) = {l, k}
      BY <3>2 DEF ToSet
    <3> QED
      BY <3>1, <3>2, <3>3
  <2>2. CASE JumpIf(l, k)
    <3>1. PICK op \in Jumps : op = "jumpIf"
      BY DEF Jumps
    <3>2. Targets([op |-> op, to |-> to]) = {l, k}
      BY <2>1, <3>1 DEF Targets
    <3> QED
      BY <1>3, <2>1, <2>2, <3>1, <3>2 DEF JumpIf
  <2>3. CASE JumpIfLiteral(l, k)
    <3>1. PICK op \in Jumps : op = "jumpIf literal"
      BY DEF Jumps
    <3>2. Targets([op |-> op, to |-> to]) = {l}
      BY <2>1, <3>1 DEF Targets
    <3> QED
      BY <1>3, <2>1, <2>3, <3>1, <3>2 DEF JumpIfLiteral
  <2> QED
    BY <1>5, <2>2, <2>3
<1>6. ASSUME NEW callees \in SUBSET Functions, callees = {} \/ \E f \in Functions : callees = {f}, Call(callees)
      PROVE  \E D, say : BodyStep(D, say)
  BY <1>6, CallSteps, BehindSteps
<1>7. ASSUME NEW op \in {"return", "abort"}, Leave(op) PROVE \E D, say : BodyStep(D, say)
  BY <1>7, LeaveSteps, BehindSteps
<1>8. CASE Unreachable
  BY <1>8, UnreachableSteps, SameSteps
<1>9. CASE BeginScope \/ EndScope
  BY <1>9, ScopeSteps, SameSteps
<1> QED
  BY <1>1, <1>2, <1>4, <1>5, <1>6, <1>7, <1>8, <1>9 DEF BodyCall

\* A program begins with nothing.
LEMMA ProgramBegins ==
  ASSUME Typed, BlockInv, BeginProgram
  PROVE  Typed' /\ InProgram'
<1>1. functions' = <<>> /\ text' = <<>> /\ metaBlocks' = <<>> /\ labelChecks' = {} /\ ~ inFunction'
  BY DEF BeginProgram, BlockInv, Awaited, NothingDeferred
<1>2. <<>> \in Seq(FunctionType) /\ <<>> \in Seq(Seq(SayType)) /\ <<>> \in Seq(MetaType)
      /\ DOMAIN <<>> = {} /\ Len(<<>>) = 0 /\ 1 .. 0 = {}
  OBVIOUS
<1>3. ToSet(<<>>) = {}
  BY <1>2 DEF ToSet
<1>4. Typed'
  BY <1>1, <1>2 DEF Typed
<1>5. Paired' /\ BlocksTell' /\ Numbered'
  BY <1>1, <1>2 DEF Paired, BlocksTell, Numbered
<1>6. MetasKnown'
  <2>1. MetasNamed(<<>>)
    BY <1>2 DEF MetasNamed
  <2> QED
    BY <1>1, <1>2, <2>1 DEF MetasKnown
<1>7. CallsNoted' /\ LabelsNoted'
  BY <1>1, <1>2, <1>3 DEF CallsNoted, LabelsNoted
<1> QED
  BY <1>4, <1>5, <1>6, <1>7 DEF InProgram

\* A function ends with its last block open: only a label could have ended it otherwise.
LEMMA FunctionEnds ==
  ASSUME Typed, InProgram, BlockInv, EndFunction
  PROVE  Typed' /\ InProgram'
<1>1. open /\ inFunction
  BY DEF EndFunction, BlockInv, EmitsIntoABlock, None
<1>2. UNCHANGED <<functions, metaBlocks, labelChecks, text>> /\ inFunction' = FALSE
  BY DEF EndFunction
<1>3. Typed'
  BY <1>2 DEF Typed
<1>4. Paired' /\ Numbered' /\ MetasKnown' /\ CallsNoted' /\ LabelsNoted'
  <2>1. Paired'
    BY <1>2 DEF InProgram, Paired
  <2>2. Numbered'
    BY <1>2 DEF InProgram, Numbered
  <2>3. MetasKnown'
    <3>1. PICK metas : metas = metaBlocks /\ metas = metaBlocks'
      BY <1>2
    <3>2. MetasNamed(metas) /\ \A i \in DOMAIN metas : \E k \in DOMAIN functions : functions[k].name = metas[i].caller
      BY <3>1 DEF InProgram, MetasKnown, IsDefined
    <3> QED
      BY <1>2, <3>1, <3>2 DEF MetasKnown, IsDefined
  <2>4. CallsNoted' /\ LabelsNoted'
    BY <1>2 DEF InProgram, CallsNoted, LabelsNoted
  <2> QED
    BY <2>1, <2>2, <2>3, <2>4
<1>5. BlocksTell'
  <2>1. ASSUME NEW k \in DOMAIN functions
        PROVE  Told(functions[k].blocks, text[k], functions[k].name, metaBlocks, Going(k)')
    <3>1. Told(functions[k].blocks, text[k], functions[k].name, metaBlocks, Going(k))
      BY DEF InProgram, BlocksTell
    <3>2. Going(k) /\ Going(k)'
      BY <1>1, <1>2 DEF Going
    <3> QED
      BY <3>1, <3>2 DEF Told
  <2> QED
    BY <1>2, <2>1 DEF BlocksTell
<1> QED
  BY <1>3, <1>4, <1>5 DEF InProgram

\* A function more, with a block that has the name that was not taken.
LEMMA FunctionBegins ==
  ASSUME Typed, InProgram, NEW f \in Functions, BeginFunction(f)
  PROVE  Typed' /\ InProgram'
<1>1. PICK n \in Nat : n = Len(functions) /\ DOMAIN functions = 1 .. n
  BY DEF Typed
<1>2. functions \in Seq(FunctionType) /\ text \in Seq(Seq(SayType)) /\ Len(text) = n /\ DOMAIN text = 1 .. n
  BY <1>1 DEF Typed, InProgram, Paired
<1>3. PICK c \in Nat : c = Count(functions)
  BY <1>2, NumbersFinite, FS_CardinalityType DEF Count
<1>4. PICK name \in Names : name = Generated /\ name[1] = "block" /\ name[2] = c
  BY <1>3, GeneratedCounts DEF Names
<1>5. PICK b \in BlockType : b = NewBlock(name) /\ b.name = name
  BY <1>4, BlocksMade
<1>6. PICK D \in Seq(BlockType) : D = <<b>> /\ Len(D) = 1 /\ D[1] = b /\ DOMAIN D = {1}
  <2>1. <<b>> \in Seq(BlockType) /\ Len(<<b>>) = 1 /\ <<b>>[1] = b /\ DOMAIN <<b>> = {1}
    OBVIOUS
  <2> QED
    BY <2>1
<1>7. PICK fn \in FunctionType : fn = [name |-> f, blocks |-> D] /\ fn.name = f /\ fn.blocks = D
  <2>1. PICK g : g = [name |-> f, blocks |-> D]
    OBVIOUS
  <2>2. g \in FunctionType /\ g.name = f /\ g.blocks = D
    BY <2>1 DEF FunctionType
  <2> QED
    BY <2>1, <2>2
<1>8. /\ functions' = Append(functions, fn) /\ text' = Append(text, <<>>)
      /\ inFunction' = TRUE /\ open' = TRUE /\ ~ inFunction
      /\ metaBlocks' = metaBlocks /\ labelChecks' = labelChecks /\ ~ IsDefined(f)
  BY <1>4, <1>5, <1>6, <1>7 DEF BeginFunction
<1>9. PICK fs \in Seq(FunctionType) :
        /\ fs = functions' /\ Len(fs) = n + 1 /\ DOMAIN fs = 1 .. (n + 1) /\ fs[n + 1] = fn
        /\ \A k \in 1 .. n : fs[k] = functions[k]
  <2>1. PICK gs : gs = Append(functions, fn)
    OBVIOUS
  <2>2. /\ gs \in Seq(FunctionType) /\ Len(gs) = n + 1 /\ DOMAIN gs = 1 .. (n + 1) /\ gs[n + 1] = fn
        /\ \A k \in 1 .. n : gs[k] = functions[k]
    BY <1>1, <1>2, <2>1
  <2> QED
    BY <1>8, <2>1, <2>2
<1>10. PICK said \in Seq(Seq(SayType)) :
        /\ said = text' /\ Len(said) = n + 1 /\ DOMAIN said = 1 .. (n + 1) /\ said[n + 1] = <<>>
        /\ \A k \in 1 .. n : said[k] = text[k]
  <2>1. PICK none : none = <<>> /\ none \in Seq(SayType)
    <3>1. <<>> \in Seq(SayType)
      OBVIOUS
    <3> QED
      BY <3>1
  <2>2. PICK more : more = Append(text, none)
    OBVIOUS
  <2>3. /\ more \in Seq(Seq(SayType)) /\ Len(more) = n + 1 /\ DOMAIN more = 1 .. (n + 1)
        /\ more[n + 1] = none /\ \A k \in 1 .. n : more[k] = text[k]
    BY <1>2, <2>1, <2>2
  <2> QED
    BY <1>8, <2>1, <2>2, <2>3
<1>11. \A k \in 1 .. (n + 1) : k = n + 1 \/ (k \in 1 .. n /\ k # n + 1)
  OBVIOUS
<1>12. Typed'
  BY <1>8, <1>9, <1>10 DEF Typed
<1>13. Paired'
  <2>1. \A k \in 1 .. n : functions[k].name # f
    BY <1>1, <1>8 DEF IsDefined
  <2>2. \A j, k \in 1 .. (n + 1) : fs[j].name = fs[k].name => j = k
    <3>1. \A j, k \in 1 .. n : functions[j].name = functions[k].name => j = k
      BY <1>1 DEF InProgram, Paired
    <3>2. \A k \in 1 .. n : fs[k].name = functions[k].name
      BY <1>9
    <3>3. fs[n + 1].name = f
      BY <1>7, <1>9
    <3> QED
      BY <1>11, <2>1, <3>1, <3>2, <3>3
  <2>3. \A k \in 1 .. (n + 1) : fs[k].blocks # <<>>
    <3>1. D # <<>>
      BY <1>6
    <3> QED
      BY <1>1, <1>7, <1>9, <1>11, <3>1 DEF InProgram, Paired
  <2>4. fs # <<>>
    BY <1>9
  <2> QED
    BY <1>9, <1>10, <2>2, <2>3, <2>4 DEF Paired
<1>14. BlocksTell'
  <2>1. ASSUME NEW k \in 1 .. n
        PROVE  Told(fs[k].blocks, said[k], fs[k].name, metaBlocks, Going(k)')
    <3>1. Told(functions[k].blocks, text[k], functions[k].name, metaBlocks, Going(k))
      BY <1>1 DEF InProgram, BlocksTell
    <3>2. Going(k) /\ Going(k)'
      BY <1>1, <1>8, <1>9 DEF Going
    <3>3. Told(fs[k].blocks, said[k], fs[k].name, metaBlocks, Going(k))
      BY <1>9, <1>10, <3>1
    <3> QED
      BY <3>2, <3>3 DEF Told
  <2>2. Told(fs[n + 1].blocks, said[n + 1], fs[n + 1].name, metaBlocks, Going(n + 1)')
    <3>1. PICK metas : metas = metaBlocks
      OBVIOUS
    <3>2. Told(<<NewBlock(name)>>, <<>>, f, metas, TRUE)
      BY <1>4, ToldAfresh
    <3>3. Going(n + 1)'
      BY <1>8 DEF Going
    <3>4. Told(D, <<>>, f, metas, Going(n + 1)')
      BY <1>5, <1>6, <3>2, <3>3 DEF Told
    <3> QED
      BY <1>7, <1>9, <1>10, <3>1, <3>4
  <2>3. \A k \in 1 .. (n + 1) : Told(fs[k].blocks, said[k], fs[k].name, metaBlocks, Going(k)')
    BY <1>11, <2>1, <2>2
  <2> QED
    BY <1>8, <1>9, <1>10, <2>3 DEF BlocksTell
<1>15. Numbered'
  <2>1. Count(fs) = c + 1
    <3>1. \A k, i : /\ <<k, i>> \in Numbers(fs) <=> k \in DOMAIN fs /\ i \in DOMAIN fs[k].blocks
                    /\ <<k, i>> \in Numbers(functions) <=> k \in DOMAIN functions /\ i \in DOMAIN functions[k].blocks
      BY DEF Numbers
    <3>2. <<n + 1, 1>> \notin Numbers(functions)
      BY <1>1, <3>1
    <3>3. Numbers(fs) = Numbers(functions) \cup {<<n + 1, 1>>}
      <4>1. \A e \in Numbers(fs) : e = <<e[1], e[2]>>
        BY DEF Numbers
      <4>2. \A e \in Numbers(functions) : e = <<e[1], e[2]>>
        BY DEF Numbers
      <4>3. \A k, i : <<k, i>> \in Numbers(fs) <=> <<k, i>> \in Numbers(functions) \/ (k = n + 1 /\ i = 1)
        <5>1. ASSUME NEW k, NEW i, k \in 1 .. n
              PROVE  <<k, i>> \in Numbers(fs) <=> <<k, i>> \in Numbers(functions) \/ (k = n + 1 /\ i = 1)
          <6>1. fs[k] = functions[k] /\ k \in DOMAIN fs /\ k \in DOMAIN functions /\ k # n + 1
            BY <1>1, <1>9, <1>11, <5>1
          <6> QED
            BY <3>1, <6>1
        <5>2. \A i : <<n + 1, i>> \in Numbers(fs) <=> i = 1
          <6>1. n + 1 \in DOMAIN fs /\ DOMAIN fs[n + 1].blocks = {1}
            BY <1>6, <1>7, <1>9
          <6> QED
            BY <3>1, <6>1
        <5>3. \A i : <<n + 1, i>> \notin Numbers(functions)
          BY <1>1, <3>1
        <5>4. ASSUME NEW k, NEW i, k \notin 1 .. (n + 1)
              PROVE  <<k, i>> \notin Numbers(fs) /\ <<k, i>> \notin Numbers(functions) /\ k # n + 1
          BY <1>1, <1>9, <3>1, <5>4
        <5> QED
          BY <1>11, <5>1, <5>2, <5>3, <5>4
      <4>4. \A e \in Numbers(fs) : e \in Numbers(functions) \/ e = <<n + 1, 1>>
        BY <4>1, <4>3
      <4>5. \A e \in Numbers(functions) : e \in Numbers(fs)
        BY <4>2, <4>3
      <4>6. <<n + 1, 1>> \in Numbers(fs)
        BY <4>3
      <4> QED
        BY <4>4, <4>5, <4>6
    <3> QED
      BY <1>2, <1>3, <3>2, <3>3, CountGrows
  <2>2. ASSUME NEW k \in 1 .. n, NEW i \in DOMAIN functions[k].blocks, functions[k].blocks[i].name[1] = "block"
        PROVE  functions[k].blocks[i].name[2] < c + 1
    <3>1. functions[k].blocks[i].name[2] < c
      BY <1>1, <1>3, <2>2 DEF InProgram, Numbered
    <3>2. functions[k] \in FunctionType
      BY <1>1, <1>2
    <3>3. functions[k].blocks \in Seq(BlockType)
      BY <3>2 DEF FunctionType
    <3>4. functions[k].blocks[i] \in BlockType
      BY <3>3
    <3>5. PICK x : x = functions[k].blocks[i].name
      OBVIOUS
    <3>6. x \in Names /\ x[1] = "block"
      BY <2>2, <3>4, <3>5 DEF BlockType
    <3>7. x[2] \in Nat
      BY <3>6 DEF Names
    <3> QED
      BY <3>1, <3>5, <3>7
  <2>3. D[1].name[2] < c + 1
    BY <1>4, <1>5, <1>6
  <2>4. \A k \in 1 .. (n + 1) : \A i \in DOMAIN fs[k].blocks :
          fs[k].blocks[i].name[1] = "block" => fs[k].blocks[i].name[2] < c + 1
    <3>1. ASSUME NEW i \in DOMAIN fs[n + 1].blocks PROVE fs[n + 1].blocks[i].name[2] < c + 1
      <4>1. fs[n + 1].blocks = D
        BY <1>7, <1>9
      <4>2. i = 1
        BY <1>6, <4>1
      <4> QED
        BY <2>3, <4>1, <4>2
    <3>2. \A k \in 1 .. n : fs[k] = functions[k]
      BY <1>9
    <3> QED
      BY <1>11, <2>2, <3>1, <3>2
  <2> QED
    BY <1>9, <2>1, <2>4 DEF Numbered
<1>16. MetasKnown'
  <2>1. PICK metas : metas = metaBlocks /\ metas = metaBlocks'
    BY <1>8
  <2>2. MetasNamed(metas) /\ \A i \in DOMAIN metas : \E k \in 1 .. n : functions[k].name = metas[i].caller
    BY <1>1, <2>1 DEF InProgram, MetasKnown, IsDefined
  <2>3. \A k \in 1 .. n : k \in 1 .. (n + 1)
    OBVIOUS
  <2>4. \A i \in DOMAIN metas : \E k \in 1 .. (n + 1) : fs[k].name = metas[i].caller
    BY <1>9, <2>2, <2>3
  <2> QED
    BY <1>9, <2>1, <2>2, <2>4 DEF MetasKnown, IsDefined
<1>17. Called(<<>>) = {} /\ Mentioned(<<>>) = {}
  BY DEF Called, Mentioned, Ops
<1>18. CallsNoted'
  <2>1. UNION {m.callees : m \in ToSet(metaBlocks)} = UNION {Called(text[k]) : k \in 1 .. n}
    BY <1>2 DEF InProgram, CallsNoted
  <2>2. (UNION {Called(text[k]) : k \in 1 .. n}) = UNION {Called(said[k]) : k \in 1 .. (n + 1)}
    <3>1. \A k \in 1 .. n : k \in 1 .. (n + 1) /\ Called(said[k]) = Called(text[k])
      BY <1>10
    <3>2. Called(said[n + 1]) = {}
      BY <1>10, <1>17
    <3> QED
      BY <1>11, <3>1, <3>2
  <2> QED
    BY <1>8, <1>10, <2>1, <2>2 DEF CallsNoted
<1>19. LabelsNoted'
  <2> DEFINE G(k) == {<<functions[k].name, Label(l)>> : l \in Mentioned(text[k])}
             H(k) == {<<fs[k].name, Label(l)>> : l \in Mentioned(said[k])}
  <2>1. \A k \in 1 .. n : k \in 1 .. (n + 1) /\ H(k) = G(k)
    BY <1>9, <1>10
  <2>2. H(n + 1) = {}
    BY <1>10, <1>17
  <2>3. labelChecks = UNION {G(k) : k \in 1 .. n}
    BY <1>1 DEF InProgram, LabelsNoted
  <2> HIDE DEF G, H
  <2>4. labelChecks = UNION {H(k) : k \in 1 .. (n + 1)}
    BY <1>11, <2>1, <2>2, <2>3
  <2> QED
    BY <1>8, <1>9, <1>10, <2>4 DEF H, LabelsNoted
<1> QED
  BY <1>12, <1>13, <1>14, <1>15, <1>16, <1>18, <1>19 DEF InProgram

\* The blocks C are the blocks B and the first n metablocks, those of the function.
CompletesTo(B, owner, metas, n, C) ==
  /\ Len(C) >= Len(B)
  /\ \A m \in 1 .. Len(B) : C[m] = B[m]
  /\ \A k \in 1 .. Len(C) :
       k > Len(B) => \E i \in 1 .. n : metas[i].caller = owner /\ C[k] = Built(metas[i])
  /\ \A i \in 1 .. n :
       metas[i].caller = owner => \E k \in 1 .. Len(C) : k > Len(B) /\ C[k] = Built(metas[i])

\* One metablock more is added to its own function, and to no other.
LEMMA CompletesMore ==
  ASSUME NEW S, NEW B \in Seq(S), NEW C \in Seq(S), NEW owner, NEW metas, NEW n \in Nat,
         CompletesTo(B, owner, metas, n, C), NEW z, z = n + 1,
         NEW D \in Seq(S), metas[z].caller = owner => D = Append(C, Built(metas[z])) /\ Built(metas[z]) \in S,
         metas[z].caller # owner => D = C
  PROVE  CompletesTo(B, owner, metas, z, D)
<1>1. PICK b \in Nat : b = Len(B)
  OBVIOUS
<1>2. PICK c \in Nat : c = Len(C) /\ b <= c
  BY <1>1 DEF CompletesTo
<1>3. \A i \in 1 .. z : i \in 1 .. n \/ i = z
  OBVIOUS
<1>4. \A i \in 1 .. n : i \in 1 .. z
  OBVIOUS
<1>5. CASE metas[z].caller = owner
  <2>1. PICK new \in S : new = Built(metas[z]) /\ D = Append(C, new)
    BY <1>5
  <2>2. Len(D) = c + 1 /\ D[c + 1] = new /\ \A k \in 1 .. c : D[k] = C[k]
    BY <1>2, <2>1
  <2>3. \A k \in 1 .. (c + 1) : k \in 1 .. c \/ k = c + 1
    OBVIOUS
  <2>4. c + 1 \in 1 .. (c + 1) /\ c + 1 > b /\ z \in 1 .. z /\ \A k \in 1 .. c : k \in 1 .. (c + 1)
    BY <1>2
  <2>5. \A m \in 1 .. b : m \in 1 .. c /\ D[m] = B[m]
    BY <1>1, <1>2, <2>2 DEF CompletesTo
  <2>6. \A k \in 1 .. (c + 1) : k > b => \E i \in 1 .. z : metas[i].caller = owner /\ D[k] = Built(metas[i])
    <3>1. ASSUME NEW k \in 1 .. c, k > b PROVE \E i \in 1 .. z : metas[i].caller = owner /\ D[k] = Built(metas[i])
      <4>1. PICK i \in 1 .. n : metas[i].caller = owner /\ C[k] = Built(metas[i])
        BY <1>1, <1>2, <3>1 DEF CompletesTo
      <4> QED
        BY <1>4, <2>2, <3>1, <4>1
    <3>2. metas[z].caller = owner /\ D[c + 1] = Built(metas[z])
      BY <1>5, <2>1, <2>2
    <3> QED
      BY <2>3, <2>4, <3>1, <3>2
  <2>7. \A i \in 1 .. z : metas[i].caller = owner => \E k \in 1 .. (c + 1) : k > b /\ D[k] = Built(metas[i])
    <3>1. ASSUME NEW i \in 1 .. n, metas[i].caller = owner
          PROVE  \E k \in 1 .. (c + 1) : k > b /\ D[k] = Built(metas[i])
      <4>1. PICK k \in 1 .. c : k > b /\ C[k] = Built(metas[i])
        BY <1>1, <1>2, <3>1 DEF CompletesTo
      <4> QED
        BY <2>2, <2>4, <4>1
    <3>2. D[c + 1] = Built(metas[z])
      BY <2>1, <2>2
    <3> QED
      BY <1>3, <2>4, <3>1, <3>2
  <2>8. Len(D) >= Len(B) /\ \A m \in 1 .. Len(B) : D[m] = B[m]
    BY <1>1, <1>2, <2>2, <2>5
  <2>9. /\ \A k \in 1 .. Len(D) :
             k > Len(B) => \E i \in 1 .. z : metas[i].caller = owner /\ D[k] = Built(metas[i])
        /\ \A i \in 1 .. z :
             metas[i].caller = owner => \E k \in 1 .. Len(D) : k > Len(B) /\ D[k] = Built(metas[i])
    BY <1>1, <2>2, <2>6, <2>7
  <2> QED
    BY <2>8, <2>9 DEF CompletesTo
<1>6. CASE metas[z].caller # owner
  <2>1. D = C
    BY <1>6
  <2>2. \A k \in 1 .. c : k > b => \E i \in 1 .. z : metas[i].caller = owner /\ C[k] = Built(metas[i])
    BY <1>1, <1>2, <1>4 DEF CompletesTo
  <2>3. \A i \in 1 .. z : metas[i].caller = owner => \E k \in 1 .. c : k > b /\ C[k] = Built(metas[i])
    BY <1>1, <1>2, <1>3, <1>6 DEF CompletesTo
  <2> QED
    BY <1>1, <1>2, <2>1, <2>2, <2>3 DEF CompletesTo
<1> QED
  BY <1>5, <1>6

\* The function that a metablock was scheduled in.
LEMMA CallerIs ==
  ASSUME Paired, MetasKnown, NEW i \in DOMAIN metaBlocks
  PROVE  /\ Caller(metaBlocks[i]) \in DOMAIN functions
         /\ functions[Caller(metaBlocks[i])].name = metaBlocks[i].caller
<1>1. PICK owner : owner = metaBlocks[i].caller
  OBVIOUS
<1>2. \E k \in DOMAIN functions : functions[k].name = owner
  BY <1>1 DEF MetasKnown, IsDefined
<1>3. Caller(metaBlocks[i]) = CHOOSE k \in DOMAIN functions : functions[k].name = owner
  BY <1>1 DEF Caller
<1> QED
  BY <1>1, <1>2, <1>3

\* A metablock becomes a block of that function.
PutMeta(fs, m) == [fs EXCEPT ![Caller(m)].blocks = Append(@, Built(m))]

\* The metablock becomes the last block of its caller and leaves the other functions alone.
LEMMA MetaIsPut ==
  ASSUME NEW n \in Nat, NEW fs \in [1 .. n -> FunctionType], NEW m \in MetaType, Caller(m) \in 1 .. n
  PROVE  /\ PutMeta(fs, m) \in [1 .. n -> FunctionType] /\ Built(m) \in BlockType
         /\ \A k \in 1 .. n : /\ PutMeta(fs, m)[k].name = fs[k].name
                              /\ k = Caller(m) => PutMeta(fs, m)[k].blocks = Append(fs[k].blocks, Built(m))
                              /\ k # Caller(m) => PutMeta(fs, m)[k].blocks = fs[k].blocks
<1>1. PICK c \in 1 .. n : c = Caller(m)
  OBVIOUS
<1>2. PICK b \in BlockType : b = Built(m)
  <2>1. m.name \in Names /\ m.nextBlock \in Names
    BY DEF MetaType
  <2>2. PICK new \in BlockType : new = NewBlock(m.name)
    BY <2>1, BlocksMade
  <2>3. PICK kids \in SUBSET Names : kids = new.children \cup {m.nextBlock}
    BY <2>1 DEF BlockType
  <2>4. [new EXCEPT !.children = kids] \in BlockType
    BY DEF BlockType
  <2>5. Built(m) = [new EXCEPT !.children = kids]
    BY <2>2, <2>3 DEF Built, LeadingTo
  <2> QED
    BY <2>4, <2>5
<1>3. PICK fn : fn = [fs[c] EXCEPT !.blocks = Append(@, b)]
  OBVIOUS
<1>4. fn \in FunctionType /\ fn.name = fs[c].name /\ fn.blocks = Append(fs[c].blocks, b)
  <2>1. PICK g \in FunctionType : g = fs[c]
    OBVIOUS
  <2>2. PICK B \in Seq(BlockType) : B = g.blocks
    BY DEF FunctionType
  <2>3. Append(B, b) \in Seq(BlockType)
    OBVIOUS
  <2>4. fn = [g EXCEPT !.blocks = Append(B, b)]
    BY <1>3, <2>1, <2>2
  <2> QED
    BY <2>1, <2>2, <2>3, <2>4 DEF FunctionType
<1>5. PutMeta(fs, m) = [fs EXCEPT ![c] = fn]
  BY <1>1, <1>2, <1>3 DEF PutMeta
<1> QED
  BY <1>1, <1>2, <1>4, <1>5

\* The recursive function of Completed exists, and is what it says.
InMetas(n) ==
  LET more == Len(metaBlocks) IN
  \E g \in [0 .. more -> [1 .. n -> FunctionType]] :
    /\ Completed = g[more] /\ g[0] = functions
    /\ \A i \in 1 .. more : g[i] = PutMeta(g[i - 1], metaBlocks[i])

\* constructMetaBlocks goes through the metablocks one by one, from the functions as they were.
LEMMA CompletedSteps ==
  ASSUME Typed, Paired, MetasKnown, NEW n, n = Len(functions)
  PROVE  InMetas(n)
<1>1. PICK N \in Nat : N = Len(metaBlocks) /\ DOMAIN metaBlocks = 1 .. N
  BY DEF Typed
<1>2. n \in Nat /\ DOMAIN functions = 1 .. n
  BY DEF Typed
<1>3. PICK D : D = [1 .. n -> FunctionType]
  OBVIOUS
<1>4. functions \in D
  BY <1>2, <1>3 DEF Typed
<1>5. \A i \in 1 .. N : metaBlocks[i] \in MetaType
  BY <1>1 DEF Typed
<1>6. \A i \in 1 .. N : Caller(metaBlocks[i]) \in 1 .. n
  BY <1>1, <1>2, CallerIs
<1>7. ASSUME NEW i \in 1 .. N, NEW fs \in D PROVE PutMeta(fs, metaBlocks[i]) \in D
  <2>1. PICK m \in MetaType : m = metaBlocks[i] /\ Caller(m) \in 1 .. n
    BY <1>5, <1>6
  <2> QED
    BY <1>2, <1>3, <2>1, MetaIsPut
<1> DEFINE F == [p \in (1 .. N) \X D |-> PutMeta(p[2], metaBlocks[p[1]])]
           Found(g) == g = [i \in 0 .. N |-> IF i = 0 THEN functions ELSE PutMeta(g[i - 1], metaBlocks[i])]
<1>8. \A i \in 1 .. N, fs \in D : F[<<i, fs>>] = PutMeta(fs, metaBlocks[i])
  OBVIOUS
<1> HIDE DEF F
<1>9. PICK g \in [0 .. N -> D] : g[0] = functions /\ \A i \in 1 .. N : g[i] = F[<<i, g[i - 1]>>]
  <2>1. \A i \in 1 .. N, fs \in D : F[<<i, fs>>] \in D
    BY <1>7, <1>8
  <2>2. PICK G : G = F
    OBVIOUS
  <2>3. Recursive(D, N, functions, G)
    BY <1>1, <1>4, <2>1, <2>2, StepsExist
  <2> QED
    BY <2>2, <2>3 DEF Recursive
<1>10. ASSUME NEW i \in 0 .. N PROVE g[i] = IF i = 0 THEN functions ELSE PutMeta(g[i - 1], metaBlocks[i])
  <2>1. CASE i # 0
    <3>1. i \in 1 .. N /\ i - 1 \in 0 .. N
      BY <2>1
    <3>2. g[i] = F[<<i, g[i - 1]>>] /\ g[i - 1] \in D
      BY <1>9, <3>1
    <3> QED
      BY <1>8, <2>1, <3>1, <3>2
  <2> QED
    BY <1>9, <2>1
<1>11. Found(g)
  BY <1>9, <1>10
<1> DEFINE found == CHOOSE h : Found(h)
<1>12. Found(found)
  <2> HIDE DEF Found
  <2> QED
    BY <1>11
<1>13. Completed = found[N]
  BY <1>1, Zenon DEF Completed, PutMeta
<1> HIDE DEF found
<1>14. found[0] = functions /\ \A i \in 1 .. N : found[i] = PutMeta(found[i - 1], metaBlocks[i])
  <2>1. \A i \in 1 .. N : i \in 0 .. N /\ i # 0
    OBVIOUS
  <2> QED
    BY <1>12, <2>1
<1>15. found \in [0 .. N -> D]
  <2> DEFINE Q == {k \in 0 .. N : found[k] \in D}
  <2>1. 0 \in Q
    BY <1>4, <1>14
  <2>2. ASSUME NEW k \in 0 .. (N - 1), k \in Q PROVE k + 1 \in Q
    <3>1. k + 1 \in 1 .. N /\ k + 1 \in 0 .. N /\ (k + 1) - 1 = k
      OBVIOUS
    <3> QED
      BY <1>7, <1>14, <2>2, <3>1
  <2> HIDE DEF Q
  <2>3. 0 .. N \subseteq Q
    BY <2>1, <2>2, UpFromNothing, Zenon
  <2> QED
    BY <1>12, <2>3 DEF Q
<1> HIDE DEF Found
<1> QED
  BY <1>1, <1>3, <1>13, <1>14, <1>15 DEF InMetas

\* The blocks have names of their own.
Apart(B) == \A j, k \in 1 .. Len(B) : B[j].name = B[k].name => j = k

\* The blocks of a function under construction have names of their own, none of them a metablock's.
LEMMA ApartTold ==
  ASSUME NEW B, NEW T, NEW owner, NEW metas, NEW live, Told(B, T, owner, metas, live)
  PROVE  Apart(B) /\ \A m \in 1 .. Len(B) : B[m].name[1] # "meta"
<1>1. PICK s : Cut(B, T, s, owner, metas)
  BY DEF Told
<1>2. Apart(B)
  BY <1>1 DEF Cut, Apart
<1>3. ASSUME NEW m \in 1 .. Len(B) PROVE B[m].name[1] \in {"label", "block"}
  <2>1. Tells(B[m], T, s[m], s[m + 1], Follow(B, m), owner, metas)
    BY <1>1 DEF Cut
  <2> QED
    BY <2>1 DEF Tells, Labelled
<1> QED
  BY <1>2, <1>3

\* The name of a metablock is new among the blocks of its function.
LEMMA ApartMore ==
  ASSUME NEW S, NEW B \in Seq(S), NEW C \in Seq(S), NEW owner, NEW metas, MetasNamed(metas),
         NEW n \in Nat, CompletesTo(B, owner, metas, n, C), n < Len(metas),
         \A m \in 1 .. Len(B) : B[m].name[1] # "meta", Apart(C),
         NEW z, z = n + 1, NEW new \in S, new = Built(metas[z])
  PROVE  Apart(Append(C, new))
<1>1. PICK c \in Nat : c = Len(C)
  OBVIOUS
<1>2. PICK b \in Nat : b = Len(B) /\ b <= c
  BY <1>1 DEF CompletesTo
<1>3. PICK D : D = Append(C, new)
  OBVIOUS
<1>4. Len(D) = c + 1 /\ D[c + 1] = new /\ \A k \in 1 .. c : D[k] = C[k]
  BY <1>1, <1>3
<1>5. \A i \in DOMAIN metas : Built(metas[i]).name = <<"meta", i - 1>>
  BY DEF MetasNamed, Built, LeadingTo, NewBlock
<1>6. PICK l \in Nat : l = Len(metas) /\ DOMAIN metas = 1 .. l
  BY DEF MetasNamed
<1>7. new.name = <<"meta", z - 1>>
  <2>1. z \in DOMAIN metas
    BY <1>6
  <2> QED
    BY <1>5, <2>1
<1>8. ASSUME NEW k \in 1 .. c PROVE C[k].name # new.name
  <2>1. CASE k > b
    <3>1. PICK i \in 1 .. n : C[k] = Built(metas[i])
      BY <1>1, <1>2, <2>1 DEF CompletesTo
    <3>2. C[k].name = <<"meta", i - 1>> /\ i - 1 # z - 1
      <4>1. i \in DOMAIN metas
        BY <1>6
      <4>2. C[k].name = <<"meta", i - 1>>
        BY <1>5, <3>1, <4>1
      <4> QED
        BY <4>2
    <3> QED
      BY <1>7, <3>2
  <2>2. CASE ~ (k > b)
    <3>1. k \in 1 .. b /\ C[k] = B[k]
      <4>1. \A j \in 1 .. b : C[j] = B[j]
        BY <1>2 DEF CompletesTo
      <4>2. k \in 1 .. b
        BY <2>2
      <4> QED
        BY <4>1, <4>2
    <3>2. C[k].name[1] # "meta"
      BY <1>2, <3>1
    <3>3. new.name[1] = "meta"
      BY <1>7
    <3> QED
      BY <3>2, <3>3
  <2> QED
    BY <2>1, <2>2
<1>9. \A k \in 1 .. (c + 1) : k \in 1 .. c \/ k = c + 1
  OBVIOUS
<1>10. \A j, k \in 1 .. c : C[j].name = C[k].name => j = k
  BY <1>1 DEF Apart
<1>11. \A j, k \in 1 .. (c + 1) : D[j].name = D[k].name => j = k
  BY <1>4, <1>8, <1>9, <1>10
<1> QED
  BY <1>3, <1>4, <1>11 DEF Apart

\* Names of their own are as many as the blocks.
LEMMA ApartCounts ==
  ASSUME NEW B \in Seq(BlockType), Apart(B)
  PROVE  Cardinality(NamesIn(B)) = Len(B)
<1>1. PICK n \in Nat : n = Len(B) /\ DOMAIN B = 1 .. n
  OBVIOUS
<1>2. PICK f : f = [k \in 1 .. n |-> B[k].name]
  OBVIOUS
<1>3. PICK N : N = NamesIn(B)
  OBVIOUS
<1>4. f \in Bijection(1 .. n, N)
  <2>1. N = {B[k].name : k \in 1 .. n}
    BY <1>1, <1>3 DEF NamesIn, ToSet
  <2>2. f \in [1 .. n -> N] /\ \A x \in N : \E k \in 1 .. n : f[k] = x
    BY <1>2, <2>1
  <2>3. \A j, k \in 1 .. n : f[j] = f[k] => j = k
    BY <1>1, <1>2 DEF Apart
  <2> QED
    BY <2>2, <2>3 DEF Bijection, Injection, Surjection, IsInjective
<1>5. IsFiniteSet(1 .. n) /\ Cardinality(1 .. n) = n
  <2>1. 1 \in Int /\ n \in Int
    OBVIOUS
  <2> QED
    BY <2>1, FS_Interval
<1>6. Cardinality(1 .. n) = Cardinality(N)
  BY <1>4, <1>5, FS_Bijection, Zenon DEF ExistsBijection
<1> QED
  BY <1>1, <1>3, <1>5, <1>6

\* What endProgram looks at: the functions with their metablocks.
Complete(done) ==
  /\ done \in Seq(FunctionType) /\ Len(done) = Len(functions) /\ DOMAIN done = DOMAIN functions
  /\ \A k \in DOMAIN functions :
       /\ done[k].name = functions[k].name
       /\ Completes(functions[k].blocks, functions[k].name, metaBlocks, done[k].blocks)
       /\ Apart(done[k].blocks)

\* When constructMetaBlocks is done, each function has its blocks, a block for each of its
\* metablocks and nothing else, under names of their own.
LEMMA CompletedIs ==
  ASSUME Typed, InProgram
  PROVE  Complete(Completed)
<1>1. Paired /\ MetasKnown
  BY DEF InProgram
<1>2. PICK n \in Nat : n = Len(functions) /\ DOMAIN functions = 1 .. n
  BY DEF Typed
<1>3. PICK N \in Nat : N = Len(metaBlocks) /\ DOMAIN metaBlocks = 1 .. N
  BY DEF Typed
<1>4. PICK metas : metas = metaBlocks
  OBVIOUS
<1>5. MetasNamed(metas) /\ Len(metas) = N /\ \A i \in 1 .. N : metas[i] \in MetaType
  BY <1>1, <1>3, <1>4 DEF Typed, MetasKnown
<1>6. PICK g : /\ g \in [0 .. N -> [1 .. n -> FunctionType]]
               /\ Completed = g[N] /\ g[0] = functions
               /\ \A i \in 1 .. N : g[i] = PutMeta(g[i - 1], metas[i])
  <2>1. InMetas(n)
    BY <1>1, <1>2, CompletedSteps
  <2> QED
    BY <1>3, <1>4, <2>1 DEF InMetas
<1>7. \A k \in 1 .. n : functions[k] \in FunctionType
  BY <1>2 DEF Typed
<1> DEFINE Done(i, k) ==
             /\ g[i][k].name = functions[k].name
             /\ CompletesTo(functions[k].blocks, functions[k].name, metas, i, g[i][k].blocks)
             /\ Apart(g[i][k].blocks)
           Q == {i \in 0 .. N : \A k \in 1 .. n : Done(i, k)}
<1>8. \A k \in 1 .. n : functions[k].blocks \in Seq(BlockType) /\ Apart(functions[k].blocks)
                        /\ \A m \in 1 .. Len(functions[k].blocks) : functions[k].blocks[m].name[1] # "meta"
  <2>1. ASSUME NEW k \in 1 .. n PROVE functions[k].blocks \in Seq(BlockType)
    BY <1>7 DEF FunctionType
  <2>2. \A k \in 1 .. n : Told(functions[k].blocks, text[k], functions[k].name, metaBlocks, Going(k))
    BY <1>2 DEF InProgram, BlocksTell
  <2> QED
    BY <2>1, <2>2, ApartTold
<1>9. 0 \in Q
  <2>1. ASSUME NEW k \in 1 .. n PROVE Done(0, k)
    <3>1. PICK B \in Seq(BlockType) : B = functions[k].blocks
      BY <1>8
    <3>2. CompletesTo(B, functions[k].name, metas, 0, B)
      BY DEF CompletesTo
    <3> QED
      BY <1>6, <1>8, <3>1, <3>2
  <2> QED
    BY <2>1
<1>10. ASSUME NEW i \in 0 .. (N - 1), i \in Q PROVE i + 1 \in Q
  <2>1. PICK z \in 1 .. N : z = i + 1 /\ z - 1 = i /\ i \in Nat /\ i < N
    OBVIOUS
  <2>2. PICK m \in MetaType : m = metas[z]
    BY <1>5
  <2>3. PICK c \in 1 .. n : c = Caller(m) /\ functions[c].name = m.caller
    BY <1>1, <1>2, <1>3, <1>4, <2>2, CallerIs
  <2>4. PICK fs \in [1 .. n -> FunctionType] : fs = g[i]
    BY <1>6, <2>1
  <2>5. PICK gs \in [1 .. n -> FunctionType] : gs = g[z] /\ gs = PutMeta(fs, m)
    BY <1>6, <2>1, <2>2, <2>4
  <2>6. PICK new \in BlockType : new = Built(m)
    BY <1>2, <2>3, <2>4, MetaIsPut
  <2>7. \A k \in 1 .. n : /\ gs[k].name = fs[k].name
                          /\ k = c => gs[k].blocks = Append(fs[k].blocks, new)
                          /\ k # c => gs[k].blocks = fs[k].blocks
    <3>1. n \in Nat /\ Caller(m) \in 1 .. n
      BY <1>2, <2>3
    <3>2. \A k \in 1 .. n : /\ PutMeta(fs, m)[k].name = fs[k].name
                            /\ k = Caller(m) => PutMeta(fs, m)[k].blocks = Append(fs[k].blocks, Built(m))
                            /\ k # Caller(m) => PutMeta(fs, m)[k].blocks = fs[k].blocks
      BY <3>1, MetaIsPut
    <3> QED
      BY <2>3, <2>5, <2>6, <3>2
  <2>8. ASSUME NEW k \in 1 .. n PROVE Done(z, k)
    <3>1. PICK B \in Seq(BlockType) : B = functions[k].blocks
      BY <1>8
    <3>2. PICK C \in Seq(BlockType) : C = fs[k].blocks
      BY <2>4 DEF FunctionType
    <3>3. PICK D \in Seq(BlockType) : D = gs[k].blocks
      BY <2>5 DEF FunctionType
    <3>4. PICK owner : owner = functions[k].name
      OBVIOUS
    <3>5. fs[k].name = owner /\ CompletesTo(B, owner, metas, i, C) /\ Apart(C)
      BY <1>10, <2>4, <3>1, <3>2, <3>4
    <3>6. metas[z].caller = owner <=> k = c
      <4>1. functions[c].name = owner <=> c = k
        BY <1>1, <1>2, <3>4 DEF Paired
      <4> QED
        BY <2>2, <2>3, <4>1
    <3>7. /\ metas[z].caller = owner => D = Append(C, new)
          /\ metas[z].caller # owner => D = C
      BY <2>7, <3>2, <3>3, <3>6
    <3>8. new = Built(metas[z])
      BY <2>2, <2>6
    <3>9. CompletesTo(B, owner, metas, z, D)
      BY <2>1, <3>5, <3>7, <3>8, CompletesMore
    <3>10. Apart(D)
      <4>1. \A q \in 1 .. Len(B) : B[q].name[1] # "meta"
        BY <1>8, <3>1
      <4>2. Apart(Append(C, new))
        BY <1>5, <2>1, <3>5, <3>8, <4>1, ApartMore
      <4> QED
        BY <3>5, <3>7, <4>2
    <3> QED
      BY <2>5, <2>7, <3>1, <3>3, <3>4, <3>5, <3>9, <3>10
  <2> QED
    BY <2>1, <2>8
<1> HIDE DEF Q
<1>11. 0 .. N \subseteq Q
  BY <1>9, <1>10, UpFromNothing, Zenon
<1>12. PICK done \in [1 .. n -> FunctionType] : done = g[N] /\ done = Completed
  BY <1>6
<1>13. ASSUME NEW k \in 1 .. n
       PROVE  /\ done[k].name = functions[k].name
              /\ Completes(functions[k].blocks, functions[k].name, metaBlocks, done[k].blocks)
              /\ Apart(done[k].blocks)
  <2>1. Done(N, k)
    BY <1>11 DEF Q
  <2>2. PICK C \in Seq(BlockType) : C = done[k].blocks
    BY DEF FunctionType
  <2>3. Len(C) \in Nat /\ DOMAIN C = 1 .. Len(C)
    OBVIOUS
  <2>4. CompletesTo(functions[k].blocks, functions[k].name, metas, N, C)
    BY <1>12, <2>1, <2>2
  <2>5. Completes(functions[k].blocks, functions[k].name, metaBlocks, C)
    <3>1. PICK B : B = functions[k].blocks
      OBVIOUS
    <3>2. PICK owner : owner = functions[k].name
      OBVIOUS
    <3>3. CompletesTo(B, owner, metas, N, C) /\ DOMAIN metas = 1 .. N
      BY <1>3, <1>4, <2>4, <3>1, <3>2
    <3>4. Completes(B, owner, metas, C)
      BY <2>3, <3>3 DEF CompletesTo, Completes
    <3> QED
      BY <1>4, <3>1, <3>2, <3>4
  <2> QED
    BY <1>12, <2>1, <2>2, <2>5
<1>14. done \in Seq(FunctionType) /\ Len(done) = n /\ DOMAIN done = 1 .. n
  OBVIOUS
<1> QED
  BY <1>2, <1>12, <1>13, <1>14 DEF Complete

\* A complete function as its checks see it: what they find is what the text says.
LEMMA WholeAtEnd ==
  ASSUME Typed, InProgram, ~ inFunction, NEW k \in DOMAIN functions
  PROVE  /\ functions[k].blocks \in Seq(BlockType)
         /\ Completed[k].blocks \in Seq(BlockType) /\ Apart(Completed[k].blocks)
         /\ \E s : Whole(functions[k].blocks, text[k], s, functions[k].name, metaBlocks, Completed[k].blocks)
<1>1. PICK n \in Nat : n = Len(functions) /\ DOMAIN functions = 1 .. n
  BY DEF Typed
<1>2. PICK done \in Seq(FunctionType) :
        /\ done = Completed /\ DOMAIN done = DOMAIN functions
        /\ Completes(functions[k].blocks, functions[k].name, metaBlocks, done[k].blocks)
        /\ Apart(done[k].blocks)
  BY CompletedIs DEF Complete
<1>3. PICK C \in Seq(BlockType) : C = done[k].blocks
  <2>1. done[k] \in FunctionType
    BY <1>2
  <2> QED
    BY <2>1 DEF FunctionType
<1>4. PICK B \in Seq(BlockType) : B = functions[k].blocks /\ B # <<>>
  <2>1. functions[k] \in FunctionType
    BY <1>1 DEF Typed
  <2>2. functions[k].blocks # <<>>
    BY DEF InProgram, Paired
  <2> QED
    BY <2>1, <2>2 DEF FunctionType
<1>5. PICK T \in Seq(SayType) : T = text[k]
  <2>1. k \in DOMAIN text
    BY <1>1 DEF Typed, InProgram, Paired
  <2> QED
    BY <2>1 DEF Typed
<1>6. PICK owner : owner = functions[k].name
  OBVIOUS
<1>7. PICK metas : metas = metaBlocks
  OBVIOUS
<1>8. Told(B, T, owner, metas, Going(k))
  BY <1>4, <1>5, <1>6, <1>7 DEF InProgram, BlocksTell
<1>9. Going(k)
  BY DEF Going
<1>10. PICK s : Cut(B, T, s, owner, metas) /\ Live(B, T, s)
  BY <1>8, <1>9 DEF Told
<1>11. Whole(B, T, s, owner, metas, C)
  <2>1. /\ Len(B) \in Nat /\ 1 <= Len(B)
        /\ Len(T) \in Nat /\ DOMAIN T = 1 .. Len(T)
    BY <1>4
  <2>2. MetasNamed(metas) /\ Completes(B, owner, metas, C)
    BY <1>2, <1>3, <1>4, <1>6, <1>7 DEF InProgram, MetasKnown
  <2> QED
    BY <1>10, <2>1, <2>2 DEF Whole
<1> QED
  BY <1>2, <1>3, <1>4, <1>5, <1>6, <1>7, <1>11

\* endProgram's checks find in the blocks of a function what its text has.
LEMMA FlowIsFound ==
  ASSUME Typed, InProgram, ~ inFunction, NEW k \in DOMAIN functions
  PROVE  LET C == Completed[k].blocks T == text[k] IN
         /\ EndsWithoutReturn(C) <=> (Len(T) + 1) \in Visited(T)
         /\ HasDeadLabel(C) <=> \E i \in DeadLabels(T) : \A j \in DOMAIN T : ~ MarkedBy(T, i, j)
         /\ \A l : Label(l) \in NamesIn(functions[k].blocks) <=> At(T, l) # {}
<1>1. PICK B, C, T, s, owner, metas :
        /\ B \in Seq(BlockType) /\ C \in Seq(BlockType)
        /\ C = Completed[k].blocks /\ B = functions[k].blocks /\ T = text[k]
        /\ Whole(B, T, s, owner, metas, C)
  BY WholeAtEnd
<1>2. EndsWithoutReturn(C) <=> (Len(T) + 1) \in Visited(T)
  BY <1>1, RunsOffTheEnd
<1>3. HasDeadLabel(C) <=> \E i \in DeadLabels(T) : \A j \in DOMAIN T : ~ MarkedBy(T, i, j)
  BY <1>1, FindsDeadLabels
<1>4. \A l : Label(l) \in NamesIn(B) <=> At(T, l) # {}
  BY <1>1, LabelsFound
<1> QED
  BY <1>1, <1>2, <1>3, <1>4

----------------------------------------------------------------------------
(* The checks of endProgram. *)

CheckCodes == FaultCodes \cup {"std::out_of_range"}
CheckType == [code : CheckCodes, fails : BOOLEAN]
Failing(code, fails) == [code |-> code, fails |-> fails]

\* A check has a code, and fails or not.
LEMMA FailingIs ==
  ASSUME NEW code \in CheckCodes, NEW fails \in BOOLEAN
  PROVE  Failing(code, fails) \in CheckType /\ Failing(code, fails).code = code
         /\ (Failing(code, fails).fails <=> fails)
BY DEF Failing, CheckType

\* What the check of a code finds.
LabelUnknown == \E c \in labelChecks : ~ LabelIsDefined(c[1], c[2])
FlowEnds(k) == EndsWithoutReturn(Completed[k].blocks)
FlowIsDead(k) == HasDeadLabel(Completed[k].blocks)
FlowOf(k) == {Failing("ExecutionPathWithoutReturn", FlowEnds(k)), Failing("UnreachableCodeSection", FlowIsDead(k))}

\* The checks endProgram makes, taken together: one each for the program, its entry and its labels,
\* two for its calls, and two for the flow of each function.
LEMMA ChecksAre ==
  ASSUME functions \in Seq(FunctionType)
  PROVE  /\ Checks \in Seq(CheckType)
         /\ Range(Checks) = {Failing("EmptyProgram", functions = <<>>),
                             Failing("EntryFunctionNotDefined", ~ IsDefined(Entry)),
                             Failing("std::out_of_range", CallUnknown),
                             Failing("FunctionDoesNotExist", CallUnknown),
                             Failing("LabelDoesNotExist", LabelUnknown)}
                            \cup UNION {FlowOf(k) : k \in DOMAIN functions}
<1>1. PICK n \in Nat : n = Len(functions) /\ DOMAIN functions = 1 .. n
  OBVIOUS
<1>2. \A k : FlowEnds(k) \in BOOLEAN /\ FlowIsDead(k) \in BOOLEAN
  BY DEF FlowEnds, FlowIsDead, EndsWithoutReturn, HasDeadLabel
<1>3. (functions = <<>>) \in BOOLEAN /\ (~ IsDefined(Entry)) \in BOOLEAN
      /\ CallUnknown \in BOOLEAN /\ LabelUnknown \in BOOLEAN
  BY DEF CallUnknown, LabelUnknown
<1>4. /\ "EmptyProgram" \in CheckCodes /\ "EntryFunctionNotDefined" \in CheckCodes
      /\ "std::out_of_range" \in CheckCodes /\ "FunctionDoesNotExist" \in CheckCodes
      /\ "LabelDoesNotExist" \in CheckCodes
      /\ "ExecutionPathWithoutReturn" \in CheckCodes /\ "UnreachableCodeSection" \in CheckCodes
  BY DEF CheckCodes, FaultCodes
<1>5. PICK c1 \in CheckType : c1 = Failing("EmptyProgram", functions = <<>>)
  BY <1>3, <1>4, FailingIs
<1>6. PICK c2 \in CheckType : c2 = Failing("EntryFunctionNotDefined", ~ IsDefined(Entry))
  BY <1>3, <1>4, FailingIs
<1>7. PICK c3 \in CheckType : c3 = Failing("std::out_of_range", CallUnknown)
  BY <1>3, <1>4, FailingIs
<1>18. PICK c5 \in CheckType : c5 = Failing("FunctionDoesNotExist", CallUnknown)
  BY <1>3, <1>4, FailingIs
<1>8. PICK c4 \in CheckType : c4 = Failing("LabelDoesNotExist", LabelUnknown)
  BY <1>3, <1>4, FailingIs
<1>9. PICK first : first = <<c1, c2, c3, c5, c4>>
  OBVIOUS
<1>10. first \in Seq(CheckType) /\ Range(first) = {c1, c2, c3, c5, c4}
  <2>1. first \in Seq(CheckType) /\ DOMAIN first = 1 .. 5
        /\ first[1] = c1 /\ first[2] = c2 /\ first[3] = c3 /\ first[4] = c5 /\ first[5] = c4
    BY <1>9
  <2>2. 1 .. 5 = {1, 2, 3, 4, 5}
    OBVIOUS
  <2> QED
    BY <2>1, <2>2 DEF Range
<1>11. PICK flows : flows = [k \in DOMAIN functions |-> FlowChecks(Completed[k].blocks)]
  OBVIOUS
<1>12. ASSUME NEW k \in 1 .. n PROVE flows[k] \in Seq(CheckType) /\ Range(flows[k]) = FlowOf(k)
  <2>1. PICK e \in CheckType : e = Failing("ExecutionPathWithoutReturn", FlowEnds(k))
    BY <1>2, <1>4, FailingIs
  <2>2. PICK d \in CheckType : d = Failing("UnreachableCodeSection", FlowIsDead(k))
    BY <1>2, <1>4, FailingIs
  <2>3. flows[k] = <<e, d>>
    <3>1. flows[k] = FlowChecks(Completed[k].blocks)
      BY <1>1, <1>11
    <3>2. FlowChecks(Completed[k].blocks) = <<e, d>>
      BY <2>1, <2>2, Zenon DEF FlowChecks, Failing, FlowEnds, FlowIsDead
    <3> QED
      BY <3>1, <3>2
  <2>4. PICK two : two = <<e, d>>
    OBVIOUS
  <2>5. two \in Seq(CheckType) /\ DOMAIN two = 1 .. 2 /\ two[1] = e /\ two[2] = d /\ 1 .. 2 = {1, 2}
    BY <2>4
  <2>6. Range(two) = {e, d}
    BY <2>5 DEF Range
  <2> QED
    BY <2>1, <2>2, <2>3, <2>4, <2>5, <2>6 DEF FlowOf
<1>13. flows \in Seq(Seq(CheckType)) /\ DOMAIN flows = 1 .. n
  BY <1>1, <1>11, <1>12
<1>14. PICK flat : /\ flat = FlattenSeq(flows) /\ flat \in Seq(CheckType)
                   /\ Range(flat) = UNION {Range(flows[k]) : k \in 1 .. n}
  BY <1>13, FlattenRange
<1>15. UNION {Range(flows[k]) : k \in 1 .. n} = UNION {FlowOf(k) : k \in 1 .. n}
  BY <1>12
<1>16. Checks = first \o flat
  <2>1. first = << Failing("EmptyProgram", functions = <<>>), Failing("EntryFunctionNotDefined", ~ IsDefined(Entry)),
                   Failing("std::out_of_range", CallUnknown), Failing("FunctionDoesNotExist", CallUnknown),
                   Failing("LabelDoesNotExist", LabelUnknown) >>
    BY <1>5, <1>6, <1>7, <1>8, <1>9, <1>18
  <2> QED
    BY <1>11, <1>14, <2>1, Zenon DEF Checks, Failing, LabelUnknown
<1>17. first \o flat \in Seq(CheckType) /\ Range(first \o flat) = Range(first) \cup Range(flat)
  <2>1. first \o flat \in Seq(CheckType)
    BY <1>10, <1>14
  <2> QED
    BY <1>10, <1>14, <2>1, RangeJoined
<1> QED
  BY <1>1, <1>5, <1>6, <1>7, <1>8, <1>10, <1>14, <1>15, <1>16, <1>17, <1>18

\* The first check that fails, if there is one.
LEMMA FirstFailingIs ==
  ASSUME NEW S, NEW checks \in Seq(S), NEW first, first = FirstFailing(checks)
  PROVE  /\ first = 0 => \A i \in DOMAIN checks : ~ checks[i].fails
         /\ first # 0 => first \in DOMAIN checks /\ checks[first].fails
<1>1. PICK I : I = {i \in 1 .. Len(checks) : checks[i].fails}
  OBVIOUS
<1>2. first = IF I # {} THEN Min(I) ELSE 0
  BY <1>1, Zenon DEF FirstFailing, SelectInSeq
<1>3. I \in SUBSET Nat
  BY <1>1
<1>4. CASE I # {}
  <2>1. \E m \in I : \A k \in I : m <= k
    BY <1>3, <1>4, LeastNatural, Zenon
  <2>2. Min(I) \in I
    BY <2>1 DEF Min
  <2> QED
    BY <1>1, <1>2, <1>4, <2>2
<1>5. CASE I = {}
  BY <1>1, <1>2, <1>5
<1> QED
  BY <1>4, <1>5

\* The faults of a text, one by one.
LEMMA FaultsAre ==
  ASSUME NEW c
  PROVE  c \in Faults <=>
           \/ c = "EmptyProgram" /\ text = <<>>
           \/ c = "EntryFunctionNotDefined" /\ ~ IsDefined(Entry)
           \/ c = "FunctionDoesNotExist" /\ \E T \in ToSet(text) : \E f \in Called(T) : ~ IsDefined(f)
           \/ c = "LabelDoesNotExist" /\ \E T \in ToSet(text) : \E l \in Mentioned(T) : At(T, l) = {}
           \/ c = "ExecutionPathWithoutReturn" /\ \E T \in ToSet(text) : (Len(T) + 1) \in Visited(T)
           \/ c = "UnreachableCodeSection"
                /\ \E T \in ToSet(text) : \E i \in DeadLabels(T) : \A j \in DOMAIN T : ~ MarkedBy(T, i, j)
BY DEF Faults, Fault

\* endProgram finds an unknown callee among the metablocks just when the text calls one.
LEMMA CallsAreFound ==
  ASSUME Typed, InProgram
  PROVE  CallUnknown <=> \E T \in ToSet(text) : \E f \in Called(T) : ~ IsDefined(f)
<1>1. \A m \in ToSet(metaBlocks) : m.callees \subseteq Functions
  <2>1. \A i \in DOMAIN metaBlocks : metaBlocks[i] \in MetaType
    BY DEF Typed
  <2> QED
    BY <2>1 DEF ToSet, MetaType
<1>2. \A f : (\E m \in ToSet(metaBlocks) : f \in m.callees) <=> \E k \in DOMAIN text : f \in Called(text[k])
  <2>1. UNION {m.callees : m \in ToSet(metaBlocks)} = UNION {Called(text[k]) : k \in DOMAIN text}
    BY DEF InProgram, CallsNoted
  <2>2. \A f : f \in UNION {m.callees : m \in ToSet(metaBlocks)} <=> \E m \in ToSet(metaBlocks) : f \in m.callees
    OBVIOUS
  <2>3. \A f : f \in UNION {Called(text[k]) : k \in DOMAIN text} <=> \E k \in DOMAIN text : f \in Called(text[k])
    OBVIOUS
  <2> QED
    BY <2>1, <2>2, <2>3
<1>3. \A f : (\E T \in ToSet(text) : f \in Called(T)) <=> \E k \in DOMAIN text : f \in Called(text[k])
  BY DEF ToSet
<1> QED
  BY <1>1, <1>2, <1>3 DEF CallUnknown

\* endProgram misses a label among the blocks just when the text jumps to one it lacks.
LEMMA LabelsAreFound ==
  ASSUME Typed, InProgram, ~ inFunction
  PROVE  LabelUnknown <=> \E T \in ToSet(text) : \E l \in Mentioned(T) : At(T, l) = {}
<1>1. PICK n \in Nat : n = Len(functions) /\ DOMAIN functions = 1 .. n /\ DOMAIN text = 1 .. n
  BY DEF Typed, InProgram, Paired
<1>2. \A k \in 1 .. n : \A l : Label(l) \in NamesIn(functions[k].blocks) <=> At(text[k], l) # {}
  BY <1>1, FlowIsFound
<1>3. ASSUME NEW k \in 1 .. n, NEW l
      PROVE  LabelIsDefined(functions[k].name, Label(l)) <=> At(text[k], l) # {}
  <2>1. \A j \in 1 .. n : functions[j].name = functions[k].name => j = k
    BY <1>1 DEF InProgram, Paired
  <2> QED
    BY <1>1, <1>2, <2>1 DEF LabelIsDefined
<1>4. \A c : c \in labelChecks <=> \E k \in 1 .. n : \E l \in Mentioned(text[k]) : c = <<functions[k].name, Label(l)>>
  <2>1. labelChecks = UNION {{<<functions[k].name, Label(l)>> : l \in Mentioned(text[k])} : k \in 1 .. n}
    BY <1>1 DEF InProgram, LabelsNoted
  <2> QED
    BY <2>1
<1>5. (\E T \in ToSet(text) : \E l \in Mentioned(T) : At(T, l) = {})
        <=> \E k \in 1 .. n : \E l \in Mentioned(text[k]) : At(text[k], l) = {}
  BY <1>1 DEF ToSet
<1>6. ASSUME LabelUnknown PROVE \E k \in 1 .. n : \E l \in Mentioned(text[k]) : At(text[k], l) = {}
  <2>1. PICK c \in labelChecks : ~ LabelIsDefined(c[1], c[2])
    BY <1>6 DEF LabelUnknown
  <2>2. PICK k \in 1 .. n : \E l \in Mentioned(text[k]) : c = <<functions[k].name, Label(l)>>
    BY <1>4
  <2>3. PICK l \in Mentioned(text[k]) : c = <<functions[k].name, Label(l)>>
    BY <2>2
  <2> QED
    BY <1>3, <2>1, <2>3
<1>7. ASSUME NEW k \in 1 .. n, NEW l \in Mentioned(text[k]), At(text[k], l) = {} PROVE LabelUnknown
  <2>1. PICK c : c = <<functions[k].name, Label(l)>>
    OBVIOUS
  <2>2. c \in labelChecks /\ c[1] = functions[k].name /\ c[2] = Label(l)
    BY <1>4, <2>1
  <2> QED
    BY <1>3, <1>7, <2>2 DEF LabelUnknown
<1> QED
  BY <1>5, <1>6, <1>7

\* The checks find the faults that the text has; what escapes in place of a code is one of them.
LEMMA ChecksFind ==
  ASSUME Typed, InProgram, ~ inFunction, NEW code
  PROVE  (\E e \in Range(Checks) : e.code = code /\ e.fails) <=>
           \/ code \in Faults
           \/ code = "std::out_of_range" /\ "FunctionDoesNotExist" \in Faults
<1>1. PICK n \in Nat : n = Len(functions) /\ DOMAIN functions = 1 .. n /\ DOMAIN text = 1 .. n
  BY DEF Typed, InProgram, Paired
<1>2. functions = <<>> <=> text = <<>>
  BY <1>1 DEF Typed, InProgram, Paired
<1>3. /\ (\E T \in ToSet(text) : (Len(T) + 1) \in Visited(T)) <=> \E k \in 1 .. n : FlowEnds(k)
      /\ (\E T \in ToSet(text) : \E i \in DeadLabels(T) : \A j \in DOMAIN T : ~ MarkedBy(T, i, j))
           <=> \E k \in 1 .. n : FlowIsDead(k)
  <2>1. ASSUME NEW k \in 1 .. n
        PROVE  /\ FlowEnds(k) <=> (Len(text[k]) + 1) \in Visited(text[k])
               /\ FlowIsDead(k) <=> \E i \in DeadLabels(text[k]) : \A j \in DOMAIN text[k] : ~ MarkedBy(text[k], i, j)
    BY <1>1, FlowIsFound DEF FlowEnds, FlowIsDead
  <2>2. ToSet(text) = {text[k] : k \in 1 .. n}
    BY <1>1 DEF ToSet
  <2> QED
    BY <2>1, <2>2
<1>4. \A e : e \in Range(Checks) <=>
        \/ e = Failing("EmptyProgram", functions = <<>>)
        \/ e = Failing("EntryFunctionNotDefined", ~ IsDefined(Entry))
        \/ e = Failing("std::out_of_range", CallUnknown)
        \/ e = Failing("FunctionDoesNotExist", CallUnknown)
        \/ e = Failing("LabelDoesNotExist", LabelUnknown)
        \/ \E k \in 1 .. n : e = Failing("ExecutionPathWithoutReturn", FlowEnds(k))
        \/ \E k \in 1 .. n : e = Failing("UnreachableCodeSection", FlowIsDead(k))
  <2>1. functions \in Seq(FunctionType)
    BY DEF Typed
  <2>2. \A e : e \in UNION {FlowOf(k) : k \in 1 .. n} <=>
          \/ \E k \in 1 .. n : e = Failing("ExecutionPathWithoutReturn", FlowEnds(k))
          \/ \E k \in 1 .. n : e = Failing("UnreachableCodeSection", FlowIsDead(k))
    BY DEF FlowOf
  <2> QED
    BY <1>1, <2>1, <2>2, ChecksAre
<1>5. \A c, b : Failing(c, b).code = c
  BY DEF Failing
<1>6. (\E e \in Range(Checks) : e.code = code /\ e.fails) <=>
        \/ code = "EmptyProgram" /\ functions = <<>>
        \/ code = "EntryFunctionNotDefined" /\ ~ IsDefined(Entry)
        \/ code \in {"std::out_of_range", "FunctionDoesNotExist"} /\ CallUnknown
        \/ code = "LabelDoesNotExist" /\ LabelUnknown
        \/ code = "ExecutionPathWithoutReturn" /\ \E k \in 1 .. n : FlowEnds(k)
        \/ code = "UnreachableCodeSection" /\ \E k \in 1 .. n : FlowIsDead(k)
  <2>1. /\ Failing("EmptyProgram", functions = <<>>).fails <=> functions = <<>>
        /\ Failing("EntryFunctionNotDefined", ~ IsDefined(Entry)).fails <=> ~ IsDefined(Entry)
        /\ Failing("std::out_of_range", CallUnknown).fails <=> CallUnknown
        /\ Failing("FunctionDoesNotExist", CallUnknown).fails <=> CallUnknown
        /\ Failing("LabelDoesNotExist", LabelUnknown).fails <=> LabelUnknown
        /\ \A k : Failing("ExecutionPathWithoutReturn", FlowEnds(k)).fails <=> FlowEnds(k)
        /\ \A k : Failing("UnreachableCodeSection", FlowIsDead(k)).fails <=> FlowIsDead(k)
    BY DEF Failing
  <2>2. ASSUME NEW e \in Range(Checks), e.code = code, e.fails
        PROVE  \/ code = "EmptyProgram" /\ functions = <<>>
               \/ code = "EntryFunctionNotDefined" /\ ~ IsDefined(Entry)
               \/ code \in {"std::out_of_range", "FunctionDoesNotExist"} /\ CallUnknown
               \/ code = "LabelDoesNotExist" /\ LabelUnknown
               \/ code = "ExecutionPathWithoutReturn" /\ \E k \in 1 .. n : FlowEnds(k)
               \/ code = "UnreachableCodeSection" /\ \E k \in 1 .. n : FlowIsDead(k)
    <3>1. CASE e = Failing("EmptyProgram", functions = <<>>)
      BY <1>5, <2>1, <2>2, <3>1, Zenon
    <3>2. CASE e = Failing("EntryFunctionNotDefined", ~ IsDefined(Entry))
      BY <1>5, <2>1, <2>2, <3>2, Zenon
    <3>3. CASE e = Failing("std::out_of_range", CallUnknown)
      BY <1>5, <2>1, <2>2, <3>3, Zenon
    <3>7. CASE e = Failing("FunctionDoesNotExist", CallUnknown)
      BY <1>5, <2>1, <2>2, <3>7, Zenon
    <3>4. CASE e = Failing("LabelDoesNotExist", LabelUnknown)
      BY <1>5, <2>1, <2>2, <3>4, Zenon
    <3>5. CASE \E k \in 1 .. n : e = Failing("ExecutionPathWithoutReturn", FlowEnds(k))
      BY <1>5, <2>1, <2>2, <3>5, Zenon
    <3>6. CASE \E k \in 1 .. n : e = Failing("UnreachableCodeSection", FlowIsDead(k))
      BY <1>5, <2>1, <2>2, <3>6, Zenon
    <3> QED
      BY <1>4, <2>2, <3>1, <3>2, <3>3, <3>4, <3>5, <3>6, <3>7, Zenon
  <2>3. ASSUME \/ code = "EmptyProgram" /\ functions = <<>>
               \/ code = "EntryFunctionNotDefined" /\ ~ IsDefined(Entry)
               \/ code \in {"std::out_of_range", "FunctionDoesNotExist"} /\ CallUnknown
               \/ code = "LabelDoesNotExist" /\ LabelUnknown
               \/ code = "ExecutionPathWithoutReturn" /\ \E k \in 1 .. n : FlowEnds(k)
               \/ code = "UnreachableCodeSection" /\ \E k \in 1 .. n : FlowIsDead(k)
        PROVE  \E e \in Range(Checks) : e.code = code /\ e.fails
    BY <1>4, <1>5, <2>1, <2>3, Zenon
  <2> QED
    BY <2>2, <2>3
<1> QED
  BY <1>2, <1>3, <1>6, CallsAreFound, LabelsAreFound, FaultsAre

----------------------------------------------------------------------------
(* The order of the code: from a call that emits, or from the start, text and *)
(* blocks go on by what emits nothing to the same calls.                      *)

TextOn(T, from) == Closure(from, Flow(T, Places(T) \ Emitting(T)), Len(T) + 1)
BlocksOn(C, names) == Closure(names, {e \in Edges(C) : BlockNamed(C, e[1]).code = <<>>}, Len(C))
Codeless(C) == {C[k].name : k \in {j \in DOMAIN C : C[j].code = <<>>}}

\* A block is found by its name.
LEMMA BlockIs ==
  ASSUME NEW S, NEW C \in Seq(S), Apart(C), NEW k \in DOMAIN C
  PROVE  /\ C[k].name \in NamesIn(C) /\ BlockNamed(C, C[k].name) = C[k]
         /\ C[k].name \in Codeless(C) <=> C[k].code = <<>>
<1>1. PICK n \in Nat : n = Len(C) /\ DOMAIN C = 1 .. n
  OBVIOUS
<1>2. \A j \in DOMAIN C : C[j].name = C[k].name => j = k
  BY <1>1 DEF Apart
<1>3. C[k].name \in NamesIn(C) /\ C[k] \in ToSet(C)
  BY DEF NamesIn, ToSet
<1>4. \A b \in ToSet(C) : b.name = C[k].name => b = C[k]
  BY <1>2 DEF ToSet
<1>5. BlockNamed(C, C[k].name) = C[k]
  BY <1>3, <1>4 DEF BlockNamed
<1>6. C[k].name \in Codeless(C) <=> C[k].code = <<>>
  BY <1>2 DEF Codeless
<1> QED
  BY <1>3, <1>5, <1>6

\* What emits nothing in the text, and where it leads.
LEMMA TextOnIs ==
  ASSUME NEW T, Len(T) \in Nat, DOMAIN T = 1 .. Len(T), NEW from, from \subseteq Places(T)
  PROVE  TextLeast(T, Places(T) \ Emitting(T), from, TextOn(T, from))
<1>1. PICK Q : Q = Places(T) \ Emitting(T)
  OBVIOUS
<1>2. Q \subseteq Places(T)
  BY <1>1
<1>3. TextLeast(T, Q, from, Closure(from, Flow(T, Q), Len(T) + 1))
  BY <1>2, TextIsLeast
<1> QED
  BY <1>1, <1>3 DEF TextOn

\* The blocks without code, and where they lead.
LEMMA BlocksOnAre ==
  ASSUME NEW S, NEW C \in Seq(S), Apart(C), NEW names, names \subseteq NamesIn(C)
  PROVE  BlocksLeast(C, Codeless(C), names, BlocksOn(C, names))
<1>1. PICK N : N = Codeless(C)
  OBVIOUS
<1>2. ASSUME NEW e \in Edges(C) PROVE BlockNamed(C, e[1]).code = <<>> <=> e[1] \in N
  <2>1. PICK k \in DOMAIN C : e[1] = C[k].name
    BY DEF Edges, ToSet
  <2> QED
    BY <1>1, <2>1, BlockIs
<1>3. {e \in Edges(C) : BlockNamed(C, e[1]).code = <<>>} = {e \in Edges(C) : e[1] \in N}
  BY <1>2
<1>4. BlocksLeast(C, N, names, Closure(names, {e \in Edges(C) : e[1] \in N}, Len(C)))
  BY BlocksAreLeast
<1> QED
  BY <1>1, <1>3, <1>4 DEF BlocksOn

\* What emits in a piece of the text is its code.
IsCode(code, T, x, y) ==
  /\ code \in Seq(Nat)
  /\ \A k \in 1 .. Len(code) : x <= code[k] /\ code[k] < y /\ code[k] \in Emitting(T)
  /\ \A p \in Emitting(T) : x <= p /\ p < y => \E k \in 1 .. Len(code) : code[k] = p
  /\ \A j, k \in 1 .. Len(code) : j < k => code[j] < code[k]

\* What a block tells of the calls that emit, in other words: all those of the piece, in their order.
LEMMA CodeIs ==
  ASSUME NEW T, NEW x, NEW y, Piece(T, x, y), NEW code, Codes(code, T, x, y)
  PROVE  IsCode(code, T, x, y)
<1>1. PICK n \in Nat : n = Len(T) /\ DOMAIN T = 1 .. n
  BY DEF Piece
<1>2. x \in Nat /\ y \in Nat /\ 1 <= x /\ y <= n + 1
  BY <1>1 DEF Piece
<1>3. \A p : p \in Emitting(T) <=> p \in 1 .. n /\ T[p].op \in Emits
  BY <1>1 DEF Emitting, Ops, Emits
<1>4. code \in Seq(Nat) /\ \A j, k \in 1 .. Len(code) : j < k => code[j] < code[k]
  BY DEF Codes
<1>5. ASSUME NEW k \in 1 .. Len(code) PROVE x <= code[k] /\ code[k] < y /\ code[k] \in Emitting(T)
  <2>1. PICK p \in x .. (y - 1) : p = code[k] /\ T[p].op \in Emits
    BY DEF Codes
  <2>2. x <= p /\ p < y /\ p \in 1 .. n
    BY <1>2
  <2> QED
    BY <1>3, <2>1, <2>2
<1>6. ASSUME NEW p \in Emitting(T), x <= p, p < y PROVE \E k \in 1 .. Len(code) : code[k] = p
  <2>1. p \in 1 .. n /\ T[p].op \in Emits
    BY <1>3
  <2>2. p \in x .. (y - 1)
    BY <1>2, <1>6, <2>1
  <2> QED
    BY <2>1, <2>2 DEF Codes
<1> QED
  BY <1>4, <1>5, <1>6 DEF IsCode

\* The code of a block is that of its piece.
LEMMA CodeOf ==
  ASSUME NEW B, NEW T, NEW s, NEW owner, NEW metas, NEW C, Whole(B, T, s, owner, metas, C),
         NEW m \in 1 .. Len(B)
  PROVE  Piece(T, s[m], s[m + 1]) /\ IsCode(B[m].code, T, s[m], s[m + 1])
<1>1. Tells(B[m], T, s[m], s[m + 1], Follow(B, m), owner, metas)
  BY PlacesOf
<1>2. Piece(T, s[m], s[m + 1]) /\ Codes(B[m].code, T, s[m], s[m + 1])
  BY <1>1, PieceIs DEF Tells
<1> QED
  BY <1>2, CodeIs

\* A metablock has none.
LEMMA MetaCodeless ==
  ASSUME NEW B, NEW T, NEW s, NEW owner, NEW metas, NEW C, Whole(B, T, s, owner, metas, C),
         NEW k \in 1 .. Len(C), k > Len(B)
  PROVE  C[k].code = <<>>
<1>1. PICK i \in DOMAIN metas : C[k] = Built(metas[i])
  BY DEF Whole, Completes
<1> QED
  BY <1>1 DEF Built, LeadingTo, NewBlock

\* Places from where the text goes on in L without emitting.
QuietlyClosed(T, L) == \A p \in Places(T) \ Emitting(T) : ClosedAt(T, p, L)

\* If blocks begin in such a set, then also those that they lead to without code.
LEMMA BegunOn ==
  ASSUME NEW B, NEW T, NEW s, NEW owner, NEW metas, NEW S, NEW C \in Seq(S),
         Whole(B, T, s, owner, metas, C), Apart(C), NEW L, QuietlyClosed(T, L),
         NEW names, names \subseteq Begun(B, s, metas, C, L)
  PROVE  BlocksOn(C, names) \subseteq Begun(B, s, metas, C, L)
<1>1. PICK b \in Nat : b = Len(B) /\ 1 <= b
  BY DEF Whole
<1>2. PICK c \in Nat : c = Len(C) /\ DOMAIN C = 1 .. c /\ b <= c /\ \A m \in 1 .. b : C[m] = B[m]
  BY <1>1 DEF Whole, Completes
<1>3. PICK P : P = Begun(B, s, metas, C, L)
  OBVIOUS
<1>4. ASSUME NEW k \in DOMAIN C, C[k].name \in P \cap Codeless(C)
      PROVE  C[k].children \cap NamesIn(C) \subseteq P
  <2>1. CASE k > b
    BY <1>1, <1>2, <1>3, <1>4, <2>1, MetasBegun
  <2>2. CASE ~ (k > b)
    <3>1. k \in 1 .. b /\ C[k] = B[k]
      BY <1>2, <2>2
    <3>2. s[k] \in L
      BY <1>1, <1>3, <1>4, <3>1 DEF Begun
    <3>3. B[k].code = <<>>
      BY <1>4, <3>1, BlockIs
    <3>4. PICK x \in Nat, y \in Nat : x = s[k] /\ y = s[k + 1] /\ Piece(T, x, y)
      <4>1. Piece(T, s[k], s[k + 1])
        BY <1>1, <3>1, PieceIs
      <4> QED
        BY <4>1 DEF Piece
    <3>5. IsCode(<<>>, T, x, y)
      BY <1>1, <3>1, <3>3, <3>4, CodeOf
    <3>6. ASSUME NEW p \in x .. (y - 1) PROVE ClosedAt(T, p, L)
      <4>1. x <= p /\ p < y /\ p \in Places(T)
        BY <3>4 DEF Piece, Places
      <4>2. p \notin Emitting(T)
        <5>1. \A k1 \in 1 .. Len(<<>>) : FALSE
          OBVIOUS
        <5> QED
          BY <3>5, <4>1, <5>1 DEF IsCode
      <4> QED
        BY <4>1, <4>2 DEF QuietlyClosed
    <3>7. B[k].children \cap NamesIn(C) \subseteq P
      BY <1>1, <1>3, <3>1, <3>2, <3>4, <3>6, ChildrenBegun
    <3> QED
      BY <3>1, <3>7
  <2> QED
    BY <2>1, <2>2
<1>5. names \subseteq NamesIn(C)
  BY DEF Begun
<1> QED
  BY <1>3, <1>4, <1>5, BlocksOnAre DEF BlocksLeast

\* From the beginning of a block the text comes to its code.
LEMMA ComesToCode ==
  ASSUME NEW B, NEW T, NEW s, NEW owner, NEW metas, NEW C, Whole(B, T, s, owner, metas, C),
         NEW m \in 1 .. Len(B), NEW L, QuietlyClosed(T, L), s[m] \in L, B[m].code # <<>>
  PROVE  Head(B[m].code) \in L \cap Emitting(T)
<1>1. PICK x \in Nat, y \in Nat : x = s[m] /\ y = s[m + 1] /\ Piece(T, x, y)
  <2>1. Piece(T, s[m], s[m + 1])
    BY PieceIs
  <2> QED
    BY <2>1 DEF Piece
<1>2. PICK code \in Seq(Nat) : code = B[m].code /\ IsCode(code, T, x, y)
  <2>1. IsCode(B[m].code, T, x, y)
    BY <1>1, CodeOf
  <2>2. B[m].code \in Seq(Nat)
    BY <2>1 DEF IsCode
  <2> QED
    BY <2>1, <2>2
<1>3. PICK l \in Nat : l = Len(code) /\ 1 \in 1 .. l /\ Head(code) = code[1]
  <2>1. code # <<>>
    BY <1>2
  <2>2. Len(code) \in Nat /\ 1 \in 1 .. Len(code) /\ Head(code) = code[1]
    BY <2>1
  <2> QED
    BY <2>2
<1>4. /\ \A k \in 1 .. l : x <= code[k] /\ code[k] < y /\ code[k] \in Emitting(T)
      /\ \A p \in Emitting(T) : x <= p /\ p < y => \E k \in 1 .. l : code[k] = p
      /\ \A j, k \in 1 .. l : j < k => code[j] < code[k]
  BY <1>2, <1>3 DEF IsCode
<1>5. PICK j \in Nat : j = code[1] /\ x <= j /\ j < y /\ j \in Emitting(T)
  <2>1. code[1] \in Nat
    BY <1>3
  <2> QED
    BY <1>3, <1>4, <2>1
<1>6. ASSUME NEW p \in x .. (j - 1) PROVE ClosedAt(T, p, L)
  <2>1. x <= p /\ p < j /\ p < y /\ p \in Nat
    BY <1>5
  <2>2. p \in Places(T)
    BY <1>1, <2>1 DEF Piece, Places
  <2>3. p \notin Emitting(T)
    <3>1. SUFFICES ASSUME p \in Emitting(T) PROVE FALSE
      OBVIOUS
    <3>2. PICK k \in 1 .. l : code[k] = p
      BY <1>4, <2>1, <3>1
    <3>3. k = 1 \/ 1 < k
      OBVIOUS
    <3>4. j <= p
      BY <1>3, <1>4, <1>5, <2>1, <3>2, <3>3
    <3> QED
      BY <2>1, <3>4
  <2> QED
    BY <2>2, <2>3 DEF QuietlyClosed
<1>7. j \in L
  <2>1. x \in L /\ Piece(T, x, y) /\ x \in Nat
    BY <1>1
  <2>2. x <= x /\ x <= j /\ j < y
    BY <1>1, <1>5
  <2> QED
    BY <1>6, <2>1, <2>2, WalksTo
<1> QED
  BY <1>2, <1>3, <1>5, <1>7

\* Names from where the flow goes on in K by blocks without code.
BlocksClosed(C, K) ==
  /\ K \subseteq NamesIn(C)
  /\ \A k \in DOMAIN C : C[k].name \in K \cap Codeless(C) => C[k].children \cap NamesIn(C) \subseteq K

\* The places to which the text comes in the blocks of K before it has emitted there.
Cover(B, T, s, K) ==
  {p \in Places(T) : \E m \in 1 .. Len(B) :
     /\ B[m].name \in K /\ p \in Span(B, T, s, m)
     /\ \A q \in s[m] .. (p - 1) : q \notin Emitting(T)}

\* A piece without a call that emits belongs to a block without code.
LEMMA QuietIsCodeless ==
  ASSUME NEW B, NEW T, NEW s, NEW owner, NEW metas, NEW C, Whole(B, T, s, owner, metas, C),
         NEW m \in 1 .. Len(B), \A q \in s[m] .. (s[m + 1] - 1) : q \notin Emitting(T)
  PROVE  B[m].code = <<>>
<1>1. PICK x \in Nat, y \in Nat : x = s[m] /\ y = s[m + 1]
  <2>1. Piece(T, s[m], s[m + 1])
    BY PieceIs
  <2> QED
    BY <2>1 DEF Piece
<1>2. IsCode(B[m].code, T, x, y)
  BY <1>1, CodeOf
<1>3. PICK code \in Seq(Nat) : code = B[m].code
  BY <1>2 DEF IsCode
<1>4. SUFFICES ASSUME code # <<>> PROVE FALSE
  BY <1>3
<1>5. 1 \in 1 .. Len(code) /\ code[1] \in Nat
  BY <1>4
<1>6. x <= code[1] /\ code[1] < y /\ code[1] \in Emitting(T)
  BY <1>2, <1>3, <1>5 DEF IsCode
<1>7. code[1] \in x .. (y - 1)
  BY <1>5, <1>6
<1> QED
  BY <1>1, <1>6, <1>7

\* In a set closed by blocks without code is, with a block, where its text begins.
LEMMA StartsOn ==
  ASSUME NEW B, NEW T, NEW s, NEW owner, NEW metas, NEW S, NEW C \in Seq(S),
         Whole(B, T, s, owner, metas, C), Apart(C), NEW K, BlocksClosed(C, K),
         NEW m \in 1 .. Len(B), B[m].name \in K
  PROVE  s[m] \in Cover(B, T, s, K)
<1>1. PICK x \in Nat, y \in Nat : x = s[m] /\ y = s[m + 1] /\ x <= y /\ y <= Len(T) + 1 /\ 1 <= x
  BY PlacesOf
<1>2. PICK n \in Nat : n = Len(T)
  BY PlacesOf
<1>3. x \in Places(T) /\ \A q \in x .. (x - 1) : FALSE
  BY <1>1, <1>2 DEF Places
<1>4. PICK b \in Nat : b = Len(B)
  BY PlacesOf
<1>5. CASE x < y \/ m = b
  <2>1. x \in Span(B, T, s, m)
    BY <1>1, <1>4, <1>5 DEF Span
  <2> QED
    BY <1>1, <1>3, <2>1 DEF Cover
<1>6. CASE ~ (x < y) /\ m # b
  <2>1. x = y /\ m + 1 \in 1 .. b /\ m < b
    BY <1>1, <1>4, <1>6
  <2>2. ~ Ended(T, s[m], s[m + 1])
    BY <1>1, <2>1 DEF Ended
  <2>3. FallsToLabel(B[m], Follow(B, m))
    BY <2>2, EmptyLeadsOn
  <2>4. PICK next : next = B[m + 1].name
    OBVIOUS
  <2>5. Follow(B, m) = {next}
    BY <1>4, <2>1, <2>4 DEF Follow
  <2>6. B[m].children = {next} /\ next[1] = "label"
    BY <2>3, <2>5 DEF FallsToLabel
  <2>7. next \in K
    <3>1. B[m].code = <<>>
      <4>1. \A q \in s[m] .. (s[m + 1] - 1) : q \notin Emitting(T)
        BY <1>1, <1>3, <2>1
      <4> QED
        BY <4>1, QuietIsCodeless
    <3>2. m \in DOMAIN C /\ C[m] = B[m] /\ m + 1 \in DOMAIN C /\ C[m + 1] = B[m + 1]
      BY <1>4, <2>1 DEF Whole, Completes
    <3>3. C[m].name \in Codeless(C) /\ next \in NamesIn(C)
      BY <2>4, <3>1, <3>2, BlockIs
    <3> QED
      BY <2>6, <3>2, <3>3 DEF BlocksClosed
  <2>8. Tells(B[m + 1], T, s[m + 1], s[(m + 1) + 1], Follow(B, m + 1), owner, metas)
    BY <1>4, <2>1, PlacesOf
  <2>9. s[m + 1] < s[(m + 1) + 1]
    BY <2>4, <2>6, <2>8 DEF Tells, Labelled
  <2>10. x \in s[m + 1] .. s[(m + 1) + 1] /\ x < s[(m + 1) + 1]
    <3>1. s[m + 1] \in Nat /\ s[(m + 1) + 1] \in Nat
      BY <1>4, <2>1, PlacesOf
    <3> QED
      BY <1>1, <2>1, <2>9, <3>1
  <2>11. x \in Span(B, T, s, m + 1)
    BY <2>10 DEF Span
  <2>12. \A q \in s[m + 1] .. (x - 1) : q \notin Emitting(T)
    BY <1>1, <1>3, <2>1
  <2> QED
    BY <1>1, <1>3, <1>4, <2>1, <2>4, <2>7, <2>11, <2>12 DEF Cover
<1> QED
  BY <1>5, <1>6

\* L holds what the text goes on at from a place p in a block: the next, or where the
\* children begin, which K names.
Holds(L, B, s, C, K, m, p) ==
  /\ p \in Nat /\ s[m] <= p /\ p < s[m + 1]
  /\ \A j \in 1 .. Len(B) : B[j].name \in K => s[j] \in L
  /\ p + 1 < s[m + 1] \/ m = Len(B) => p + 1 \in L
  /\ p + 1 = s[m + 1] => B[m].children \cap NamesIn(C) \subseteq K

\* From a call that emits nothing the text goes on to where the silent blocks go on to.
LEMMA GoesInto ==
  ASSUME NEW B, NEW T, NEW s, NEW owner, NEW metas, NEW S, NEW C \in Seq(S),
         Whole(B, T, s, owner, metas, C), Apart(C), NEW K, BlocksClosed(C, K),
         NEW m \in 1 .. Len(B), NEW L, NEW p, Holds(L, B, s, C, K, m, p)
  PROVE  After(T, p) \subseteq L
<1> USE DEF Holds
<1>1. PICK b \in Nat : b = Len(B) /\ 1 <= b
  BY DEF Whole
<1>2. PICK n \in Nat : n = Len(T) /\ DOMAIN T = 1 .. n
  BY DEF Whole
<1>3. PICK x \in Nat, y \in Nat : x = s[m] /\ y = s[m + 1] /\ x <= y /\ y <= n + 1 /\ 1 <= x
  BY <1>2, PlacesOf
<1>4. Piece(T, x, y)
  BY <1>3, PieceIs
<1>5. CASE p + 1 < y
  <2>1. After(T, p) = {p + 1}
    BY <1>3, <1>4, <1>5, PieceGoesOn
  <2> QED
    BY <1>3, <1>5, <2>1
<1>6. CASE ~ (p + 1 < y)
  <2>1. p + 1 = y /\ p \in 1 .. (n + 1) /\ p <= n
    BY <1>3, <1>6
  <2>2. p + 1 = s[m + 1] /\ s[m] <= p /\ p \in Places(T)
    BY <1>2, <1>3, <2>1 DEF Places
  <2>3. B[m].children \cap NamesIn(C) \subseteq K
    BY <2>2
  <2>4. \A j \in 1 .. b : B[j].name \in NamesIn(C) /\ j \in DOMAIN C /\ C[j] = B[j]
    <3>1. PICK c \in Nat : c = Len(C) /\ DOMAIN C = 1 .. c /\ b <= c /\ \A j \in 1 .. b : C[j] = B[j]
      BY <1>1 DEF Whole, Completes
    <3>2. \A j \in 1 .. b : j \in DOMAIN C
      BY <3>1
    <3> QED
      BY <3>1, <3>2 DEF NamesIn, ToSet
  <2>5. \A j \in 1 .. b : B[j].name \in B[m].children => s[j] \in L
    BY <1>1, <2>3, <2>4
  <2>6. CASE T[p].op \notin Enders
    <3>1. After(T, p) = {p + 1}
      BY <1>2, <2>1, <2>2, <2>6, AfterSays
    <3>2. FallsToLabel(B[m], Follow(B, m))
      BY <2>2, <2>6, LeadsOn
    <3>3. CASE m = b
      BY <1>1, <3>1, <3>3
    <3>4. CASE m # b
      <4>1. m < b /\ m + 1 \in 1 .. b
        BY <1>1, <3>4
      <4>2. Follow(B, m) = {B[m + 1].name}
        BY <1>1, <4>1 DEF Follow
      <4>3. B[m + 1].name \in B[m].children
        BY <3>2, <4>2 DEF FallsToLabel
      <4> QED
        BY <2>2, <2>5, <3>1, <4>1, <4>3
    <3> QED
      BY <3>3, <3>4
  <2>7. CASE T[p].op \in {"return", "abort"}
    <3>1. After(T, p) = {}
      BY <1>2, <2>1, <2>2, <2>7, AfterSays
    <3> QED
      BY <3>1
  <2>8. CASE T[p].op = "call"
    <3>1. After(T, p) = {p + 1}
      BY <1>2, <2>1, <2>2, <2>8, AfterSays
    <3>2. T[p].op \in Enders
      BY <2>8 DEF Enders
    <3>3. m < b /\ CallsBy(B[m], Follow(B, m), owner, metas)
      BY <1>1, <2>2, <2>8, <3>2, LeadsOn
    <3>4. PICK i \in DOMAIN metas : /\ metas[i].caller = owner /\ B[m].children = {metas[i].name}
                                    /\ Follow(B, m) = {metas[i].nextBlock}
      BY <3>3 DEF CallsBy
    <3>5. m + 1 \in 1 .. b /\ metas[i].nextBlock = B[m + 1].name
      <4>1. Follow(B, m) = {B[m + 1].name} /\ m + 1 \in 1 .. b
        BY <1>1, <3>3 DEF Follow
      <4> QED
        BY <3>4, <4>1
    <3>6. PICK k \in DOMAIN C : C[k] = Built(metas[i])
      BY <3>4 DEF Whole, Completes
    <3>7. C[k].name = metas[i].name /\ C[k].children = {metas[i].nextBlock} /\ C[k].code = <<>>
      BY <3>6 DEF Built, LeadingTo, NewBlock
    <3>8. C[k].name \in NamesIn(C) /\ C[k].name \in Codeless(C)
      BY <3>7, BlockIs
    <3>9. C[k].name \in K
      BY <2>3, <3>4, <3>7, <3>8
    <3>10. B[m + 1].name \in K
      BY <2>4, <3>5, <3>7, <3>8, <3>9 DEF BlocksClosed
    <3> QED
      BY <1>1, <2>2, <3>1, <3>5, <3>10
  <2>9. CASE T[p].op \in Jumps
    <3>1. After(T, p) = UNION {At(T, l) : l \in Targets(T[p])}
      BY <1>2, <2>1, <2>2, <2>9, AfterSays
    <3>2. JumpsTo(B[m], T[p], Follow(B, m))
      BY <2>2, <2>9, LeadsOn
    <3>3. ASSUME NEW l \in Targets(T[p]), NEW q \in At(T, l) PROVE q \in L
      <4>1. q \in DOMAIN T
        BY DEF At, LabelsOf, Ops
      <4>2. PICK k \in 1 .. b : s[k] <= q /\ q < s[k + 1]
        BY <1>1, <4>1, PieceOf
      <4>3. q = s[k] /\ B[k].name = Label(l)
        BY <1>1, <4>2, LabelBegins
      <4>4. B[k].name \in B[m].children
        BY <3>2, <4>3 DEF JumpsTo
      <4> QED
        BY <2>5, <4>3, <4>4
    <3> QED
      BY <3>1, <3>3
  <2> QED
    BY <2>6, <2>7, <2>8, <2>9 DEF Enders
<1> QED
  BY <1>5, <1>6

\* Without emitting, the text does not leave what the blocks of a closed set cover.
LEMMA CoverCloses ==
  ASSUME NEW B, NEW T, NEW s, NEW owner, NEW metas, NEW S, NEW C \in Seq(S),
         Whole(B, T, s, owner, metas, C), Apart(C), NEW K, BlocksClosed(C, K),
         NEW p \in Cover(B, T, s, K), p \notin Emitting(T)
  PROVE  After(T, p) \subseteq Cover(B, T, s, K)
<1>1. PICK b \in Nat : b = Len(B) /\ 1 <= b
  BY DEF Whole
<1>2. PICK n \in Nat : n = Len(T) /\ DOMAIN T = 1 .. n
  BY DEF Whole
<1>3. PICK m \in 1 .. b : /\ B[m].name \in K /\ p \in Span(B, T, s, m)
                          /\ \A q \in s[m] .. (p - 1) : q \notin Emitting(T)
  BY <1>1 DEF Cover
<1>4. PICK x \in Nat, y \in Nat : x = s[m] /\ y = s[m + 1] /\ x <= y /\ y <= n + 1 /\ 1 <= x
                                  /\ (m = b => y = n + 1)
  BY <1>1, <1>2, PlacesOf
<1>5. p \in Places(T) /\ p \in 1 .. (n + 1)
  BY <1>2 DEF Cover, Places
<1>6. CASE p = n + 1
  <2>1. After(T, p) = {}
    BY <1>2, <1>5, <1>6, AfterSays
  <2> QED
    BY <2>1
<1>7. CASE p # n + 1
  <2>1. x <= p /\ p < y /\ p \in Nat /\ p + 1 \in Places(T)
    <3>1. p \in x .. y /\ (p < y \/ m = b)
      BY <1>1, <1>3, <1>4 DEF Span
    <3>2. p + 1 \in Places(T)
      BY <1>2, <1>5, <1>7 DEF Places
    <3> QED
      BY <1>4, <1>5, <1>7, <3>1, <3>2
  <2>2. PICK L : L = Cover(B, T, s, K)
    OBVIOUS
  <2>3. \A j \in 1 .. b : B[j].name \in K => s[j] \in L
    BY <1>1, <2>2, StartsOn
  <2>4. \A q \in x .. p : q \notin Emitting(T)
    <3>1. \A q \in x .. p : q = p \/ q \in x .. (p - 1)
      BY <2>1
    <3> QED
      BY <1>3, <1>4, <3>1
  <2>5. ASSUME p + 1 < y \/ m = b PROVE p + 1 \in L
    <3>1. p + 1 \in x .. y /\ (p + 1 < y \/ m = b)
      BY <2>1, <2>5
    <3>2. p + 1 \in Span(B, T, s, m)
      BY <1>1, <1>4, <3>1 DEF Span
    <3>3. \A q \in s[m] .. ((p + 1) - 1) : q \notin Emitting(T)
      <4>1. (p + 1) - 1 = p
        BY <2>1
      <4> QED
        BY <1>4, <2>4, <4>1
    <3> QED
      BY <1>1, <1>3, <2>1, <2>2, <3>2, <3>3 DEF Cover
  <2>6. ASSUME p + 1 = y PROVE B[m].children \cap NamesIn(C) \subseteq K
    <3>1. y - 1 = p
      BY <2>1, <2>6
    <3>2. \A q \in s[m] .. (s[m + 1] - 1) : q \notin Emitting(T)
      BY <1>4, <2>4, <3>1
    <3>3. B[m].code = <<>>
      BY <1>1, <3>2, QuietIsCodeless
    <3>4. m \in DOMAIN C /\ C[m] = B[m]
      BY <1>1 DEF Whole, Completes
    <3>5. C[m].name \in Codeless(C)
      BY <3>3, <3>4, BlockIs
    <3> QED
      BY <1>3, <3>4, <3>5 DEF BlocksClosed
  <2>7. After(T, p) \subseteq L
    <3>1. p + 1 < s[m + 1] \/ m = Len(B) => p + 1 \in L
      BY <1>1, <1>4, <2>5
    <3>2. p + 1 = s[m + 1] => B[m].children \cap NamesIn(C) \subseteq K
      BY <1>4, <2>6
    <3>3. s[m] <= p /\ p < s[m + 1] /\ p \in Nat /\ m \in 1 .. Len(B)
      BY <1>1, <1>4, <2>1
    <3>4. \A j \in 1 .. Len(B) : B[j].name \in K => s[j] \in L
      BY <1>1, <2>3
    <3>5. Holds(L, B, s, C, K, m, p)
      BY <3>1, <3>2, <3>3, <3>4 DEF Holds
    <3> QED
      BY <3>3, <3>5, GoesInto
  <2> QED
    BY <2>2, <2>7
<1> QED
  BY <1>6, <1>7

\* The calls that emit which come first, from places of the text and from blocks.
TextTo(T, from) == TextOn(T, from) \cap Emitting(T)
Heads(C, K) == {Head(BlockNamed(C, name).code) : name \in {m \in K : BlockNamed(C, m).code # <<>>}}
BlocksTo(C, names) == Heads(C, BlocksOn(C, names))

\* What the text meets first in the blocks of a set begins their code.
LEMMA CoverEmits ==
  ASSUME NEW B, NEW T, NEW s, NEW owner, NEW metas, NEW S, NEW C \in Seq(S),
         Whole(B, T, s, owner, metas, C), Apart(C), NEW K,
         NEW p \in Cover(B, T, s, K), p \in Emitting(T)
  PROVE  p \in Heads(C, K)
<1>1. PICK b \in Nat : b = Len(B) /\ 1 <= b
  BY DEF Whole
<1>2. PICK n \in Nat : n = Len(T) /\ DOMAIN T = 1 .. n
  BY DEF Whole
<1>3. PICK m \in 1 .. b : /\ B[m].name \in K /\ p \in Span(B, T, s, m)
                          /\ \A q \in s[m] .. (p - 1) : q \notin Emitting(T)
  BY <1>1 DEF Cover
<1>4. PICK x \in Nat, y \in Nat : x = s[m] /\ y = s[m + 1] /\ x <= y /\ y <= n + 1 /\ 1 <= x
                                  /\ (m = b => y = n + 1)
  BY <1>1, <1>2, PlacesOf
<1>5. p \in 1 .. n
  BY <1>2 DEF Emitting, Ops
<1>6. x <= p /\ p < y
  <2>1. p \in x .. y /\ (p < y \/ m = b)
    BY <1>1, <1>3, <1>4 DEF Span
  <2> QED
    BY <1>4, <1>5, <2>1
<1>7. IsCode(B[m].code, T, x, y)
  BY <1>1, <1>4, CodeOf
<1>8. PICK code \in Seq(Nat) : code = B[m].code
  BY <1>7 DEF IsCode
<1>9. PICK l \in Nat : l = Len(code)
  OBVIOUS
<1>10. PICK k \in 1 .. l : code[k] = p
  BY <1>6, <1>7, <1>8, <1>9 DEF IsCode
<1>11. code # <<>> /\ Head(code) = code[1] /\ 1 \in 1 .. l
  BY <1>9, <1>10
<1>12. k = 1
  <2>1. SUFFICES ASSUME 1 < k PROVE FALSE
    OBVIOUS
  <2>2. code[1] < p /\ x <= code[1] /\ code[1] \in Emitting(T)
    BY <1>7, <1>8, <1>9, <1>10, <1>11, <2>1 DEF IsCode
  <2>3. code[1] \in x .. (p - 1)
    <3>1. code[1] \in Nat
      BY <1>9, <1>11
    <3> QED
      BY <1>5, <2>2, <3>1
  <2> QED
    BY <1>3, <1>4, <2>2, <2>3
<1>13. m \in DOMAIN C /\ C[m] = B[m]
  BY <1>1 DEF Whole, Completes
<1>14. BlockNamed(C, B[m].name) = B[m]
  BY <1>13, BlockIs
<1> QED
  BY <1>3, <1>8, <1>10, <1>11, <1>12, <1>14 DEF Heads

\* What begins the code of the blocks that begin in a set is met in it first.
LEMMA HeadsAreMet ==
  ASSUME NEW B, NEW T, NEW s, NEW owner, NEW metas, NEW S, NEW C \in Seq(S),
         Whole(B, T, s, owner, metas, C), Apart(C), NEW L, QuietlyClosed(T, L),
         NEW names, names \subseteq Begun(B, s, metas, C, L)
  PROVE  BlocksTo(C, names) \subseteq L \cap Emitting(T)
<1>1. PICK b \in Nat : b = Len(B) /\ 1 <= b
  BY DEF Whole
<1>2. PICK c \in Nat : c = Len(C) /\ DOMAIN C = 1 .. c /\ b <= c /\ \A m \in 1 .. b : C[m] = B[m]
  BY <1>1 DEF Whole, Completes
<1>3. SUFFICES ASSUME NEW name \in BlocksOn(C, names), BlockNamed(C, name).code # <<>>
               PROVE  Head(BlockNamed(C, name).code) \in L \cap Emitting(T)
  BY DEF BlocksTo, Heads
<1>4. name \in Begun(B, s, metas, C, L)
  BY BegunOn
<1>5. PICK k \in 1 .. c : name = C[k].name
  BY <1>2, <1>4 DEF Begun, NamesIn, ToSet
<1>6. BlockNamed(C, name) = C[k] /\ C[k].code # <<>>
  BY <1>2, <1>3, <1>5, BlockIs
<1>7. k \in 1 .. b /\ C[k] = B[k]
  <2>1. ~ (k > b)
    BY <1>1, <1>2, <1>6, MetaCodeless
  <2> QED
    BY <1>2, <2>1
<1>8. s[k] \in L
  BY <1>1, <1>4, <1>5, <1>7 DEF Begun
<1> QED
  BY <1>1, <1>6, <1>7, <1>8, ComesToCode

\* Where the text comes without emitting is closed so.
LEMMA TextOnCloses ==
  ASSUME NEW T, Len(T) \in Nat, DOMAIN T = 1 .. Len(T), NEW from, from \subseteq Places(T)
  PROVE  /\ from \subseteq TextOn(T, from) /\ QuietlyClosed(T, TextOn(T, from))
         /\ \A P : from \subseteq P /\ QuietlyClosed(T, P) => TextOn(T, from) \subseteq P
<1>1. PICK Q : Q = Places(T) \ Emitting(T)
  OBVIOUS
<1>2. PICK V : V = TextOn(T, from)
  OBVIOUS
<1>3. TextLeast(T, Q, from, V)
  BY <1>1, <1>2, TextOnIs
<1>4. QuietlyClosed(T, V)
  BY <1>1, <1>3 DEF TextLeast, QuietlyClosed, ClosedAt
<1>5. ASSUME NEW P, from \subseteq P, QuietlyClosed(T, P) PROVE V \subseteq P
  <2>1. \A i \in Q : i \in P => After(T, i) \subseteq P
    BY <1>1, <1>5 DEF QuietlyClosed, ClosedAt
  <2> QED
    BY <1>3, <1>5, <2>1 DEF TextLeast
<1> QED
  BY <1>2, <1>3, <1>4, <1>5 DEF TextLeast

\* Where blocks without code lead is closed so.
LEMMA BlocksOnClose ==
  ASSUME NEW S, NEW C \in Seq(S), Apart(C), NEW names, names \subseteq NamesIn(C)
  PROVE  names \subseteq BlocksOn(C, names) /\ BlocksClosed(C, BlocksOn(C, names))
BY BlocksOnAre DEF BlocksLeast, BlocksClosed

\* From their beginnings, text and blocks come to the same calls first.
LEMMA StartAgrees ==
  ASSUME NEW B, NEW T, NEW s, NEW owner, NEW metas, NEW S, NEW C \in Seq(S),
         Whole(B, T, s, owner, metas, C), Apart(C)
  PROVE  TextTo(T, {1}) = BlocksTo(C, {C[1].name})
<1>b. PICK b \in Nat : b = Len(B) /\ 1 <= b
  BY DEF Whole
<1>1. b \in Nat /\ b = Len(B) /\ 1 <= b /\ 1 \in 1 .. b
  BY <1>b
<1>2. Len(T) \in Nat /\ DOMAIN T = 1 .. Len(T) /\ {1} \subseteq Places(T)
  BY DEF Whole, Places
<1>3. C[1] = B[1] /\ 1 \in DOMAIN C /\ s[1] = 1
  BY <1>1 DEF Whole, Completes, Cut
<1>4. PICK first : first = C[1].name
  OBVIOUS
<1>5. {first} \subseteq NamesIn(C)
  BY <1>3, <1>4 DEF NamesIn, ToSet
<1>6. TextTo(T, {1}) \subseteq BlocksTo(C, {first})
  <2>1. PICK K : K = BlocksOn(C, {first})
    OBVIOUS
  <2>2. first \in K /\ BlocksClosed(C, K)
    BY <1>5, <2>1, BlocksOnClose
  <2>3. PICK P : P = Cover(B, T, s, K)
    OBVIOUS
  <2>4. 1 \in P
    BY <1>1, <1>3, <1>4, <2>2, <2>3, StartsOn
  <2>5. QuietlyClosed(T, P)
    BY <2>2, <2>3, CoverCloses DEF QuietlyClosed, ClosedAt
  <2>6. TextOn(T, {1}) \subseteq P
    BY <1>2, <2>4, <2>5, TextOnCloses
  <2>7. ASSUME NEW p \in P, p \in Emitting(T) PROVE p \in Heads(C, K)
    BY <2>3, <2>7, CoverEmits
  <2> QED
    BY <2>1, <2>6, <2>7 DEF TextTo, BlocksTo
<1>7. BlocksTo(C, {first}) \subseteq TextTo(T, {1})
  <2>1. PICK L : L = TextOn(T, {1})
    OBVIOUS
  <2>2. 1 \in L /\ QuietlyClosed(T, L)
    BY <1>2, <2>1, TextOnCloses
  <2>3. first \in Begun(B, s, metas, C, L)
    <3>1. first[1] # "meta"
      <4>1. Tells(B[1], T, s[1], s[1 + 1], Follow(B, 1), owner, metas)
        BY <1>1, PlacesOf
      <4> QED
        BY <1>3, <1>4, <4>1 DEF Tells, Labelled
    <3>2. \A m \in 1 .. b : B[m].name = first => s[m] \in L
      <4>1. \A m \in 1 .. b : B[m].name = B[1].name => m = 1
        BY <1>1 DEF Whole, Cut
      <4> QED
        BY <1>3, <1>4, <2>2, <4>1
    <3> QED
      BY <1>1, <1>5, <3>1, <3>2, BegunAre
  <2>4. BlocksTo(C, {first}) \subseteq L \cap Emitting(T)
    <3>1. {first} \subseteq Begun(B, s, metas, C, L)
      BY <2>3
    <3> QED
      BY <2>2, <3>1, HeadsAreMet
  <2> QED
    BY <2>1, <2>4 DEF TextTo
<1> QED
  BY <1>4, <1>6, <1>7

\* What a block's code is, and where it ends.
LEMMA LastCode ==
  ASSUME NEW B, NEW T, NEW s, NEW owner, NEW metas, NEW C, Whole(B, T, s, owner, metas, C),
         NEW m \in 1 .. Len(B), B[m].code # <<>>
  PROVE  /\ Last(B[m].code) \in Nat /\ s[m] <= Last(B[m].code) /\ Last(B[m].code) < s[m + 1]
         /\ Last(B[m].code) \in Emitting(T)
         /\ \A p \in Emitting(T) : Last(B[m].code) < p => ~ (p < s[m + 1])
<1>1. PICK x \in Nat, y \in Nat : x = s[m] /\ y = s[m + 1]
  <2>1. Piece(T, s[m], s[m + 1])
    BY PieceIs
  <2> QED
    BY <2>1 DEF Piece
<1>2. IsCode(B[m].code, T, x, y)
  BY <1>1, CodeOf
<1>3. PICK code \in Seq(Nat) : code = B[m].code
  BY <1>2 DEF IsCode
<1>4. PICK l \in Nat : l = Len(code) /\ l \in 1 .. l
  <2>1. code # <<>>
    BY <1>3
  <2>2. Len(code) \in Nat /\ Len(code) \in 1 .. Len(code)
    BY <2>1
  <2> QED
    BY <2>2
<1>5. PICK i \in Nat : i = code[l] /\ i = Last(code)
  <2>1. code[l] \in Nat
    BY <1>4
  <2> QED
    BY <1>4, <2>1 DEF Last
<1>6. x <= i /\ i < y /\ i \in Emitting(T)
  BY <1>2, <1>3, <1>4, <1>5 DEF IsCode
<1>7. ASSUME NEW p \in Emitting(T), i < p, p < y PROVE FALSE
  <2>1. p \in Nat
    <3>1. p \in DOMAIN T /\ Len(T) \in Nat /\ DOMAIN T = 1 .. Len(T)
      BY DEF Emitting, Ops, Whole
    <3> QED
      BY <3>1
  <2>2. x <= p
    BY <1>6, <1>7, <2>1
  <2>3. PICK k \in 1 .. l : code[k] = p
    BY <1>2, <1>3, <1>4, <1>7, <2>2 DEF IsCode
  <2>4. k = l \/ k < l
    OBVIOUS
  <2>5. k < l => p < i
    BY <1>2, <1>3, <1>4, <1>5, <2>3 DEF IsCode
  <2>6. k = l => p = i
    BY <1>5, <2>3
  <2>7. p = i \/ p < i
    BY <2>4, <2>5, <2>6
  <2> QED
    BY <1>7, <2>1, <2>7
<1> QED
  BY <1>1, <1>3, <1>5, <1>6, <1>7

\* Behind the code of a block, text and blocks come to the same calls first.
LEMMA LeavingAgrees ==
  ASSUME NEW B, NEW T, NEW s, NEW owner, NEW metas, NEW S, NEW C \in Seq(S),
         Whole(B, T, s, owner, metas, C), Apart(C), NEW m \in 1 .. Len(B), B[m].code # <<>>
  PROVE  TextTo(T, After(T, Last(B[m].code))) = BlocksTo(C, B[m].children \cap NamesIn(C))
<1>1. PICK n \in Nat : n = Len(T) /\ DOMAIN T = 1 .. n
  BY DEF Whole
<1>2. PICK x \in Nat, y \in Nat : x = s[m] /\ y = s[m + 1] /\ x <= y /\ y <= n + 1 /\ 1 <= x
                                  /\ (m = Len(B) => y = n + 1)
  BY <1>1, PlacesOf
<1>3. PICK i \in Nat : i = Last(B[m].code) /\ x <= i /\ i < y /\ i \in Emitting(T)
                       /\ \A p \in Emitting(T) : i < p => ~ (p < y)
  BY <1>2, LastCode
<1>4. PICK N : N = B[m].children \cap NamesIn(C)
  OBVIOUS
<1>5. PICK from : from = After(T, i)
  OBVIOUS
<1>6. from \subseteq Places(T) /\ i \in Places(T)
  <2>1. i \in Places(T)
    BY <1>1, <1>2, <1>3 DEF Places
  <2> QED
    BY <1>1, <1>5, <2>1, AfterSays
<1>7. TextTo(T, from) \subseteq BlocksTo(C, N)
  <2>1. PICK K : K = BlocksOn(C, N)
    OBVIOUS
  <2>2. N \subseteq K /\ BlocksClosed(C, K)
    BY <1>4, <2>1, BlocksOnClose
  <2>3. PICK D : D = Cover(B, T, s, K)
    OBVIOUS
  <2>4. PICK X : X = {p \in Places(T) : i < p /\ p \in Span(B, T, s, m)}
    OBVIOUS
  <2>5. PICK P : P = D \cup X
    OBVIOUS
  <2>6. \A j \in 1 .. Len(B) : B[j].name \in K => s[j] \in P
    BY <2>2, <2>3, <2>5, StartsOn
  <2>7. ASSUME NEW p \in Nat, i <= p, p < y PROVE After(T, p) \subseteq P
    <3>1. s[m] <= p /\ p < s[m + 1]
      BY <1>2, <1>3, <2>7
    <3>2. ASSUME p + 1 < y \/ m = Len(B) PROVE p + 1 \in P
      <4>1. p + 1 \in x .. y /\ i < p + 1 /\ p + 1 \in 1 .. (n + 1)
        BY <1>2, <1>3, <2>7
      <4>2. p + 1 \in Span(B, T, s, m)
        BY <1>2, <3>2, <4>1 DEF Span
      <4> QED
        BY <1>1, <2>4, <2>5, <4>1, <4>2 DEF Places
    <3>3. Holds(P, B, s, C, K, m, p)
      BY <1>2, <1>4, <2>2, <2>6, <3>1, <3>2 DEF Holds
    <3> QED
      BY <2>2, <3>3, GoesInto
  <2>8. from \subseteq P
    BY <1>3, <1>5, <2>7
  <2>9. ASSUME NEW p \in X PROVE After(T, p) \subseteq P
    <3>1. p \in 1 .. (n + 1) /\ i < p /\ p \in x .. y /\ (p < y \/ m = Len(B))
      BY <1>1, <1>2, <2>4 DEF Places, Span
    <3>2. CASE p = n + 1
      <4>1. After(T, p) = {}
        BY <1>1, <2>4, <3>2, AfterSays
      <4> QED
        BY <4>1
    <3>3. CASE p # n + 1
      <4>1. p \in Nat /\ i <= p /\ p < y
        BY <1>2, <1>3, <3>1, <3>3
      <4> QED
        BY <2>7, <4>1
    <3> QED
      BY <3>2, <3>3
  <2>10. QuietlyClosed(T, P)
    <3>1. \A p \in D : p \notin Emitting(T) => After(T, p) \subseteq D
      BY <2>2, <2>3, CoverCloses
    <3> QED
      BY <2>5, <2>9, <3>1 DEF QuietlyClosed, ClosedAt
  <2>11. TextOn(T, from) \subseteq P
    BY <1>1, <1>6, <2>8, <2>10, TextOnCloses
  <2>12. ASSUME NEW p \in P, p \in Emitting(T) PROVE p \in Heads(C, K)
    <3>1. p \notin X
      <4>1. SUFFICES ASSUME p \in X PROVE FALSE
        OBVIOUS
      <4>2. p \in x .. y /\ i < p /\ (p < y \/ m = Len(B))
        BY <1>2, <2>4, <4>1 DEF Span
      <4>3. p \in 1 .. n
        BY <1>1, <2>12 DEF Emitting, Ops
      <4>4. p < y
        BY <1>2, <4>2, <4>3
      <4> QED
        BY <1>3, <2>12, <4>2, <4>4
    <3> QED
      BY <2>3, <2>5, <2>12, <3>1, CoverEmits
  <2> QED
    BY <2>1, <2>11, <2>12 DEF TextTo, BlocksTo
<1>8. BlocksTo(C, N) \subseteq TextTo(T, from)
  <2>1. PICK L : L = TextOn(T, from)
    OBVIOUS
  <2>2. from \subseteq L /\ QuietlyClosed(T, L)
    BY <1>1, <1>6, <2>1, TextOnCloses
  <2>3. ASSUME NEW p \in (i + 1) .. (y - 1) PROVE ClosedAt(T, p, L)
    <3>1. i < p /\ p < y /\ p \in 1 .. (n + 1)
      BY <1>2, <1>3
    <3>2. p \in Places(T) \ Emitting(T)
      BY <1>1, <1>3, <3>1 DEF Places
    <3> QED
      BY <2>2, <3>2 DEF QuietlyClosed
  <2>4. N \subseteq Begun(B, s, metas, C, L)
    <3>1. s[m] <= i /\ i < s[m + 1] /\ After(T, i) \subseteq L
      BY <1>2, <1>3, <1>5, <2>2
    <3>2. \A p \in (i + 1) .. (s[m + 1] - 1) : ClosedAt(T, p, L)
      BY <1>2, <2>3
    <3> QED
      BY <1>4, <3>1, <3>2, LeavesBegun
  <2>5. BlocksTo(C, N) \subseteq L \cap Emitting(T)
    BY <2>2, <2>4, HeadsAreMet
  <2> QED
    BY <2>1, <2>5 DEF TextTo
<1> QED
  BY <1>3, <1>4, <1>5, <1>7, <1>8

Adjoin(code, k, z) == k \in 1 .. Len(code) /\ z \in 1 .. Len(code) /\ z = k + 1

\* Within the code of a block, the text comes to the next call of the code first.
LEMMA WithinAgrees ==
  ASSUME NEW T, NEW x, NEW y, Piece(T, x, y), NEW code, IsCode(code, T, x, y),
         NEW k, NEW z, Adjoin(code, k, z)
  PROVE  TextTo(T, After(T, code[k])) = {code[z]}
<1>0. PICK l \in Nat : l = Len(code)
  BY DEF IsCode
<1>k. k \in 1 .. l /\ z \in 1 .. l /\ z = k + 1 /\ k \in Nat /\ z \in Nat
  BY <1>0 DEF Adjoin
<1>1. PICK n \in Nat : n = Len(T) /\ DOMAIN T = 1 .. n
  BY DEF Piece
<1>2. x \in Nat /\ y \in Nat /\ 1 <= x /\ y <= n + 1
  BY <1>1 DEF Piece
<1>3. /\ \A h \in 1 .. l : code[h] \in Nat /\ x <= code[h] /\ code[h] < y /\ code[h] \in Emitting(T)
      /\ \A p \in Emitting(T) : x <= p /\ p < y => \E h \in 1 .. l : code[h] = p
      /\ \A g, h \in 1 .. l : g < h => code[g] < code[h]
  BY <1>0 DEF IsCode
<1>4. PICK i \in Nat : i = code[k] /\ x <= i /\ i < y /\ i \in Emitting(T)
  BY <1>k, <1>3
<1>5. PICK j \in Nat : j = code[z] /\ i < j /\ j < y /\ j \in Emitting(T)
  <2>1. k < z
    BY <1>k
  <2> QED
    BY <1>k, <1>3, <1>4, <2>1
<1>6. ASSUME NEW p \in Emitting(T), i < p, p <= j PROVE p = j
  <2>1. p \in Nat
    BY <1>1 DEF Emitting, Ops
  <2>2. x <= p /\ p < y
    BY <1>2, <1>4, <1>5, <1>6, <2>1
  <2>3. PICK h \in 1 .. l : code[h] = p
    BY <1>3, <2>2
  <2>4. h < k \/ h = k \/ h = z \/ z < h
    BY <1>k
  <2>5. ~ (h < k) /\ h # k
    BY <1>k, <1>3, <1>4, <1>6, <2>1, <2>3
  <2>6. ~ (z < h)
    BY <1>k, <1>3, <1>5, <1>6, <2>1, <2>3
  <2> QED
    BY <1>5, <2>3, <2>4, <2>5, <2>6
<1>7. After(T, i) = {i + 1} /\ i + 1 \in Places(T) /\ {i + 1} \subseteq Places(T)
  <2>1. i + 1 < y
    BY <1>2, <1>4, <1>5
  <2>2. i + 1 \in 1 .. (n + 1)
    BY <1>2, <2>1
  <2> QED
    BY <1>1, <1>4, <2>1, <2>2, PieceGoesOn DEF Places
<1>8. PICK L : L = TextOn(T, {i + 1})
  OBVIOUS
<1>9. i + 1 \in L /\ QuietlyClosed(T, L) /\ \A P : {i + 1} \subseteq P /\ QuietlyClosed(T, P) => L \subseteq P
  BY <1>1, <1>7, <1>8, TextOnCloses
<1>10. L \cap Emitting(T) \subseteq {j}
  <2>1. PICK P : P = (i + 1) .. j
    OBVIOUS
  <2>2. i + 1 \in P
    BY <1>5, <2>1
  <2>3. ASSUME NEW p \in P, p \notin Emitting(T) PROVE After(T, p) \subseteq P
    <3>1. p \in Nat /\ i < p /\ p <= j /\ p # j
      BY <1>5, <2>1, <2>3
    <3>2. x <= p /\ p + 1 < y /\ p + 1 \in P
      BY <1>2, <1>4, <1>5, <2>1, <3>1
    <3>3. After(T, p) = {p + 1}
      BY <3>1, <3>2, PieceGoesOn
    <3> QED
      BY <3>2, <3>3
  <2>4. L \subseteq P
    BY <1>9, <2>2, <2>3 DEF QuietlyClosed, ClosedAt
  <2>5. ASSUME NEW p \in P, p \in Emitting(T) PROVE p = j
    <3>1. i < p /\ p <= j
      BY <2>1
    <3> QED
      BY <1>6, <2>5, <3>1
  <2> QED
    BY <2>4, <2>5
<1>11. j \in L
  <2>1. i + 1 \in Nat /\ x <= i + 1 /\ i + 1 <= j
    BY <1>2, <1>4, <1>5
  <2>2. ASSUME NEW p \in (i + 1) .. (j - 1) PROVE ClosedAt(T, p, L)
    <3>1. i < p /\ p <= j /\ p # j /\ p \in 1 .. (n + 1)
      BY <1>2, <1>4, <1>5
    <3>2. p \in Places(T) \ Emitting(T)
      BY <1>1, <1>6, <3>1 DEF Places
    <3> QED
      BY <1>9, <3>2 DEF QuietlyClosed
  <2> QED
    BY <1>5, <1>9, <2>1, <2>2, WalksTo
<1> QED
  BY <1>4, <1>5, <1>7, <1>8, <1>10, <1>11 DEF TextTo

Within(b) == {<<b.code[k], b.code[k + 1]>> : k \in 1 .. (Len(b.code) - 1)}
Leaving(C, b) == IF b.code = <<>> THEN {}
                 ELSE {<<Last(b.code), j>> : j \in BlocksTo(C, b.children \cap NamesIn(C))}
RunsOn(C) == UNION {Within(b) \cup Leaving(C, b) : b \in {BlockNamed(C, name) : name \in Reached(C)}}
GoesOn(T) == UNION {{<<i, j>> : j \in TextTo(T, After(T, i))} : i \in Emitting(T) \cap Visited(T)}

\* The order of the code by blocks and by the text, in these words.
LEMMA BlockFlowIs ==
  ASSUME NEW C
  PROVE  BlockFlow(C) = RunsOn(C) \cup {<<0, j>> : j \in BlocksTo(C, {Head(C).name})}
<1> DEFINE U == UNION {Within(b) \cup Leaving(C, b) : b \in {BlockNamed(C, name) : name \in Reached(C)}}
<1>1. BlockFlow(C) = U \cup {<<0, j>> : j \in BlocksTo(C, {Head(C).name})}
  BY Zenon DEF BlockFlow, Within, Leaving, BlocksTo, Heads, BlocksOn
<1>2. \A e : e \in U <=> \E name \in Reached(C) : e \in Within(BlockNamed(C, name)) \cup Leaving(C, BlockNamed(C, name))
  OBVIOUS
<1>3. \A e : e \in RunsOn(C) <=>
               \E name \in Reached(C) : e \in Within(BlockNamed(C, name)) \cup Leaving(C, BlockNamed(C, name))
  BY DEF RunsOn
<1> HIDE DEF U
<1>4. U = RunsOn(C)
  BY <1>2, <1>3
<1> QED
  BY <1>1, <1>4

\* What follows what in the text, in these words.
LEMMA TextFlowIs ==
  ASSUME NEW T
  PROVE  TextFlow(T) = GoesOn(T) \cup {<<0, j>> : j \in TextTo(T, {1})}
<1> DEFINE U == UNION {{<<i, j>> : j \in TextTo(T, After(T, i))} : i \in Emitting(T) \cap Visited(T)}
<1>1. TextFlow(T) = U \cup {<<0, j>> : j \in TextTo(T, {1})}
  BY Zenon DEF TextFlow, TextTo, TextOn
<1>2. \A e : e \in U <=> \E i \in Emitting(T) \cap Visited(T) : e \in {<<i, j>> : j \in TextTo(T, After(T, i))}
  OBVIOUS
<1>3. \A e : e \in GoesOn(T) <=> \E i \in Emitting(T) \cap Visited(T) : e \in {<<i, j>> : j \in TextTo(T, After(T, i))}
  BY DEF GoesOn
<1> HIDE DEF U
<1>4. U = GoesOn(T)
  BY <1>2, <1>3
<1> QED
  BY <1>1, <1>4

\* The same, for the code of any piece.
LEMMA ComesNext ==
  \A T, x, y, code : Piece(T, x, y) /\ IsCode(code, T, x, y) =>
    \A k, z : Adjoin(code, k, z) => TextTo(T, After(T, code[k])) = {code[z]}
BY WithinAgrees

\* Where a call of the code of a block leads is in the block or behind it.
LEMMA CodeFlows ==
  ASSUME NEW B, NEW T, NEW s, NEW owner, NEW metas, NEW S, NEW C \in Seq(S),
         Whole(B, T, s, owner, metas, C), Apart(C), NEW m \in 1 .. Len(B)
  PROVE  \A i, j : <<i, j>> \in Within(B[m]) \cup Leaving(C, B[m]) <=>
                     (\E k \in 1 .. Len(B[m].code) : i = B[m].code[k]) /\ j \in TextTo(T, After(T, i))
<1>1. PICK x \in Nat, y \in Nat : x = s[m] /\ y = s[m + 1] /\ Piece(T, x, y)
  <2>1. Piece(T, s[m], s[m + 1])
    BY PieceIs
  <2> QED
    BY <2>1 DEF Piece
<1>2. PICK code : code = B[m].code /\ code \in Seq(Nat) /\ IsCode(code, T, x, y)
  <2>1. IsCode(B[m].code, T, x, y)
    BY <1>1, CodeOf
  <2>2. B[m].code \in Seq(Nat)
    BY <2>1 DEF IsCode
  <2> QED
    BY <2>1, <2>2
<1>3. PICK l \in Nat : l = Len(code)
  BY <1>2
<1>4. ASSUME NEW k \in 1 .. l, NEW z \in 1 .. l, z = k + 1 PROVE TextTo(T, After(T, code[k])) = {code[z]}
  <2>1. Piece(T, x, y) /\ IsCode(code, T, x, y)
    BY <1>1, <1>2
  <2>2. Adjoin(code, k, z)
    BY <1>3, <1>4 DEF Adjoin
  <2> QED
    BY <2>1, <2>2, ComesNext
<1>5. PICK N : N = B[m].children \cap NamesIn(C)
  OBVIOUS
<1>6. code # <<>> => l \in 1 .. l /\ TextTo(T, After(T, code[l])) = BlocksTo(C, N) /\ Last(code) = code[l]
  <2>1. ASSUME code # <<>> PROVE l \in 1 .. l /\ Last(code) = code[l]
    <3>1. Len(code) \in 1 .. Len(code) /\ Last(code) = code[Len(code)]
      BY <1>2, <2>1 DEF Last
    <3> QED
      BY <1>3, <3>1
  <2>2. code # <<>> => TextTo(T, After(T, Last(code))) = BlocksTo(C, N)
    BY <1>2, <1>5, LeavingAgrees
  <2> QED
    BY <2>1, <2>2
<1>7. Within(B[m]) = {<<code[k], code[k + 1]>> : k \in 1 .. (l - 1)}
  BY <1>2, <1>3 DEF Within
<1>8. /\ code = <<>> => Leaving(C, B[m]) = {}
      /\ code # <<>> => Leaving(C, B[m]) = {<<Last(code), j>> : j \in BlocksTo(C, N)}
  BY <1>2, <1>5 DEF Leaving
<1>9. ASSUME NEW i, NEW j, <<i, j>> \in Within(B[m])
      PROVE  (\E k \in 1 .. l : i = code[k]) /\ j \in TextTo(T, After(T, i))
  <2>1. PICK k \in 1 .. (l - 1) : <<i, j>> = <<code[k], code[k + 1]>>
    BY <1>7, <1>9
  <2>2. i = code[k] /\ j = code[k + 1] /\ k \in 1 .. l
    BY <2>1
  <2>3. PICK z \in 1 .. l : z = k + 1
    OBVIOUS
  <2>4. TextTo(T, After(T, code[k])) = {code[z]}
    BY <1>4, <2>2, <2>3
  <2> QED
    BY <2>2, <2>3, <2>4
<1>10. ASSUME NEW i, NEW j, <<i, j>> \in Leaving(C, B[m])
       PROVE  (\E k \in 1 .. l : i = code[k]) /\ j \in TextTo(T, After(T, i))
  <2>1. code # <<>> /\ <<i, j>> \in {<<Last(code), h>> : h \in BlocksTo(C, N)}
    BY <1>8, <1>10
  <2>2. PICK h \in BlocksTo(C, N) : <<i, j>> = <<Last(code), h>>
    BY <2>1
  <2>3. i = Last(code) /\ j = h
    BY <2>2
  <2> QED
    BY <1>6, <2>1, <2>3
<1>11. ASSUME NEW k \in 1 .. l, NEW j \in TextTo(T, After(T, code[k]))
       PROVE  <<code[k], j>> \in Within(B[m]) \cup Leaving(C, B[m])
  <2>1. CASE k = l
    <3>1. code # <<>>
      <4>1. SUFFICES ASSUME code = <<>> PROVE FALSE
        OBVIOUS
      <4>2. Len(code) = 0
        BY <4>1
      <4> QED
        BY <1>3, <4>2
    <3>2. j \in BlocksTo(C, N) /\ Last(code) = code[k]
      BY <1>6, <2>1, <3>1
    <3>3. <<code[k], j>> \in Leaving(C, B[m])
      BY <1>8, <3>1, <3>2
    <3> QED
      BY <3>3
  <2>2. CASE k # l
    <3>1. PICK z \in 1 .. l : z = k + 1
      BY <2>2
    <3>2. j = code[z] /\ k \in 1 .. (l - 1)
      <4>1. TextTo(T, After(T, code[k])) = {code[z]}
        BY <1>4, <3>1
      <4>2. k \in 1 .. (l - 1)
        BY <1>3, <2>2
      <4> QED
        BY <4>1, <4>2
    <3>3. <<code[k], code[k + 1]>> \in Within(B[m])
      BY <1>7, <3>2
    <3>4. code[k + 1] = j
      BY <3>1, <3>2
    <3> QED
      BY <3>3, <3>4
  <2> QED
    BY <2>1, <2>2
<1> QED
  BY <1>2, <1>3, <1>9, <1>10, <1>11

\* The calls that emit and that execution comes to are the code of blocks that are reached.
LEMMA VisitedIsCode ==
  ASSUME NEW B, NEW T, NEW s, NEW owner, NEW metas, NEW S, NEW C \in Seq(S),
         Whole(B, T, s, owner, metas, C), NEW i
  PROVE  i \in Emitting(T) \cap Visited(T) <=>
           \E m \in 1 .. Len(B) : B[m].name \in Reached(C) /\ \E k \in 1 .. Len(B[m].code) : i = B[m].code[k]
<1>1. PICK b \in Nat : b = Len(B)
  BY DEF Whole
<1>2. PICK n \in Nat : n = Len(T) /\ DOMAIN T = 1 .. n
  BY DEF Whole
<1>3. ASSUME i \in Emitting(T) \cap Visited(T)
      PROVE  \E m \in 1 .. b : B[m].name \in Reached(C) /\ \E k \in 1 .. Len(B[m].code) : i = B[m].code[k]
  <2>1. PICK m \in 1 .. b : B[m].name \in Reached(C) /\ i \in Span(B, T, s, m)
    BY <1>1, <1>3, VisitedCovered DEF PlacesCut
  <2>2. PICK x \in Nat, y \in Nat : x = s[m] /\ y = s[m + 1] /\ x <= y /\ y <= n + 1 /\ 1 <= x
                                    /\ (m = b => y = n + 1)
    BY <1>1, <1>2, PlacesOf
  <2>3. i \in 1 .. n
    BY <1>2, <1>3 DEF Emitting, Ops
  <2>4. x <= i /\ i < y
    <3>1. i \in x .. y /\ (i < y \/ m = b)
      BY <1>1, <2>1, <2>2 DEF Span
    <3> QED
      BY <2>2, <2>3, <3>1
  <2>5. IsCode(B[m].code, T, x, y)
    BY <1>1, <2>2, CodeOf
  <2>6. \E k \in 1 .. Len(B[m].code) : i = B[m].code[k]
    BY <1>3, <2>4, <2>5 DEF IsCode
  <2> QED
    BY <2>1, <2>6
<1>4. ASSUME NEW m \in 1 .. b, B[m].name \in Reached(C),
             NEW k \in 1 .. Len(B[m].code), i = B[m].code[k]
      PROVE  i \in Emitting(T) \cap Visited(T)
  <2>1. PICK x \in Nat, y \in Nat : x = s[m] /\ y = s[m + 1] /\ Piece(T, x, y)
    <3>1. Piece(T, s[m], s[m + 1])
      BY <1>1, PieceIs
    <3> QED
      BY <3>1 DEF Piece
  <2>2. IsCode(B[m].code, T, x, y)
    BY <1>1, <2>1, CodeOf
  <2>3. x <= i /\ i < y /\ i \in Emitting(T)
    BY <1>4, <2>2 DEF IsCode
  <2>4. i \in Nat
    BY <1>2, <2>3 DEF Emitting, Ops
  <2>5. i \in Span(B, T, s, m)
    BY <2>1, <2>3, <2>4 DEF Span
  <2>6. s[m] \in Visited(T)
    BY <1>1, <1>4, ReachedBegun DEF Begun
  <2>7. Span(B, T, s, m) \subseteq Visited(T)
    BY <1>1, <2>6, StraightOn
  <2> QED
    BY <2>3, <2>5, <2>7
<1> QED
  BY <1>1, <1>3, <1>4

\* The blocks of a complete function run its calls in the order of the text.
LEMMA FlowAgrees ==
  ASSUME NEW B, NEW T, NEW s, NEW owner, NEW metas, NEW S, NEW C \in Seq(S),
         Whole(B, T, s, owner, metas, C), Apart(C)
  PROVE  BlockFlow(C) = TextFlow(T)
<1>1. PICK b \in Nat : b = Len(B) /\ 1 <= b
  BY DEF Whole
<1>2. PICK c \in Nat : c = Len(C) /\ DOMAIN C = 1 .. c /\ b <= c /\ \A m \in 1 .. b : C[m] = B[m]
  BY <1>1 DEF Whole, Completes
<1>3. Head(C) = C[1] /\ C # <<>>
  <2>1. C # <<>>
    BY <1>1, <1>2
  <2> QED
    BY <2>1
<1>4. {<<0, j>> : j \in BlocksTo(C, {Head(C).name})} = {<<0, j>> : j \in TextTo(T, {1})}
  BY <1>3, StartAgrees
<1>7. ASSUME NEW e \in RunsOn(C) PROVE e \in GoesOn(T)
  <2>1. PICK name \in Reached(C) : e \in Within(BlockNamed(C, name)) \cup Leaving(C, BlockNamed(C, name))
    BY DEF RunsOn
  <2>2. PICK k \in 1 .. c : name = C[k].name
    <3>1. name \in NamesIn(C)
      BY <1>3, ReachedIsLeast
    <3> QED
      BY <1>2, <3>1 DEF NamesIn, ToSet
  <2>3. BlockNamed(C, name) = C[k]
    BY <1>2, <2>2, BlockIs
  <2>4. e \in Within(C[k]) \cup Leaving(C, C[k])
    BY <2>1, <2>3
  <2>5. k \in 1 .. b /\ C[k] = B[k]
    <3>1. SUFFICES ASSUME k > b PROVE FALSE
      BY <1>2
    <3>2. C[k].code = <<>>
      BY <1>1, <1>2, <3>1, MetaCodeless
    <3>3. Within(C[k]) = {} /\ Leaving(C, C[k]) = {}
      <4>1. 1 .. (Len(<<>>) - 1) = {}
        OBVIOUS
      <4> QED
        BY <3>2, <4>1 DEF Within, Leaving
    <3> QED
      BY <2>4, <3>3
  <2>6. PICK i : \E h : e = <<i, h>>
    <3>1. CASE e \in Within(C[k])
      BY <3>1 DEF Within
    <3>2. CASE e \in Leaving(C, C[k])
      BY <3>2 DEF Leaving
    <3> QED
      BY <2>4, <3>1, <3>2
  <2>6j. PICK j : e = <<i, j>>
    BY <2>6
  <2>7. (\E h \in 1 .. Len(B[k].code) : i = B[k].code[h]) /\ j \in TextTo(T, After(T, i))
    BY <1>1, <2>4, <2>5, <2>6j, CodeFlows
  <2>8. i \in Emitting(T) \cap Visited(T)
    BY <1>1, <2>1, <2>2, <2>5, <2>7, VisitedIsCode
  <2> QED
    BY <2>6j, <2>7, <2>8 DEF GoesOn
<1>8. ASSUME NEW e \in GoesOn(T) PROVE e \in RunsOn(C)
  <2>0. PICK i \in Emitting(T) \cap Visited(T) : e \in {<<i, h>> : h \in TextTo(T, After(T, i))}
    BY DEF GoesOn
  <2>1. PICK j \in TextTo(T, After(T, i)) : e = <<i, j>>
    BY <2>0
  <2>2. PICK m \in 1 .. b : /\ B[m].name \in Reached(C)
                            /\ \E k \in 1 .. Len(B[m].code) : i = B[m].code[k]
    BY <1>1, <2>1, VisitedIsCode
  <2>3. <<i, j>> \in Within(B[m]) \cup Leaving(C, B[m])
    BY <1>1, <2>1, <2>2, CodeFlows
  <2>4. BlockNamed(C, B[m].name) = B[m]
    <3>1. m \in DOMAIN C /\ C[m] = B[m]
      BY <1>2
    <3> QED
      BY <3>1, BlockIs
  <2> QED
    BY <2>1, <2>2, <2>3, <2>4 DEF RunsOn
<1>9. RunsOn(C) = GoesOn(T)
  BY <1>7, <1>8
<1> QED
  BY <1>4, <1>9, BlockFlowIs, TextFlowIs

----------------------------------------------------------------------------
(* endProgram. *)

\* Within a program, names of blocks are apart because they tell the text.
LEMMA ApartInProgram ==
  ASSUME InProgram
  PROVE  \A k \in DOMAIN functions : Apart(functions[k].blocks)
<1>1. \A k \in DOMAIN functions : Told(functions[k].blocks, text[k], functions[k].name, metaBlocks, Going(k))
  BY DEF InProgram, BlocksTell
<1> QED
  BY <1>1, ApartTold

\* When the program ends, the blocks of each function run its calls as the text puts them.
LEMMA FlowIsKept ==
  ASSUME Typed, InProgram, ~ inFunction, NEW k \in DOMAIN functions
  PROVE  BlockFlow(Completed[k].blocks) = TextFlow(text[k])
<1>1. PICK C, B, T, s, owner, metas :
        /\ C \in Seq(BlockType) /\ C = Completed[k].blocks /\ T = text[k] /\ Apart(C)
        /\ Whole(B, T, s, owner, metas, C)
  BY WholeAtEnd
<1>2. BlockFlow(C) = TextFlow(T)
  BY <1>1, FlowAgrees
<1> QED
  BY <1>1, <1>2

\* endProgram judges the program rightly, and what it accepts runs as the text has it.
LEMMA ProgramEnds ==
  ASSUME Typed, InProgram, EndProgram
  PROVE  VerdictIsRight' /\ BlocksFollowText' /\ Typed' /\ \A k \in DOMAIN functions' : Apart(functions'[k].blocks)
<1>1. ~ inFunction /\ phase = "program" /\ text' = text
  BY DEF EndProgram
<1>2. PICK checks \in Seq(CheckType) : checks = Checks
  BY ChecksAre DEF Typed
<1>3. PICK first : first = FirstFailing(checks)
  OBVIOUS
<1>4. Range(checks) = {checks[i] : i \in DOMAIN checks}
  BY DEF Range
<1>5. /\ \A f : IsDefined(f) <=> \E k \in DOMAIN functions : functions[k].name = f
      /\ \A f : IsDefined(f)' <=> \E k \in DOMAIN functions' : functions'[k].name = f
  BY DEF IsDefined
<1>6. ASSUME \A f : IsDefined(f)' <=> IsDefined(f) PROVE \A c : c \in Faults' <=> c \in Faults
  BY <1>1, <1>6 DEF Faults, Fault
<1>7. CASE first # 0
  <2>1. /\ phase' = "rejected" /\ error' = checks[first].code
        /\ UNCHANGED <<functions, metaBlocks, labelChecks>>
    BY <1>2, <1>3, <1>7 DEF EndProgram, Reject
  <2>2. PICK e : e = checks[first] /\ e \in Range(checks) /\ e.fails
    BY <1>3, <1>4, <1>7, FirstFailingIs
  <2>3. \/ error' \in Faults
        \/ error' = "std::out_of_range" /\ "FunctionDoesNotExist" \in Faults
    BY <1>1, <1>2, <2>1, <2>2, ChecksFind
  <2>4. \A f : IsDefined(f)' <=> IsDefined(f)
    BY <1>5, <2>1
  <2>5. Faults' # {} /\ (error' \in FaultCodes => error' \in Faults')
    <3>1. "std::out_of_range" \notin FaultCodes
      BY DEF FaultCodes
    <3> QED
      BY <1>6, <2>3, <2>4, <3>1
  <2>6. VerdictIsRight'
    BY <2>1, <2>5 DEF VerdictIsRight
  <2>7. \A k \in DOMAIN functions : Apart(functions[k].blocks)
    BY ApartInProgram
  <2> QED
    BY <1>1, <2>1, <2>6, <2>7 DEF Typed, BlocksFollowText
<1>8. CASE first = 0
  <2>1. /\ functions' = Completed /\ metaBlocks' = <<>> /\ labelChecks' = {}
        /\ (phase' = "stopped" \/ phase' = "ended")
    BY <1>2, <1>3, <1>8 DEF EndProgram, Cleared, Stop
  <2>2. \A c : c \notin Faults
    <3>1. \A i \in DOMAIN checks : ~ checks[i].fails
      BY <1>3, <1>8, FirstFailingIs
    <3> QED
      BY <1>1, <1>2, <1>4, <3>1, ChecksFind
  <2>3. PICK done \in Seq(FunctionType) :
          /\ done = Completed /\ DOMAIN done = DOMAIN functions
          /\ \A k \in DOMAIN functions : done[k].name = functions[k].name /\ Apart(done[k].blocks)
    BY CompletedIs DEF Complete
  <2>4. \A f : IsDefined(f)' <=> IsDefined(f)
    BY <1>5, <2>1, <2>3
  <2>5. Faults' = {}
    BY <1>6, <2>2, <2>4
  <2>6. VerdictIsRight'
    BY <2>1, <2>5 DEF VerdictIsRight
  <2>7. <<>> \in Seq(MetaType)
    OBVIOUS
  <2>8. Typed'
    BY <1>1, <2>1, <2>3, <2>7 DEF Typed
  <2>9. \A k \in DOMAIN functions' : BlockFlow(functions'[k].blocks) = TextFlow(text'[k])
    <3>1. ASSUME NEW k \in DOMAIN functions PROVE BlockFlow(Completed[k].blocks) = TextFlow(text[k])
      BY <1>1, FlowIsKept
    <3> QED
      BY <1>1, <2>1, <2>3, <3>1
  <2> QED
    BY <2>1, <2>3, <2>6, <2>8, <2>9 DEF BlocksFollowText
<1> QED
  BY <1>7, <1>8

Flags == inFunction \in BOOLEAN /\ open \in BOOLEAN

\* What TypeOK, VerdictIsRight and BlocksFollowText rest on.
BuilderInv ==
  /\ BlockInv
  /\ Flags
  /\ depth \in 0 .. MaxDepth
  /\ Typed
  /\ phase = "program" => InProgram
  /\ \A k \in DOMAIN functions : Apart(functions[k].blocks)
  /\ VerdictIsRight
  /\ BlocksFollowText

\* What is open or not stays so or changes.
LEMMA StepFlags ==
  ASSUME Flags, [Next]_vars
  PROVE  Flags'
<1> USE DEF Flags
<1>1. CASE UNCHANGED vars
  BY <1>1 DEF vars
<1>2. CASE BeginProgram \/ EndProgram \/ EndFunction
  BY <1>2 DEF BeginProgram, EndProgram, EndFunction
<1>3. ASSUME NEW f \in Functions, BeginFunction(f) PROVE Flags'
  BY <1>3 DEF BeginFunction
<1>4. CASE BodyCall
  <2>1. CASE Work \/ Unreachable
    BY <2>1 DEF Work, Unreachable
  <2>2. ASSUME NEW l \in Labels, BeginLabel(l) \/ Jump(l) PROVE Flags'
    BY <2>2 DEF BeginLabel, Jump, LeaveFor
  <2>3. ASSUME NEW l \in Labels, NEW k \in Labels, JumpIf(l, k) \/ JumpIfLiteral(l, k) PROVE Flags'
    BY <2>3 DEF JumpIf, JumpIfLiteral, LeaveFor
  <2>4. ASSUME NEW callees, Call(callees) PROVE Flags'
    BY <2>4 DEF Call
  <2>5. ASSUME NEW op, Leave(op) PROVE Flags'
    BY <2>5 DEF Leave
  <2>6. CASE BeginScope
    BY <2>6 DEF BeginScope
  <2>7. CASE EndScope
    BY <2>7 DEF EndScope
  <2> QED
    BY <1>4, <2>1, <2>2, <2>3, <2>4, <2>5, <2>6, <2>7 DEF BodyCall
<1>5. CASE Refused \/ Undefined
  BY <1>5 DEF Refused, Undefined, Abandon
<1> QED
  BY <1>1, <1>2, <1>3, <1>4, <1>5 DEF Next

\* The depth of scopes stays in its bounds.
LEMMA StepDepth ==
  ASSUME depth \in 0 .. MaxDepth, [Next]_vars
  PROVE  depth' \in 0 .. MaxDepth
<1> USE BuilderAssumption
<1>1. CASE UNCHANGED vars
  BY <1>1 DEF vars
<1>2. CASE BeginProgram \/ EndProgram \/ EndFunction
  BY <1>2 DEF BeginProgram, EndProgram, EndFunction
<1>3. ASSUME NEW f \in Functions, BeginFunction(f) PROVE depth' \in 0 .. MaxDepth
  BY <1>3 DEF BeginFunction
<1>4. CASE BodyCall
  <2>1. CASE Work \/ Unreachable
    BY <2>1 DEF Work, Unreachable
  <2>2. ASSUME NEW l \in Labels, BeginLabel(l) \/ Jump(l) PROVE depth' \in 0 .. MaxDepth
    BY <2>2 DEF BeginLabel, Jump, LeaveFor
  <2>3. ASSUME NEW l \in Labels, NEW k \in Labels, JumpIf(l, k) \/ JumpIfLiteral(l, k) PROVE depth' \in 0 .. MaxDepth
    BY <2>3 DEF JumpIf, JumpIfLiteral, LeaveFor
  <2>4. ASSUME NEW callees, Call(callees) PROVE depth' \in 0 .. MaxDepth
    BY <2>4 DEF Call
  <2>5. ASSUME NEW op, Leave(op) PROVE depth' \in 0 .. MaxDepth
    BY <2>5 DEF Leave
  <2>6. CASE BeginScope
    BY <2>6 DEF BeginScope
  <2>7. CASE EndScope
    BY <2>7 DEF EndScope
  <2> QED
    BY <1>4, <2>1, <2>2, <2>3, <2>4, <2>5, <2>6, <2>7 DEF BodyCall
<1>5. CASE Refused \/ Undefined
  <2>1. depth' = 0
    BY <1>5 DEF Refused, Undefined, Abandon
  <2> QED
    BY <2>1
<1> QED
  BY <1>1, <1>2, <1>3, <1>4, <1>5 DEF Next

\* Before any call the invariant holds: there is no program.
LEMMA InitBuilder == Init => BuilderInv
<1> SUFFICES ASSUME Init PROVE BuilderInv
  OBVIOUS
<1>1. <<>> \in Seq(FunctionType) /\ <<>> \in Seq(Seq(SayType)) /\ <<>> \in Seq(MetaType) /\ DOMAIN <<>> = {}
  OBVIOUS
<1>2. BlockInv
  BY InitAwaited
<1>3. Flags
  BY DEF Init, Flags
<1>4. depth \in 0 .. MaxDepth
  BY BuilderAssumption DEF Init
<1> QED
  BY <1>1, <1>2, <1>3, <1>4 DEF Init, BuilderInv, Typed, VerdictIsRight, BlocksFollowText

\* The invariant is kept by every call, those that are refused among them.
LEMMA StepBuilder == BuilderInv /\ [Next]_vars => BuilderInv'
<1> SUFFICES ASSUME BuilderInv, [Next]_vars PROVE BuilderInv'
  OBVIOUS
<1>1. BlockInv' /\ Flags' /\ depth' \in 0 .. MaxDepth
  BY StepAwaited, StepFlags, StepDepth DEF BuilderInv
<1>2. BlockInv /\ Typed /\ (phase = "program" => InProgram)
  BY DEF BuilderInv
<1>3. ASSUME phase' = "program", Typed', InProgram' PROVE BuilderInv'
  <2>1. \A k \in DOMAIN functions' : Apart(functions'[k].blocks)
    <3>1. \A k \in DOMAIN functions' : Told(functions'[k].blocks, text'[k], functions'[k].name, metaBlocks', Going(k)')
      BY <1>3 DEF InProgram, BlocksTell
    <3> QED
      BY <3>1, ApartTold
  <2>2. VerdictIsRight' /\ BlocksFollowText'
    BY <1>3 DEF VerdictIsRight, BlocksFollowText
  <2> QED
    BY <1>1, <1>3, <2>1, <2>2 DEF BuilderInv
<1>4. CASE UNCHANGED vars
  <2>1. UNCHANGED <<phase, error, functions, inFunction, open, depth, expected, metaBlocks, labelChecks, text>>
    BY <1>4 DEF vars
  <2>2. Faults' = Faults
    BY <2>1 DEF Faults, IsDefined
  <2>3. VerdictIsRight' /\ BlocksFollowText'
    BY <2>1, <2>2 DEF VerdictIsRight, BlocksFollowText, BuilderInv
  <2>4. Typed'
    BY <1>2, <2>1 DEF Typed
  <2>5. \A k \in DOMAIN functions' : Apart(functions'[k].blocks)
    BY <2>1 DEF BuilderInv
  <2>6. phase' = "program" => InProgram'
    <3>1. ASSUME phase = "program" PROVE InProgram'
      <4>1. Paired' /\ Numbered'
        BY <1>2, <2>1, <3>1 DEF InProgram, Paired, Numbered
      <4>2. CallsNoted' /\ LabelsNoted'
        BY <1>2, <2>1, <3>1 DEF InProgram, CallsNoted, LabelsNoted
      <4>3. MetasKnown'
        BY <1>2, <2>1, <3>1 DEF InProgram, MetasKnown, IsDefined
      <4>4. BlocksTell'
        BY <1>2, <2>1, <3>1 DEF InProgram, BlocksTell, Going
      <4> QED
        BY <4>1, <4>2, <4>3, <4>4 DEF InProgram
    <3> QED
      BY <2>1, <3>1
  <2> QED
    BY <1>1, <2>3, <2>4, <2>5, <2>6 DEF BuilderInv
<1>5. CASE BeginProgram
  BY <1>2, <1>3, <1>5, ProgramBegins DEF BeginProgram
<1>6. CASE EndProgram
  <2>1. InProgram
    BY <1>2, <1>6 DEF EndProgram
  <2>2. VerdictIsRight' /\ BlocksFollowText' /\ Typed' /\ \A k \in DOMAIN functions' : Apart(functions'[k].blocks)
    BY <1>2, <1>6, <2>1, ProgramEnds
  <2>3. phase' # "program"
    BY <1>6 DEF EndProgram, Reject, Stop
  <2> QED
    BY <1>1, <2>2, <2>3 DEF BuilderInv
<1>7. ASSUME NEW f \in Functions, BeginFunction(f) PROVE BuilderInv'
  <2>1. phase = "program" /\ phase' = "program"
    BY <1>7 DEF BeginFunction
  <2> QED
    BY <1>2, <1>3, <1>7, <2>1, FunctionBegins
<1>8. CASE EndFunction
  <2>1. phase = "program" /\ phase' = "program"
    BY <1>8 DEF EndFunction
  <2> QED
    BY <1>2, <1>3, <1>8, <2>1, FunctionEnds
<1>9. CASE BodyCall
  <2>1. phase = "program" /\ inFunction
    BY <1>9 DEF BodyCall, Work, BeginLabel, Jump, JumpIf, JumpIfLiteral, Call, Leave, Unreachable,
                BeginScope, EndScope, Says
  <2>2. PICK D, say : BodyStep(D, say)
    BY <1>2, <1>9, <2>1, BodyFacts, BodySteps
  <2>3. phase' = "program"
    BY <2>2 DEF BodyStep
  <2> QED
    BY <1>2, <1>3, <2>1, <2>2, <2>3, BodyKeeps
<1>10. CASE Refused \/ Undefined
  <2>1. functions' = <<>> /\ text' = <<>> /\ metaBlocks' = <<>>
    BY <1>10 DEF Refused, Undefined, Abandon
  <2>2. \/ phase' = "stopped"
        \/ phase' = "rejected" /\ error' \in MisuseCodes /\ error' \notin FaultCodes
    BY <1>10 DEF Refused, Undefined, Reject, Stop, FaultCodes, MisuseCodes
  <2>3. <<>> \in Seq(FunctionType) /\ <<>> \in Seq(Seq(SayType)) /\ <<>> \in Seq(MetaType) /\ DOMAIN <<>> = {}
    OBVIOUS
  <2>4. VerdictIsRight' /\ BlocksFollowText' /\ Typed'
    BY <2>1, <2>2, <2>3 DEF VerdictIsRight, BlocksFollowText, Typed
  <2> QED
    BY <1>1, <2>1, <2>2, <2>3, <2>4 DEF BuilderInv
<1> QED
  BY <1>4, <1>5, <1>6, <1>7, <1>8, <1>9, <1>10 DEF Next

\* The variables have their types, and the blocks of a function names of their own.
THEOREM WellTyped == Spec => []TypeOK
<1>1. ASSUME BuilderInv PROVE TypeOK
  <2>1. ASSUME NEW fn \in ToSet(functions)
        PROVE  fn.name \in Functions /\ Cardinality(NamesIn(fn.blocks)) = Len(fn.blocks)
    <3>1. PICK k \in DOMAIN functions : fn = functions[k]
      BY DEF ToSet
    <3>2. fn \in FunctionType
      BY <1>1, <3>1 DEF BuilderInv, Typed
    <3>3. Apart(fn.blocks)
      BY <1>1, <3>1 DEF BuilderInv
    <3>4. fn.blocks \in Seq(BlockType) /\ fn.name \in Functions
      BY <3>2 DEF FunctionType
    <3> QED
      BY <3>3, <3>4, ApartCounts
  <2>2. ASSUME NEW m \in ToSet(metaBlocks) PROVE m.callees \subseteq Functions
    <3>1. m \in MetaType
      BY <1>1 DEF BuilderInv, Typed, ToSet
    <3> QED
      BY <3>1 DEF MetaType
  <2> QED
    BY <1>1, <2>1, <2>2 DEF BuilderInv, BlockInv, Awaited, Flags, TypeOK
<1> QED
  BY <1>1, InitBuilder, StepBuilder, PTL DEF Spec

\* The verdict.
THEOREM JudgesRightly == Spec => []VerdictIsRight
<1>1. BuilderInv => VerdictIsRight
  BY DEF BuilderInv
<1> QED
  BY <1>1, InitBuilder, StepBuilder, PTL DEF Spec

\* Through blocks, fallthroughs and metablocks, what the calls emit runs in the order of the text,
\* whatever the program.
THEOREM RunsInOrder == Spec => []BlocksFollowText
<1>1. BuilderInv => BlocksFollowText
  BY DEF BuilderInv
<1> QED
  BY <1>1, InitBuilder, StepBuilder, PTL DEF Spec

=============================================================================
