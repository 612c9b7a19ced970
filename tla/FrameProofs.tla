---------------------------- MODULE FrameProofs ----------------------------
(***************************************************************************)
(* The table of a program's blocks, and the frames as a chain: where one   *)
(* ends the next begins, each waits in a metablock for the one behind it,  *)
(* and the markers on the tape are theirs.  For every program that the     *)
(* interface accepts, cells and tapes of any size.                         *)
(***************************************************************************)
EXTENDS Execution, DispatchProofs

Words == 0 .. (Byte - 1)

----------------------------------------------------------------------------
(* The table of the blocks. *)

Users(p) == UNION {{UserBlock(f, k) : k \in DOMAIN f.blocks} : f \in Range(p.functions)}
Rests(p) == {Rest(b) : b \in {u \in Users(p) : u.kind \in {"return", "abort"}}}
Metas(p) == {MetaBlock(b) : b \in {u \in Users(p) : u.kind = "call"}}
Table(p) == Users(p) \cup Rests(p) \cup Metas(p)

\* The blocks that are made from another one have its function and its exit.
LEMMA BlocksMade ==
  ASSUME NEW p, NEW u \in Users(p)
  PROVE  /\ Rest(u).function = u.function /\ Rest(u).name = <<"after", u.name[2]>>
         /\ Rest(u).kind = "nothing" /\ Rest(u).priority = u.priority
         /\ MetaBlock(u).function = u.function /\ MetaBlock(u).name = <<"meta", u.name[2]>>
         /\ MetaBlock(u).kind = "meta" /\ MetaBlock(u).priority = u.priority
         /\ MetaBlock(u).exit = u.exit
<1>1. PICK f \in Range(p.functions) : \E k \in DOMAIN f.blocks : u = UserBlock(f, k)
  BY DEF Users
<1>2. PICK k \in DOMAIN f.blocks : u = UserBlock(f, k)
  BY <1>1
<1>3. u = [function |-> u.function, name |-> u.name, kind |-> u.kind,
           priority |-> u.priority, compute |-> u.compute, exit |-> u.exit]
  BY <1>2 DEF UserBlock
<1>4. DOMAIN u = {"function", "name", "kind", "priority", "compute", "exit"}
  BY <1>3
<1> QED
  BY <1>4 DEF Rest, MetaBlock, ReturnTo

\* The blocks of a function, with those that nothing leads to.
LEMMA FunctionBlocks ==
  ASSUME NEW p, NEW words, WellFormed(p, words), NEW f \in Range(p.functions)
  PROVE  /\ BlocksOf(f) \in Seq(Users(p) \cup Rests(p))
         /\ Range(BlocksOf(f)) =
              {UserBlock(f, k) : k \in DOMAIN f.blocks}
              \cup {Rest(UserBlock(f, k)) :
                      k \in {j \in DOMAIN f.blocks : f.blocks[j].exit.kind \in {"return", "abort"}}}
<1> DEFINE S == Users(p) \cup Rests(p)
           Ends(k) == f.blocks[k].exit.kind \in {"return", "abort"}
           part(k) == <<UserBlock(f, k)>> \o (IF Ends(k) THEN <<Rest(UserBlock(f, k))>> ELSE <<>>)
           parts == [k \in DOMAIN f.blocks |-> part(k)]
<1>1. Len(f.blocks) \in Nat /\ DOMAIN f.blocks = 1 .. Len(f.blocks)
  <2>1. f.blocks \in Seq(Range(f.blocks))
    BY DEF WellFormed, IsFunction
  <2> QED
    BY <2>1
<1>2. ASSUME NEW k \in DOMAIN f.blocks
      PROVE  /\ UserBlock(f, k) \in S /\ (Ends(k) => Rest(UserBlock(f, k)) \in S)
             /\ part(k) \in Seq(S)
             /\ Range(part(k)) = {UserBlock(f, k)} \cup (IF Ends(k) THEN {Rest(UserBlock(f, k))} ELSE {})
  <2>1. UserBlock(f, k) \in Users(p) /\ UserBlock(f, k).kind = f.blocks[k].exit.kind
    BY DEF Users, UserBlock
  <2>2. Ends(k) => Rest(UserBlock(f, k)) \in Rests(p)
    BY <2>1 DEF Rests
  <2> HIDE DEF S
  <2>3. ASSUME NEW x \in S, NEW y \in S
        PROVE  /\ <<x>> \o <<>> \in Seq(S) /\ Range(<<x>> \o <<>>) = {x}
               /\ <<x>> \o <<y>> \in Seq(S) /\ Range(<<x>> \o <<y>>) = {x, y}
    BY RangeOfFew, Zenon
  <2>4. UserBlock(f, k) \in S /\ (Ends(k) => Rest(UserBlock(f, k)) \in S)
    BY <2>1, <2>2 DEF S
  <2>5. CASE Ends(k)
    <3> HIDE DEF Ends
    <3>1. part(k) = <<UserBlock(f, k)>> \o <<Rest(UserBlock(f, k))>>
      BY <2>5
    <3> HIDE DEF part
    <3>2. part(k) \in Seq(S) /\ Range(part(k)) = {UserBlock(f, k), Rest(UserBlock(f, k))}
      BY <2>3, <2>4, <2>5, <3>1, Zenon
    <3> QED
      BY <2>4, <2>5, <3>2
  <2>6. CASE ~ Ends(k)
    <3> HIDE DEF Ends
    <3>1. part(k) = <<UserBlock(f, k)>> \o <<>>
      BY <2>6
    <3> QED
      BY <2>3, <2>4, <2>6, <3>1
  <2> QED
    BY <2>5, <2>6
<1>3. parts \in Seq(Seq(S)) /\ DOMAIN parts = DOMAIN f.blocks
  <2> HIDE DEF part, S
  <2> QED
    BY <1>1, <1>2
<1>4. /\ FlattenSeq(parts) \in Seq(S)
      /\ Range(FlattenSeq(parts)) = UNION {Range(parts[k]) : k \in DOMAIN parts}
  <2> HIDE DEF parts, S
  <2> QED
    BY <1>3, FlattenRange, Zenon
<1>5. BlocksOf(f) = FlattenSeq(parts)
  BY DEF BlocksOf
<1>6. (UNION {Range(parts[k]) : k \in DOMAIN parts})
        = {UserBlock(f, k) : k \in DOMAIN f.blocks}
          \cup {Rest(UserBlock(f, k)) : k \in {j \in DOMAIN f.blocks : Ends(j)}}
  <2> HIDE DEF part, Ends
  <2> QED
    BY <1>2, <1>3
<1> QED
  BY <1>4, <1>5, <1>6

\* The blocks of a program, in the order of their creation.
LEMMA CreatedBlocks ==
  ASSUME NEW p, NEW words, WellFormed(p, words)
  PROVE  Created(p) \in Seq(Table(p)) /\ Range(Created(p)) = Table(p)
<1> DEFINE S == Users(p) \cup Rests(p)
           parts == [k \in DOMAIN p.functions |-> BlocksOf(p.functions[k])]
           user == FlattenSeq(parts)
           Calls(k) == user[k].kind = "call"
           metas == [k \in DOMAIN user |-> IF Calls(k) THEN <<MetaBlock(user[k])>> ELSE <<>>]
<1>1. Len(p.functions) \in Nat /\ DOMAIN p.functions = 1 .. Len(p.functions)
  <2>1. p.functions \in Seq(Range(p.functions))
    BY DEF WellFormed
  <2> QED
    BY <2>1
<1>2. ASSUME NEW k \in DOMAIN p.functions
      PROVE  p.functions[k] \in Range(p.functions)
  BY DEF Range
<1>3. parts \in Seq(Seq(S)) /\ DOMAIN parts = DOMAIN p.functions
  <2>1. ASSUME NEW k \in DOMAIN p.functions PROVE BlocksOf(p.functions[k]) \in Seq(S)
    BY <1>2, FunctionBlocks
  <2> HIDE DEF S
  <2> QED
    BY <1>1, <2>1
<1>4. /\ user \in Seq(S)
      /\ Range(user) = UNION {Range(parts[k]) : k \in DOMAIN parts}
  <2> HIDE DEF parts, S
  <2> QED
    BY <1>3, FlattenRange, Zenon
<1>5. \A b \in Rests(p) : b.kind = "nothing"
  <2>1. ASSUME NEW u \in Users(p) PROVE Rest(u).kind = "nothing"
    BY BlocksMade, Zenon
  <2> QED
    BY <2>1 DEF Rests
<1>6. Range(user) = Users(p) \cup Rests(p)
  <2>1. ASSUME NEW b \in Range(user) PROVE b \in Users(p) \cup Rests(p)
    BY <1>4, <2>1 DEF Range
  <2>2. ASSUME NEW f \in Range(p.functions), NEW b \in Range(BlocksOf(f)) PROVE b \in Range(user)
    <3>1. PICK k \in DOMAIN p.functions : f = p.functions[k]
      BY DEF Range
    <3>2. k \in DOMAIN parts /\ parts[k] = BlocksOf(f)
      BY <3>1, <1>3
    <3> HIDE DEF user, parts
    <3> QED
      BY <2>2, <3>2, <1>4
  <2>3. ASSUME NEW b \in Users(p) PROVE b \in Range(user)
    <3>1. PICK f \in Range(p.functions) : \E k \in DOMAIN f.blocks : b = UserBlock(f, k)
      BY DEF Users
    <3>2. b \in Range(BlocksOf(f))
      BY <3>1, FunctionBlocks
    <3> QED
      BY <3>2, <2>2
  <2>4. ASSUME NEW b \in Rests(p) PROVE b \in Range(user)
    <3>1. PICK u \in Users(p) : u.kind \in {"return", "abort"} /\ b = Rest(u)
      BY DEF Rests
    <3>2. PICK f \in Range(p.functions) : \E k \in DOMAIN f.blocks : u = UserBlock(f, k)
      BY DEF Users
    <3>3. PICK k \in DOMAIN f.blocks : u = UserBlock(f, k)
      BY <3>2
    <3>4. f.blocks[k].exit.kind \in {"return", "abort"}
      BY <3>1, <3>3 DEF UserBlock
    <3>5. b \in Range(BlocksOf(f))
      BY <3>1, <3>3, <3>4, FunctionBlocks
    <3> QED
      BY <3>5, <2>2
  <2> HIDE DEF user
  <2> QED
    BY <2>1, <2>3, <2>4
<1> HIDE DEF user
<1>7. Len(user) \in Nat /\ DOMAIN user = 1 .. Len(user) /\ \A k \in DOMAIN user : user[k] \in S
  <2> HIDE DEF S
  <2> QED
    BY <1>4
<1>8. ASSUME NEW k \in DOMAIN user
      PROVE  /\ metas[k] \in Seq(Metas(p))
             /\ Range(metas[k]) = IF Calls(k) THEN {MetaBlock(user[k])} ELSE {}
  <2>1. CASE Calls(k)
    <3>1. user[k] \in Users(p)
      BY <1>5, <1>7, <2>1
    <3>2. MetaBlock(user[k]) \in Metas(p)
      BY <3>1, <2>1 DEF Metas
    <3>3. metas[k] = <<MetaBlock(user[k])>> /\ metas[k] \in Seq(Metas(p))
      BY <3>2, <2>1
    <3> QED
      BY <3>2, <3>3, <2>1, RangeOfFew
  <2>2. CASE ~ Calls(k)
    <3> HIDE DEF Calls
    <3>1. metas[k] = <<>>
      BY <2>2
    <3>2. Range(<<>>) = {}
      BY RangeOfFew, Zenon
    <3> QED
      BY <2>2, <3>1, <3>2
  <2> QED
    BY <2>1, <2>2
<1>9. metas \in Seq(Seq(Metas(p))) /\ DOMAIN metas = DOMAIN user
  <2>1. DOMAIN metas = DOMAIN user /\ metas = [k \in DOMAIN user |-> metas[k]]
    OBVIOUS
  <2> HIDE DEF Calls, metas
  <2> QED
    BY <1>7, <1>8, <2>1
<1>10. /\ FlattenSeq(metas) \in Seq(Metas(p))
       /\ Range(FlattenSeq(metas)) = UNION {Range(metas[k]) : k \in DOMAIN metas}
  <2> HIDE DEF metas
  <2> QED
    BY <1>9, FlattenRange, Zenon
<1>11. Range(FlattenSeq(metas)) = Metas(p)
  <2>1. ASSUME NEW k \in DOMAIN user, Calls(k) PROVE MetaBlock(user[k]) \in Metas(p)
    <3>1. user[k] \in Users(p)
      BY <1>5, <1>7, <2>1
    <3> QED
      BY <3>1, <2>1 DEF Metas
  <2>2. ASSUME NEW b \in Metas(p) PROVE \E k \in DOMAIN user : Calls(k) /\ b = MetaBlock(user[k])
    <3>1. PICK u \in Users(p) : u.kind = "call" /\ b = MetaBlock(u)
      BY DEF Metas
    <3>2. PICK k \in DOMAIN user : u = user[k]
      BY <1>6 DEF Range
    <3> QED
      BY <3>1, <3>2
  <2> HIDE DEF Calls, metas
  <2>3. \A b : b \in Range(FlattenSeq(metas)) <=> \E k \in DOMAIN user : b \in Range(metas[k])
    BY <1>9, <1>10
  <2>4. \A b : \A k \in DOMAIN user : b \in Range(metas[k]) <=> Calls(k) /\ b = MetaBlock(user[k])
    BY <1>8
  <2> HIDE DEF Metas
  <2>5. \A b : b \in Range(FlattenSeq(metas)) <=> b \in Metas(p)
    BY <2>1, <2>2, <2>3, <2>4
  <2> QED
    BY <2>5
<1>12. Created(p) = user \o FlattenSeq(metas)
  BY Zenon DEF Created, user
<1>13. user \in Seq(Table(p)) /\ FlattenSeq(metas) \in Seq(Table(p))
  <2> HIDE DEF metas
  <2>1. \A s, A, B : s \in Seq(A) /\ A \subseteq B => s \in Seq(B)
    OBVIOUS
  <2>2. S \subseteq Table(p) /\ Metas(p) \subseteq Table(p)
    BY DEF Table
  <2> QED
    BY <2>1, <2>2, <1>4, <1>10, Zenon
<1>14. Range(Created(p)) = Range(user) \cup Range(FlattenSeq(metas))
  <2> HIDE DEF metas
  <2> QED
    BY <1>12, <1>13, RangeJoined
<1>15. Created(p) \in Seq(Table(p))
  <2> HIDE DEF metas
  <2> QED
    BY <1>12, <1>13
<1> QED
  BY <1>6, <1>11, <1>14, <1>15 DEF Table

\* Sorting leaves no block out.
LEMMA SortedBlocks ==
  ASSUME NEW S, NEW created \in Seq(S), \A b \in S : b.priority \in Int
  PROVE  /\ Sorted(created) \in Seq(S) /\ Len(Sorted(created)) = Len(created)
         /\ Range(Sorted(created)) = Range(created)
<1> DEFINE n == Len(created)
           priority == [k \in 1 .. n |-> created[k].priority]
           place(r) == CHOOSE k \in 1 .. n : Rank(priority, k) = r
<1>1. n \in Nat /\ DOMAIN created = 1 .. n /\ \A k \in 1 .. n : created[k] \in S
  OBVIOUS
<1>2. priority \in [1 .. n -> Int]
  BY <1>1
<1>3. ASSUME NEW k \in 1 .. n
      PROVE  Cardinality({j \in DOMAIN created :
                            \/ created[j].priority > created[k].priority
                            \/ created[j].priority = created[k].priority /\ j < k}) + 1
               = Rank(priority, k)
  <2>1. {j \in DOMAIN created :
           \/ created[j].priority > created[k].priority
           \/ created[j].priority = created[k].priority /\ j < k}
          = {j \in DOMAIN priority : Before(priority, j, k)}
    BY <1>1 DEF Before
  <2> HIDE DEF priority
  <2> QED
    BY <2>1, Zenon DEF Rank
<1> HIDE DEF priority, n
<1>4. Sorted(created) = [r \in 1 .. n |-> created[place(r)]]
  <2> DEFINE picked(r) == CHOOSE k \in DOMAIN created :
                             Cardinality({j \in DOMAIN created :
                               \/ created[j].priority > created[k].priority
                               \/ created[j].priority = created[k].priority /\ j < k}) + 1 = r
  <2>1. Sorted(created) = [r \in DOMAIN created |-> created[picked(r)]]
    BY DEF Sorted
  <2>2. ASSUME NEW r PROVE picked(r) = place(r)
    BY <1>1, <1>3
  <2> HIDE DEF picked, place
  <2> QED
    BY <1>1, <2>1, <2>2
<1>5. /\ \A k \in 1 .. n : Rank(priority, k) \in 1 .. n
      /\ \A j, k \in 1 .. n : Rank(priority, j) = Rank(priority, k) => j = k
      /\ \A r \in 1 .. n : \E k \in 1 .. n : Rank(priority, k) = r
  BY <1>1, <1>2, RanksPermute, Zenon
<1>6. \A r \in 1 .. n : place(r) \in 1 .. n /\ Rank(priority, place(r)) = r
  BY <1>5, Zenon
<1>7. \A k \in 1 .. n : place(Rank(priority, k)) = k
  BY <1>5, <1>6, Zenon
<1> HIDE DEF place
<1>8. Sorted(created) \in Seq(S) /\ Len(Sorted(created)) = n /\ DOMAIN Sorted(created) = 1 .. n
  BY <1>1, <1>4, <1>6
<1>9. ASSUME NEW b \in Range(Sorted(created)) PROVE b \in Range(created)
  <2>1. PICK r \in 1 .. n : b = created[place(r)]
    BY <1>4, Zenon DEF Range
  <2> QED
    BY <2>1, <1>1, <1>6, Zenon DEF Range
<1>10. ASSUME NEW b \in Range(created) PROVE b \in Range(Sorted(created))
  <2>1. PICK k \in 1 .. n : b = created[k]
    BY <1>1, Zenon DEF Range
  <2>2. Rank(priority, k) \in 1 .. n /\ place(Rank(priority, k)) = k
    BY <1>5, <1>7
  <2>3. Sorted(created)[Rank(priority, k)] = b
    BY <1>4, <2>1, <2>2, Zenon
  <2> QED
    BY <1>8, <2>2, <2>3, Zenon DEF Range
<1> QED
  BY <1>8, <1>9, <1>10 DEF n

\* Functions are told apart by their names, and blocks by their function and their name.
LEMMA NamesDetermine ==
  ASSUME NEW p, NEW words, WellFormed(p, words)
  PROVE  /\ \A f \in Range(p.functions) : FunctionOf(p, f.name) = f
         /\ \A b, c \in Table(p) : b.function = c.function /\ b.name = c.name => b = c
<1>1. ASSUME NEW f \in Range(p.functions) PROVE FunctionOf(p, f.name) = f
  <2>1. \A g \in Range(p.functions) : g.name = f.name => g = f
    BY DEF WellFormed, IsFunction
  <2> QED
    BY <2>1, Zenon DEF FunctionOf
<1>2. ASSUME NEW b \in Users(p)
      PROVE  b.name = <<"label", b.name[2]>>
  BY DEF Users, UserBlock, Label
<1>3. ASSUME NEW b \in Users(p), NEW c \in Users(p), b.function = c.function, b.name[2] = c.name[2]
      PROVE  b = c
  <2>1. PICK f \in Range(p.functions) : \E k \in DOMAIN f.blocks : b = UserBlock(f, k)
    BY DEF Users
  <2>2. PICK k \in DOMAIN f.blocks : b = UserBlock(f, k)
    BY <2>1
  <2>3. PICK g \in Range(p.functions) : \E j \in DOMAIN g.blocks : c = UserBlock(g, j)
    BY DEF Users
  <2>4. PICK j \in DOMAIN g.blocks : c = UserBlock(g, j)
    BY <2>3
  <2>5. f.name = g.name /\ f.blocks[k].label = g.blocks[j].label
    BY <1>3, <2>2, <2>4 DEF UserBlock, Label
  <2>6. f = g
    BY <2>5, <1>1, Zenon
  <2>7. f.blocks[k] = f.blocks[j]
    <3>1. f.blocks[k] \in Range(f.blocks) /\ f.blocks[j] \in Range(f.blocks)
      BY <2>6 DEF Range
    <3> QED
      BY <3>1, <2>5, <2>6 DEF WellFormed, IsFunction
  <2> QED
    BY <2>2, <2>4, <2>6, <2>7 DEF UserBlock
<1>4. ASSUME NEW b \in Table(p), NEW c \in Table(p), b.function = c.function, b.name = c.name
      PROVE  b = c
  <2>0. \A tag, x : <<tag, x>>[1] = tag /\ <<tag, x>>[2] = x
    OBVIOUS
  <2>1. ASSUME NEW d \in Rests(p)
        PROVE  /\ d.name[1] = "after"
               /\ \E u \in Users(p) : d = Rest(u) /\ d.function = u.function /\ d.name[2] = u.name[2]
    <3>1. PICK u \in Users(p) : d = Rest(u)
      BY DEF Rests
    <3>2. d.function = u.function /\ d.name = <<"after", u.name[2]>>
      BY <3>1, BlocksMade, Zenon
    <3>3. d.name[1] = "after" /\ d.name[2] = u.name[2]
      BY <3>2
    <3> QED
      BY <3>1, <3>2, <3>3, Zenon
  <2>2. ASSUME NEW d \in Metas(p)
        PROVE  /\ d.name[1] = "meta"
               /\ \E u \in Users(p) : d = MetaBlock(u) /\ d.function = u.function /\ d.name[2] = u.name[2]
    <3>1. PICK u \in Users(p) : d = MetaBlock(u)
      BY DEF Metas
    <3>2. d.function = u.function /\ d.name = <<"meta", u.name[2]>>
      BY <3>1, BlocksMade, Zenon
    <3>3. d.name[1] = "meta" /\ d.name[2] = u.name[2]
      BY <3>2
    <3> QED
      BY <3>1, <3>2, <3>3, Zenon
  <2>3. \A d \in Users(p) : d.name[1] = "label"
    BY <1>2, <2>0
  <2>4. CASE b \in Users(p)
    <3>1. c \in Users(p)
      BY <1>4, <2>1, <2>2, <2>3, <2>4 DEF Table
    <3> QED
      BY <1>3, <1>4, <2>4, <3>1
  <2>5. CASE b \in Rests(p)
    <3>1. c \in Rests(p)
      BY <1>4, <2>1, <2>2, <2>3, <2>5 DEF Table
    <3>2. PICK u \in Users(p) : b = Rest(u) /\ b.function = u.function /\ b.name[2] = u.name[2]
      BY <2>1, <2>5
    <3>3. PICK v \in Users(p) : c = Rest(v) /\ c.function = v.function /\ c.name[2] = v.name[2]
      BY <2>1, <3>1
    <3>4. u = v
      BY <1>3, <1>4, <3>2, <3>3
    <3> QED
      BY <3>2, <3>3, <3>4
  <2>6. CASE b \in Metas(p)
    <3>1. c \in Metas(p)
      BY <1>4, <2>1, <2>2, <2>3, <2>6 DEF Table
    <3>2. PICK u \in Users(p) : b = MetaBlock(u) /\ b.function = u.function /\ b.name[2] = u.name[2]
      BY <2>2, <2>6
    <3>3. PICK v \in Users(p) : c = MetaBlock(v) /\ c.function = v.function /\ c.name[2] = v.name[2]
      BY <2>2, <3>1
    <3>4. u = v
      BY <1>3, <1>4, <3>2, <3>3
    <3> QED
      BY <3>2, <3>3, <3>4
  <2> QED
    BY <2>4, <2>5, <2>6 DEF Table
<1> QED
  BY <1>1, <1>4, Zenon

\* What control can lead to: a block of a function that ends in one of the five ways.
UserKinds == {"jump", "branch", "call", "return", "abort"}

\* A block's function, computation and exit are what the interface accepted.
LEMMA TableBlock ==
  ASSUME NEW p, NEW words, WellFormed(p, words), NEW b \in Table(p)
  PROVE  LET f == FunctionOf(p, b.function) IN
         /\ f \in Range(p.functions) /\ f.name = b.function
         /\ b.kind \in UserKinds \cup {"nothing", "meta"} /\ b.priority \in Int
         /\ b.kind \in UserKinds =>
              /\ b \in Users(p) /\ b.kind = b.exit.kind
              /\ IsComputation(p, f, b.compute, words) /\ IsExit(p, f, b.exit, words)
         /\ b.kind = "meta" => b.exit.kind = "call" /\ IsExit(p, f, b.exit, words)
         /\ b.kind = "call" => MetaBlock(b) \in Table(p)
<1>1. ASSUME NEW u \in Users(p)
      PROVE  LET f == FunctionOf(p, u.function) IN
             /\ f \in Range(p.functions) /\ f.name = u.function
             /\ u.kind \in UserKinds /\ u.kind = u.exit.kind /\ u.priority \in Int
             /\ IsComputation(p, f, u.compute, words) /\ IsExit(p, f, u.exit, words)
  <2>1. PICK f \in Range(p.functions) : \E k \in DOMAIN f.blocks : u = UserBlock(f, k)
    BY DEF Users
  <2>2. PICK k \in DOMAIN f.blocks : u = UserBlock(f, k)
    BY <2>1
  <2>3. /\ u.function = f.name /\ u.kind = f.blocks[k].exit.kind
        /\ u.compute = f.blocks[k].compute /\ u.exit = f.blocks[k].exit
        /\ u.priority = f.priority + f.blocks[k].priority
    BY <2>2 DEF UserBlock
  <2>4. FunctionOf(p, u.function) = f
    BY <2>3, NamesDetermine
  <2>5. f.blocks[k] \in Range(f.blocks)
    BY DEF Range
  <2>6. /\ f.priority + f.blocks[k].priority \in Int
        /\ IsComputation(p, f, f.blocks[k].compute, words) /\ IsExit(p, f, f.blocks[k].exit, words)
    BY <2>5, Zenon DEF WellFormed, IsFunction
  <2>7. f.blocks[k].exit.kind \in UserKinds
    BY <2>6 DEF IsExit, UserKinds
  <2> QED
    BY <2>3, <2>4, <2>6, <2>7
<1>2. CASE b \in Users(p)
  <2>1. b.kind \notin {"nothing", "meta"}
    BY <1>1, <1>2 DEF UserKinds
  <2>2. b.kind = "call" => MetaBlock(b) \in Table(p)
    BY <1>2 DEF Table, Metas
  <2> QED
    BY <1>1, <1>2, <2>1, <2>2
<1>3. CASE b \in Rests(p)
  <2>1. PICK u \in Users(p) : b = Rest(u)
    BY <1>3 DEF Rests
  <2>2. b.function = u.function /\ b.kind = "nothing" /\ b.priority = u.priority
    BY <2>1, BlocksMade, Zenon
  <2> QED
    BY <1>1, <2>2 DEF UserKinds
<1>4. CASE b \in Metas(p)
  <2>1. PICK u \in Users(p) : b = MetaBlock(u) /\ u.kind = "call"
    BY <1>4 DEF Metas
  <2>2. b.function = u.function /\ b.kind = "meta" /\ b.exit = u.exit /\ b.priority = u.priority
    BY <2>1, BlocksMade, Zenon
  <2> QED
    BY <1>1, <2>1, <2>2 DEF UserKinds
<1> QED
  BY <1>2, <1>3, <1>4 DEF Table

\* Every label of a function, its entry among them, has a block that control can lead to.
LEMMA LabelBlock ==
  ASSUME NEW p, NEW words, WellFormed(p, words), NEW f \in Range(p.functions)
  PROVE  /\ EntryOf(f) \in {b.label : b \in Range(f.blocks)}
         /\ \A label \in {b.label : b \in Range(f.blocks)} :
              \E c \in Users(p) : c.function = f.name /\ c.name = Label(label) /\ c.kind \in UserKinds
<1>1. f.blocks \in Seq(Range(f.blocks)) /\ f.blocks # <<>>
  BY DEF WellFormed, IsFunction
<1>2. 1 \in DOMAIN f.blocks
  BY <1>1
<1>3. EntryOf(f) \in {b.label : b \in Range(f.blocks)}
  BY <1>2 DEF EntryOf, Range
<1>4. ASSUME NEW b \in Range(f.blocks)
      PROVE  \E c \in Users(p) : c.function = f.name /\ c.name = Label(b.label) /\ c.kind \in UserKinds
  <2>1. PICK k \in DOMAIN f.blocks : b = f.blocks[k]
    BY DEF Range
  <2>2. UserBlock(f, k) \in Users(p)
    BY DEF Users
  <2>3. /\ UserBlock(f, k).function = f.name /\ UserBlock(f, k).name = Label(b.label)
        /\ UserBlock(f, k).kind = b.exit.kind
    BY <2>1 DEF UserBlock
  <2>4. IsExit(p, f, b.exit, words)
    BY DEF WellFormed, IsFunction
  <2>5. b.exit.kind \in UserKinds
    BY <2>4 DEF IsExit, UserKinds
  <2> QED
    BY <2>2, <2>3, <2>5
<1> QED
  BY <1>3, <1>4

----------------------------------------------------------------------------
(* Indices, as functions of the table. *)

Ix(bs, function, name) ==
  DispatchIndex(Len(bs),
    (CHOOSE k \in DOMAIN bs : bs[k].function = function /\ bs[k].name = name) - 1)

At(bs, index) == bs[Selected(Len(bs), index) + 1]

Pairs == [high : 1 .. (Byte - 1), low : 0 .. (Byte - 1)]

\* The table that the code works with.
IsTable(p, bs) ==
  /\ WellFormed(p, Words) /\ bs = Sorted(Created(p)) /\ Len(bs) <= MaxBlocks

\* A block is dispatched under its index.
LEMMA IndexFinds ==
  ASSUME Room, NEW p, NEW bs, IsTable(p, bs), NEW b \in Table(p)
  PROVE  /\ Ix(bs, b.function, b.name) \in Pairs
         /\ Selected(Len(bs), Ix(bs, b.function, b.name)) # NoBlock
         /\ At(bs, Ix(bs, b.function, b.name)) = b
<1>1. bs \in Seq(Table(p)) /\ Range(bs) = Table(p)
  <2>1. Created(p) \in Seq(Table(p)) /\ Range(Created(p)) = Table(p)
    BY CreatedBlocks DEF IsTable
  <2>2. \A c \in Table(p) : c.priority \in Int
    BY TableBlock DEF IsTable
  <2>3. bs = Sorted(Created(p))
    BY DEF IsTable
  <2> QED
    BY <2>1, <2>2, <2>3, SortedBlocks, Zenon
<1> DEFINE k == CHOOSE k \in DOMAIN bs : bs[k].function = b.function /\ bs[k].name = b.name
<1>2. \E j \in DOMAIN bs : bs[j].function = b.function /\ bs[j].name = b.name
  BY <1>1 DEF Range
<1>3. k \in DOMAIN bs /\ bs[k].function = b.function /\ bs[k].name = b.name
  BY <1>2, Zenon
<1> HIDE DEF k
<1>4. bs[k] = b
  <2>1. bs[k] \in Table(p)
    BY <1>1, <1>3
  <2> QED
    BY <1>3, <2>1, NamesDetermine DEF IsTable
<1>5. Len(bs) \in 1 .. MaxBlocks /\ k \in 1 .. Len(bs) /\ k - 1 \in 0 .. (Len(bs) - 1) /\ (k - 1) + 1 = k
  <2>1. Len(bs) \in Nat /\ DOMAIN bs = 1 .. Len(bs) /\ Len(bs) <= MaxBlocks
    BY <1>1 DEF IsTable
  <2> QED
    BY <1>3, <2>1, MaxBlocksAssumption
<1>6. Ix(bs, b.function, b.name) = DispatchIndex(Len(bs), k - 1)
  BY DEF Ix, k
<1>7. Selected(Len(bs), DispatchIndex(Len(bs), k - 1)) = k - 1 /\ DispatchIndex(Len(bs), k - 1) \in Pairs
  BY <1>5, BlockIsFound DEF Pairs
<1>8. k - 1 # NoBlock
  BY <1>5 DEF NoBlock
<1> QED
  BY <1>4, <1>5, <1>6, <1>7, <1>8 DEF At

----------------------------------------------------------------------------
(* The chain of frames: n frames with their origins s and the blocks h that *)
(* their TargetBlocks name, the last of them at q.                         *)

Tapes == [0 .. (TapeLength - 1) -> [low : Words, high : Words, marker : 0 .. 1]]

First(p) == GlobalCell(p.globals) + 1
Owner(p, b) == FunctionOf(p, b.function)
SizeAt(p, b) == StackFrameSize(Owner(p, b))

Names(bs, t, c, b) == TargetOf(t, c) = Ix(bs, b.function, b.name)
EntryIx(bs, f) == Ix(bs, f.name, Label(EntryOf(f)))

\* Some call takes the address of the function.
IsCallable(p, name) ==
  \E f \in Range(p.functions) : \E b \in Range(f.blocks) :
    /\ b.exit.kind = "call"
    /\ FunctionAddress(name) = b.exit.callee \/ FunctionAddress(name) \in Range(b.exit.args)

Shaped(p, q, n, s, h) ==
  /\ n \in Nat \ {0} /\ s \in [1 .. n -> Nat] /\ h \in [1 .. n -> Table(p)]
  /\ s[1] = First(p) /\ s[n] = q /\ h[1].function = p.entry

\* Nothing but the globals' frame and the frames of the chain is marked.
Marked(t, n, s) ==
  \A c \in DOMAIN t : t[c].marker = 1 <=> c = 0 \/ \E k \in 1 .. n : s[k] = c

\* All frames but the last wait for the next, which begins where they end.
Waiting(p, bs, t, n, s, h) ==
  \A k \in 1 .. (n - 1) :
    /\ h[k].kind = "meta" /\ Names(bs, t, s[k], h[k])
    /\ s[k + 1] = s[k] + SizeAt(p, h[k])
    /\ h[k].exit.into # Nowhere => Owner(p, h[k + 1]).returns

Called(p, n, h) == \A k \in 2 .. n : IsCallable(p, h[k].function)

\* A function pointer names the entry of a function of its type.
Points(p, bs, t, c, type) ==
  \E g \in Range(p.functions) :
    g.type = type /\ IsCallable(p, g.name) /\ TargetOf(t, c) = EntryIx(bs, g)
PointersStand(p, bs, t, base, f) ==
  \A j \in DOMAIN f.pointers : Points(p, bs, t, base + LocalBase(f) + j, f.pointers[j])
Pointing(p, bs, t, n, s, h) ==
  \A k \in 1 .. n : PointersStand(p, bs, t, s[k], Owner(p, h[k]))

\* What the running frame holds.
Topped(p, bs, t, q, b) ==
  /\ q + SizeAt(p, b) <= TapeLength
  /\ b.kind # "nothing"
  /\ t[q].high = 0 \/ Names(bs, t, q, b)
  /\ b.kind = "meta" /\ b.exit.into # Nowhere => q + SizeAt(p, b) + 1 < TapeLength

Chain(p, bs, t, q, n, s, h) ==
  /\ Shaped(p, q, n, s, h) /\ Marked(t, n, s)
  /\ Waiting(p, bs, t, n, s, h) /\ Called(p, n, h)
  /\ Pointing(p, bs, t, n, s, h) /\ Topped(p, bs, t, q, h[n])

\* The sequences of a chain of one frame more, or less.
Extended(n, s, last) == [k \in 1 .. (n + 1) |-> IF k = n + 1 THEN last ELSE s[k]]
Shortened(n, s) == [k \in 1 .. (n - 1) |-> s[k]]

\* A frame has room for its TargetBlock, the return value and the locals.
LEMMA FrameSizes ==
  ASSUME NEW p, NEW bs, IsTable(p, bs)
  PROVE  /\ p.globals \in Nat /\ First(p) = p.globals + 2 /\ TapeLength \in Int
         /\ \A f \in Range(p.functions) :
              /\ f.returns \in BOOLEAN /\ f.locals \in Nat /\ f.params \in 0 .. f.locals
              /\ DOMAIN f.pointers \subseteq 0 .. (f.locals - 1)
              /\ LocalBase(f) = IF f.returns THEN 2 ELSE 1
              /\ StackFrameSize(f) = LocalBase(f) + f.locals
              /\ StackFrameSize(f) \in Nat \ {0}
<1>1. p.globals \in Nat
  BY DEF IsTable, WellFormed
<1>2. ASSUME NEW f \in Range(p.functions)
      PROVE  /\ f.returns \in BOOLEAN /\ f.locals \in Nat /\ f.params \in 0 .. f.locals
             /\ DOMAIN f.pointers \subseteq 0 .. (f.params - 1)
  BY DEF IsTable, WellFormed, IsFunction
<1>3. ASSUME NEW f \in Range(p.functions)
      PROVE  /\ DOMAIN f.pointers \subseteq 0 .. (f.locals - 1)
             /\ LocalBase(f) = IF f.returns THEN 2 ELSE 1
             /\ StackFrameSize(f) = LocalBase(f) + f.locals
             /\ StackFrameSize(f) \in Nat \ {0}
  <2>1. LocalBase(f) = IF f.returns THEN 2 ELSE 1
    BY DEF LocalBase, ReturnValueStart
  <2>2. StackFrameSize(f) = LocalBase(f) + f.locals
    BY DEF StackFrameSize
  <2>3. 0 .. (f.params - 1) \subseteq 0 .. (f.locals - 1)
    BY <1>2
  <2> QED
    BY <1>2, <2>1, <2>2, <2>3
<1>4. First(p) = p.globals + 2
  BY <1>1 DEF First, GlobalCell
<1> QED
  BY <1>1, <1>2, <1>3, <1>4, TapeAssumption

\* A block of the table lies in a frame of its function.
LEMMA BlockSizes ==
  ASSUME NEW p, NEW bs, IsTable(p, bs), NEW b \in Table(p)
  PROVE  LET f == Owner(p, b) IN
         /\ f \in Range(p.functions) /\ f.name = b.function
         /\ f.returns \in BOOLEAN /\ f.locals \in Nat /\ f.params \in 0 .. f.locals
         /\ DOMAIN f.pointers \subseteq 0 .. (f.locals - 1)
         /\ LocalBase(f) = IF f.returns THEN 2 ELSE 1
         /\ SizeAt(p, b) = LocalBase(f) + f.locals
         /\ SizeAt(p, b) \in Nat \ {0}
<1>1. Owner(p, b) \in Range(p.functions) /\ Owner(p, b).name = b.function
  BY TableBlock DEF Owner, IsTable
<1> QED
  BY <1>1, FrameSizes DEF SizeAt

\* The frames lie one behind the other.
LEMMA FramesInOrder ==
  ASSUME NEW p, NEW bs, IsTable(p, bs), NEW t, NEW q, NEW n, NEW s, NEW h,
         Shaped(p, q, n, s, h), Waiting(p, bs, t, n, s, h)
  PROVE  /\ q \in Nat /\ n \in Nat \ {0}
         /\ \A k \in 1 .. n : s[k] \in First(p) .. q /\ (k < n => s[k] + SizeAt(p, h[k]) <= q)
         /\ \A j, k \in 1 .. n : j < k => s[j] + SizeAt(p, h[j]) <= s[k]
<1>1. /\ n \in Nat \ {0} /\ s[1] = First(p) /\ s[n] = q
      /\ \A k \in 1 .. n : s[k] \in Nat /\ h[k] \in Table(p) /\ SizeAt(p, h[k]) \in Nat \ {0}
  <2>1. ASSUME NEW k \in 1 .. n PROVE h[k] \in Table(p)
    BY DEF Shaped
  <2> QED
    BY <2>1, BlockSizes DEF Shaped
<1>2. \A k \in 1 .. (n - 1) : s[k + 1] = s[k] + SizeAt(p, h[k])
  BY DEF Waiting
<1>3. ASSUME NEW j \in 1 .. n, NEW k \in 1 .. n, j < k PROVE s[j] + SizeAt(p, h[j]) <= s[k]
  <2> DEFINE T == {i \in 1 .. (n - j) : s[j] + SizeAt(p, h[j]) <= s[j + i]}
             m == n - j
  <2>1. m \in Nat /\ (m >= 1 => 1 \in T)
    BY <1>1, <1>2, <1>3
  <2>2. \A i \in 1 .. (m - 1) : i \in T => i + 1 \in T
    <3>1. ASSUME NEW i \in 1 .. (m - 1), s[j] + SizeAt(p, h[j]) <= s[j + i]
          PROVE  s[j] + SizeAt(p, h[j]) <= s[j + (i + 1)]
      <4>1. j + i \in 1 .. (n - 1) /\ j + (i + 1) = (j + i) + 1 /\ j + (i + 1) \in 1 .. n /\ j + i \in 1 .. n
        BY <1>1
      <4>2. s[j + (i + 1)] = s[j + i] + SizeAt(p, h[j + i])
        BY <1>2, <4>1
      <4>3. s[j + i] \in Nat /\ SizeAt(p, h[j + i]) \in Nat \ {0} /\ s[j] \in Nat /\ SizeAt(p, h[j]) \in Nat
        BY <1>1, <4>1
      <4> QED
        BY <3>1, <4>2, <4>3
    <3>2. \A i \in 1 .. (m - 1) : i \in 1 .. m /\ i + 1 \in 1 .. m
      BY <1>1
    <3> QED
      BY <3>1, <3>2
  <2> HIDE DEF T
  <2>3. 1 .. m \subseteq T
    <3> HIDE DEF m
    <3> QED
      BY <2>1, <2>2, UpFromOne, Zenon
  <2>4. k - j \in 1 .. m /\ j + (k - j) = k
    BY <1>1, <1>3
  <2>5. k - j \in T
    BY <2>3, <2>4
  <2> QED
    BY <2>4, <2>5 DEF T
<1>4. ASSUME NEW k \in 1 .. n PROVE s[k] \in First(p) .. q /\ (k < n => s[k] + SizeAt(p, h[k]) <= q)
  <2>1. k = 1 \/ 1 < k
    OBVIOUS
  <2>2. k = n \/ k < n
    BY <1>1
  <2>3. 1 \in 1 .. n /\ n \in 1 .. n
    BY <1>1
  <2>4. s[1] <= s[k]
    <3>1. 1 < k => s[1] + SizeAt(p, h[1]) <= s[k]
      BY <1>3, <2>3
    <3> QED
      BY <1>1, <2>1, <2>3, <3>1
  <2>5. k < n => s[k] + SizeAt(p, h[k]) <= s[n]
    BY <1>3, <2>3
  <2>6. s[1] \in Nat /\ s[k] \in Nat /\ s[n] \in Nat /\ SizeAt(p, h[k]) \in Nat
    BY <1>1, <2>3
  <2> QED
    BY <1>1, <2>2, <2>4, <2>5, <2>6
<1> QED
  BY <1>1, <1>3, <1>4

\* The last frame may change its block and what lies behind its origin, but no marker.
LEMMA ChainUpdated ==
  ASSUME NEW p, NEW bs, IsTable(p, bs), NEW t, NEW u, NEW q, NEW n, NEW s, NEW h,
         Chain(p, bs, t, q, n, s, h), DOMAIN u = DOMAIN t,
         \A c \in DOMAIN t : u[c].marker = t[c].marker,
         \A c \in First(p) .. (q - 1) : u[c] = t[c],
         NEW b \in Table(p), b.function = h[n].function,
         PointersStand(p, bs, u, q, Owner(p, b)), Topped(p, bs, u, q, b)
  PROVE  Chain(p, bs, u, q, n, s, [h EXCEPT ![n] = b])
<1> DEFINE g == [h EXCEPT ![n] = b]
<1>1. /\ n \in Nat \ {0} /\ n \in 1 .. n /\ q \in Nat /\ s[n] = q /\ First(p) \in Nat
      /\ \A k \in 1 .. n : s[k] \in First(p) .. q /\ (k < n => s[k] + SizeAt(p, h[k]) <= q)
  <2>1. First(p) \in Nat
    BY FrameSizes
  <2>2. /\ q \in Nat /\ n \in Nat \ {0} /\ s[n] = q
        /\ \A k \in 1 .. n : s[k] \in First(p) .. q /\ (k < n => s[k] + SizeAt(p, h[k]) <= q)
    BY FramesInOrder DEF Chain, Shaped
  <2> QED
    BY <2>1, <2>2
<1>2. h \in [1 .. n -> Table(p)]
  BY DEF Chain, Shaped
<1>3. g \in [1 .. n -> Table(p)] /\ g[n] = b /\ \A k \in 1 .. n : k # n => g[k] = h[k]
  BY <1>1, <1>2
<1>4. \A k \in 1 .. n : g[k].function = h[k].function /\ Owner(p, g[k]) = Owner(p, h[k])
  BY <1>3 DEF Owner
<1> HIDE DEF g
<1>5. Shaped(p, q, n, s, g)
  <2>1. 1 \in 1 .. n
    BY <1>1
  <2> QED
    BY <1>3, <1>4, <2>1 DEF Chain, Shaped
<1>6. Marked(u, n, s)
  BY DEF Chain, Marked
<1>7. ASSUME NEW k \in 1 .. (n - 1) PROVE k \in 1 .. n /\ k + 1 \in 1 .. n /\ k # n /\ s[k] \in First(p) .. (q - 1) /\ g[k] = h[k]
  <2>1. k \in 1 .. n /\ k + 1 \in 1 .. n /\ k < n /\ k # n
    BY <1>1
  <2>2. SizeAt(p, h[k]) \in Nat \ {0}
    BY <2>1, <1>2, BlockSizes
  <2> QED
    BY <2>1, <2>2, <1>1, <1>3
<1>8. Waiting(p, bs, u, n, s, g)
  <2>1. ASSUME NEW k \in 1 .. (n - 1)
        PROVE  /\ g[k].kind = "meta" /\ Names(bs, u, s[k], g[k])
               /\ s[k + 1] = s[k] + SizeAt(p, g[k])
               /\ g[k].exit.into # Nowhere => Owner(p, g[k + 1]).returns
    <3>1. /\ h[k].kind = "meta" /\ Names(bs, t, s[k], h[k])
          /\ s[k + 1] = s[k] + SizeAt(p, h[k])
          /\ h[k].exit.into # Nowhere => Owner(p, h[k + 1]).returns
      BY DEF Chain, Waiting
    <3>2. Names(bs, u, s[k], h[k])
      BY <3>1, <1>7 DEF Names, TargetOf
    <3> QED
      BY <3>1, <3>2, <1>4, <1>7
  <2> QED
    BY <2>1 DEF Waiting
<1>9. Called(p, n, g)
  <2>1. \A k \in 2 .. n : k \in 1 .. n
    OBVIOUS
  <2> QED
    BY <1>4, <2>1 DEF Chain, Called
<1>10. Pointing(p, bs, u, n, s, g)
  <2>1. ASSUME NEW k \in 1 .. n PROVE PointersStand(p, bs, u, s[k], Owner(p, g[k]))
    <3>1. CASE k = n
      BY <3>1, <1>1, <1>3
    <3>2. CASE k # n
      <4>1. k \in 1 .. (n - 1) /\ k < n
        BY <3>2, <1>1
      <4> DEFINE f == Owner(p, h[k])
      <4>2. g[k] = h[k] /\ h[k] \in Table(p)
        BY <4>1, <1>2, <1>7
      <4>3. PointersStand(p, bs, t, s[k], f)
        BY DEF Chain, Pointing
      <4>4. ASSUME NEW j \in DOMAIN f.pointers
            PROVE  u[s[k] + LocalBase(f) + j] = t[s[k] + LocalBase(f) + j]
        <5>1. /\ j \in 0 .. (f.locals - 1) /\ f.locals \in Nat /\ LocalBase(f) \in Nat
              /\ SizeAt(p, h[k]) = LocalBase(f) + f.locals
          BY <4>2, BlockSizes
        <5> HIDE DEF f
        <5>2. s[k] + LocalBase(f) + j \in First(p) .. (q - 1)
          BY <5>1, <4>1, <1>1
        <5> QED
          BY <5>2
      <4> HIDE DEF f
      <4>5. PointersStand(p, bs, u, s[k], f)
        BY <4>3, <4>4 DEF PointersStand, Points, TargetOf
      <4> QED
        BY <4>2, <4>5 DEF f
    <3> QED
      BY <3>1, <3>2
  <2> QED
    BY <2>1 DEF Pointing
<1> QED
  BY <1>3, <1>5, <1>6, <1>8, <1>9, <1>10 DEF Chain, g

\* A frame for a callee, right behind the last.
LEMMA ChainPushed ==
  ASSUME NEW p, NEW bs, IsTable(p, bs), NEW t, NEW u, NEW q, NEW n, NEW s, NEW h,
         Chain(p, bs, t, q, n, s, h), Names(bs, t, q, h[n]), h[n].kind = "meta",
         DOMAIN u = DOMAIN t,
         NEW base, base = q + SizeAt(p, h[n]), base \in DOMAIN t,
         \A c \in DOMAIN t : u[c].marker = IF c = base THEN 1 ELSE t[c].marker,
         \A c \in First(p) .. (base - 1) : u[c] = t[c],
         NEW b \in Table(p), IsCallable(p, b.function),
         h[n].exit.into # Nowhere => Owner(p, b).returns,
         PointersStand(p, bs, u, base, Owner(p, b)), Topped(p, bs, u, base, b)
  PROVE  Chain(p, bs, u, base, n + 1, Extended(n, s, base), Extended(n, h, b))
<1> DEFINE r == Extended(n, s, base)
           g == Extended(n, h, b)
<1>1. /\ n \in Nat \ {0} /\ n \in 1 .. n /\ q \in Nat /\ s[n] = q /\ First(p) \in Nat
      /\ \A k \in 1 .. n : s[k] \in First(p) .. q /\ (k < n => s[k] + SizeAt(p, h[k]) <= q)
  <2>1. First(p) \in Nat
    BY FrameSizes
  <2>2. /\ q \in Nat /\ n \in Nat \ {0} /\ s[n] = q
        /\ \A k \in 1 .. n : s[k] \in First(p) .. q /\ (k < n => s[k] + SizeAt(p, h[k]) <= q)
    BY FramesInOrder DEF Chain, Shaped
  <2> QED
    BY <2>1, <2>2
<1>2. h \in [1 .. n -> Table(p)] /\ s \in [1 .. n -> Nat]
  BY DEF Chain, Shaped
<1>3. SizeAt(p, h[n]) \in Nat \ {0} /\ base \in Nat /\ q < base
  BY <1>1, <1>2, BlockSizes
<1>4. /\ g \in [1 .. (n + 1) -> Table(p)] /\ r \in [1 .. (n + 1) -> Nat]
      /\ g[n + 1] = b /\ r[n + 1] = base
      /\ \A k \in 1 .. n : g[k] = h[k] /\ r[k] = s[k]
  BY <1>1, <1>2, <1>3 DEF Extended
<1>5. /\ \A k \in 1 .. (n + 1) : k = n + 1 \/ k \in 1 .. n
      /\ \A k \in 1 .. n : k \in 1 .. (n + 1) /\ k # n + 1
  BY <1>1
<1> HIDE DEF r, g
<1>6. Shaped(p, base, n + 1, r, g)
  <2>1. 1 \in 1 .. n /\ n + 1 \in Nat \ {0}
    BY <1>1
  <2> QED
    BY <1>4, <2>1 DEF Chain, Shaped
<1>7. Marked(u, n + 1, r)
  <2>1. ASSUME NEW c \in DOMAIN t
        PROVE  u[c].marker = 1 <=> c = 0 \/ \E k \in 1 .. (n + 1) : r[k] = c
    <3>1. t[c].marker = 1 <=> c = 0 \/ \E k \in 1 .. n : s[k] = c
      BY DEF Chain, Marked
    <3>2. CASE c = base
      <4>1. n + 1 \in 1 .. (n + 1) /\ r[n + 1] = c
        BY <1>1, <1>4, <3>2
      <4> QED
        BY <3>2, <4>1
    <3>3. CASE c # base
      <4>1. (\E k \in 1 .. (n + 1) : r[k] = c) <=> (\E k \in 1 .. n : s[k] = c)
        BY <1>4, <1>5, <3>3
      <4> QED
        BY <3>1, <3>3, <4>1
    <3> QED
      BY <3>2, <3>3
  <2> QED
    BY <2>1 DEF Marked
<1>8. Waiting(p, bs, u, n + 1, r, g)
  <2>1. ASSUME NEW k \in 1 .. n
        PROVE  /\ g[k].kind = "meta" /\ Names(bs, u, r[k], g[k])
               /\ r[k + 1] = r[k] + SizeAt(p, g[k])
               /\ g[k].exit.into # Nowhere => Owner(p, g[k + 1]).returns
    <3>1. CASE k = n
      <4>1. u[q] = t[q]
        BY <1>1, <1>3
      <4>2. Names(bs, u, q, h[n])
        BY <4>1 DEF Names, TargetOf
      <4> QED
        BY <3>1, <4>2, <1>1, <1>4
    <3>2. CASE k # n
      <4>1. k \in 1 .. (n - 1) /\ k < n /\ k + 1 \in 1 .. n
        BY <3>2, <1>1
      <4>2. /\ h[k].kind = "meta" /\ Names(bs, t, s[k], h[k])
            /\ s[k + 1] = s[k] + SizeAt(p, h[k])
            /\ h[k].exit.into # Nowhere => Owner(p, h[k + 1]).returns
        BY <4>1 DEF Chain, Waiting
      <4>3. s[k] \in First(p) .. (base - 1)
        BY <1>1, <1>3
      <4>4. Names(bs, u, s[k], h[k])
        BY <4>2, <4>3 DEF Names, TargetOf
      <4> QED
        BY <4>1, <4>2, <4>4, <1>4
    <3> QED
      BY <3>1, <3>2
  <2>2. (n + 1) - 1 = n
    BY <1>1
  <2> QED
    BY <2>1, <2>2 DEF Waiting
<1>9. Called(p, n + 1, g)
  <2>1. \A k \in 2 .. (n + 1) : k = n + 1 \/ (k \in 2 .. n /\ k \in 1 .. n)
    BY <1>1
  <2> QED
    BY <1>4, <2>1 DEF Chain, Called
<1>10. Pointing(p, bs, u, n + 1, r, g)
  <2>1. ASSUME NEW k \in 1 .. n PROVE PointersStand(p, bs, u, s[k], Owner(p, h[k]))
    <3> DEFINE f == Owner(p, h[k])
    <3>1. PointersStand(p, bs, t, s[k], f)
      BY DEF Chain, Pointing
    <3>2. ASSUME NEW j \in DOMAIN f.pointers
          PROVE  u[s[k] + LocalBase(f) + j] = t[s[k] + LocalBase(f) + j]
      <4>1. /\ j \in 0 .. (f.locals - 1) /\ f.locals \in Nat /\ LocalBase(f) \in Nat
            /\ SizeAt(p, h[k]) = LocalBase(f) + f.locals
        BY <1>2, BlockSizes
      <4>2. s[k] + SizeAt(p, h[k]) <= base
        <5>1. k = n \/ k < n
          BY <1>1
        <5>2. k < n => s[k] + SizeAt(p, h[k]) <= q
          BY <1>1
        <5>3. s[k] \in Nat /\ SizeAt(p, h[k]) \in Nat
          BY <1>2, BlockSizes
        <5> QED
          BY <1>1, <1>3, <5>1, <5>2, <5>3
      <4> HIDE DEF f
      <4>3. s[k] + LocalBase(f) + j \in First(p) .. (base - 1)
        BY <4>1, <4>2, <1>1, <1>3
      <4> QED
        BY <4>3
    <3> HIDE DEF f
    <3>3. PointersStand(p, bs, u, s[k], f)
      BY <3>1, <3>2 DEF PointersStand, Points, TargetOf
    <3> QED
      BY <3>3 DEF f
  <2> QED
    BY <2>1, <1>4, <1>5 DEF Pointing
<1> QED
  BY <1>4, <1>6, <1>7, <1>8, <1>9, <1>10 DEF Chain, r, g

\* The last frame is left: the one before it goes on.
LEMMA ChainPopped ==
  ASSUME NEW p, NEW bs, IsTable(p, bs), NEW t, NEW u, NEW q, NEW n, NEW s, NEW h,
         Chain(p, bs, t, q, n, s, h), n # 1, DOMAIN u = DOMAIN t,
         \A c \in DOMAIN t : u[c].marker = IF c = q THEN 0 ELSE t[c].marker,
         \A c \in First(p) .. (q - 1) : u[c] = t[c]
  PROVE  Chain(p, bs, u, s[n - 1], n - 1, Shortened(n, s), Shortened(n, h))
<1> DEFINE r == Shortened(n, s)
           g == Shortened(n, h)
<1>1. /\ n \in Nat \ {0} /\ n \in 1 .. n /\ q \in Nat /\ s[n] = q /\ First(p) \in Nat
      /\ \A k \in 1 .. n : s[k] \in First(p) .. q /\ (k < n => s[k] + SizeAt(p, h[k]) <= q)
  <2>1. First(p) \in Nat
    BY FrameSizes
  <2>2. /\ q \in Nat /\ n \in Nat \ {0} /\ s[n] = q
        /\ \A k \in 1 .. n : s[k] \in First(p) .. q /\ (k < n => s[k] + SizeAt(p, h[k]) <= q)
    BY FramesInOrder DEF Chain, Shaped
  <2> QED
    BY <2>1, <2>2
<1>2. h \in [1 .. n -> Table(p)] /\ s \in [1 .. n -> Nat]
  BY DEF Chain, Shaped
<1>3. ASSUME NEW k \in 1 .. (n - 1)
      PROVE  /\ k \in 1 .. n /\ k + 1 \in 1 .. n /\ k < n
             /\ SizeAt(p, h[k]) = LocalBase(Owner(p, h[k])) + Owner(p, h[k]).locals
             /\ SizeAt(p, h[k]) \in Nat \ {0} /\ s[k] + SizeAt(p, h[k]) <= q
             /\ s[k] \in First(p) .. (q - 1) /\ u[s[k]] = t[s[k]]
  <2>1. k \in 1 .. n /\ k + 1 \in 1 .. n /\ k < n
    BY <1>1
  <2>2. /\ SizeAt(p, h[k]) = LocalBase(Owner(p, h[k])) + Owner(p, h[k]).locals
        /\ SizeAt(p, h[k]) \in Nat \ {0}
    BY <2>1, <1>2, BlockSizes
  <2>3. s[k] + SizeAt(p, h[k]) <= q /\ s[k] \in First(p) .. q
    BY <2>1, <1>1
  <2>4. s[k] \in First(p) .. (q - 1)
    BY <2>2, <2>3, <1>1
  <2> QED
    BY <2>1, <2>2, <2>3, <2>4
<1>4. /\ g \in [1 .. (n - 1) -> Table(p)] /\ r \in [1 .. (n - 1) -> Nat]
      /\ \A k \in 1 .. (n - 1) : g[k] = h[k] /\ r[k] = s[k]
  BY <1>1, <1>2, <1>3 DEF Shortened
<1>5. n - 1 \in Nat \ {0} /\ n - 1 \in 1 .. (n - 1) /\ 1 \in 1 .. (n - 1) /\ (n - 1) + 1 = n
  BY <1>1
<1> HIDE DEF r, g
<1>6. Shaped(p, s[n - 1], n - 1, r, g)
  BY <1>4, <1>5 DEF Chain, Shaped
<1>7. Marked(u, n - 1, r)
  <2>1. ASSUME NEW c \in DOMAIN t
        PROVE  u[c].marker = 1 <=> c = 0 \/ \E k \in 1 .. (n - 1) : r[k] = c
    <3>1. t[c].marker = 1 <=> c = 0 \/ \E k \in 1 .. n : s[k] = c
      BY DEF Chain, Marked
    <3>2. \A k \in 1 .. n : k = n \/ k \in 1 .. (n - 1)
      BY <1>1
    <3>3. CASE c = q
      <4>1. q # 0
        BY <1>1, <1>3, <1>5
      <4>2. ASSUME NEW k \in 1 .. (n - 1) PROVE r[k] # q
        <5>1. r[k] = s[k] /\ s[k] \in First(p) .. (q - 1)
          BY <1>3, <1>4
        <5> QED
          BY <5>1, <1>1
      <4> QED
        BY <3>3, <4>1, <4>2
    <3>4. CASE c # q
      <4>1. (\E k \in 1 .. (n - 1) : r[k] = c) <=> (\E k \in 1 .. n : s[k] = c)
        BY <1>1, <1>3, <1>4, <3>2, <3>4
      <4> QED
        BY <3>1, <3>4, <4>1
    <3> QED
      BY <3>3, <3>4
  <2> QED
    BY <2>1 DEF Marked
<1>8. Waiting(p, bs, u, n - 1, r, g)
  <2>1. ASSUME NEW k \in 1 .. ((n - 1) - 1)
        PROVE  /\ g[k].kind = "meta" /\ Names(bs, u, r[k], g[k])
               /\ r[k + 1] = r[k] + SizeAt(p, g[k])
               /\ g[k].exit.into # Nowhere => Owner(p, g[k + 1]).returns
    <3>1. k \in 1 .. (n - 1) /\ k + 1 \in 1 .. (n - 1)
      BY <1>1
    <3>2. /\ h[k].kind = "meta" /\ Names(bs, t, s[k], h[k])
          /\ s[k + 1] = s[k] + SizeAt(p, h[k])
          /\ h[k].exit.into # Nowhere => Owner(p, h[k + 1]).returns
      BY <3>1 DEF Chain, Waiting
    <3>3. Names(bs, u, s[k], h[k])
      BY <3>1, <3>2, <1>3 DEF Names, TargetOf
    <3> QED
      BY <3>1, <3>2, <3>3, <1>4
  <2> QED
    BY <2>1 DEF Waiting
<1>9. Called(p, n - 1, g)
  <2>1. \A k \in 2 .. (n - 1) : k \in 2 .. n /\ k \in 1 .. (n - 1)
    BY <1>1
  <2> QED
    BY <1>4, <2>1 DEF Chain, Called
<1>10. Pointing(p, bs, u, n - 1, r, g)
  <2>1. ASSUME NEW k \in 1 .. (n - 1) PROVE PointersStand(p, bs, u, s[k], Owner(p, h[k]))
    <3> DEFINE f == Owner(p, h[k])
    <3>1. PointersStand(p, bs, t, s[k], f)
      BY <1>3 DEF Chain, Pointing
    <3>2. ASSUME NEW j \in DOMAIN f.pointers
          PROVE  u[s[k] + LocalBase(f) + j] = t[s[k] + LocalBase(f) + j]
      <4>1. j \in 0 .. (f.locals - 1) /\ f.locals \in Nat /\ LocalBase(f) \in Nat
        BY <1>2, <1>3, BlockSizes
      <4>2. s[k] + SizeAt(p, h[k]) <= q /\ SizeAt(p, h[k]) = LocalBase(f) + f.locals /\ s[k] \in First(p) .. (q - 1)
        BY <1>3
      <4> HIDE DEF f
      <4>3. s[k] + LocalBase(f) + j \in First(p) .. (q - 1)
        BY <4>1, <4>2, <1>1
      <4> QED
        BY <4>3
    <3> HIDE DEF f
    <3>3. PointersStand(p, bs, u, s[k], f)
      BY <3>1, <3>2 DEF PointersStand, Points, TargetOf
    <3> QED
      BY <3>3 DEF f
  <2> QED
    BY <2>1, <1>4 DEF Pointing
<1>11. Topped(p, bs, u, s[n - 1], h[n - 1])
  <2>1. /\ h[n - 1].kind = "meta" /\ Names(bs, t, s[n - 1], h[n - 1])
        /\ q = s[n - 1] + SizeAt(p, h[n - 1])
        /\ h[n - 1].exit.into # Nowhere => Owner(p, h[n]).returns
    BY <1>1, <1>5 DEF Chain, Waiting
  <2>2. q + SizeAt(p, h[n]) <= TapeLength
    BY DEF Chain, Topped
  <2>3. SizeAt(p, h[n]) \in Nat \ {0} /\ (Owner(p, h[n]).returns => SizeAt(p, h[n]) >= 2)
    <3>1. h[n] \in Table(p)
      BY <1>1, <1>2
    <3> QED
      BY <3>1, BlockSizes
  <2>4. Names(bs, u, s[n - 1], h[n - 1])
    BY <2>1, <1>3, <1>5 DEF Names, TargetOf
  <2>5. q <= TapeLength /\ (Owner(p, h[n]).returns => q + 1 < TapeLength)
    BY <2>2, <2>3, <1>1, TapeAssumption
  <2> QED
    BY <2>1, <2>4, <2>5 DEF Topped
<1> QED
  BY <1>4, <1>5, <1>6, <1>7, <1>8, <1>9, <1>10, <1>11 DEF Chain, r, g

\* The code finds the frame before the last by the markers.
LEMMA PreviousFound ==
  ASSUME NEW p, NEW bs, IsTable(p, bs), NEW t \in Tapes, NEW q, NEW n, NEW s, NEW h,
         Chain(p, bs, t, q, n, s, h), n # 1
  PROVE  (CHOOSE c \in 0 .. (q - 1) :
            t[c].marker = 1 /\ \A d \in (c + 1) .. (q - 1) : t[d].marker = 0) = s[n - 1]
<1>1. /\ n \in Nat \ {0} /\ q \in Nat /\ s[n] = q /\ First(p) \in Nat \ {0}
      /\ \A k \in 1 .. n : s[k] \in First(p) .. q
      /\ \A j, k \in 1 .. n : j < k => s[j] + SizeAt(p, h[j]) <= s[k]
  <2>1. First(p) \in Nat \ {0}
    BY FrameSizes
  <2> QED
    BY <2>1, FramesInOrder DEF Chain, Shaped
<1>2. \A k \in 1 .. n : SizeAt(p, h[k]) \in Nat \ {0}
  <2>1. \A k \in 1 .. n : h[k] \in Table(p)
    BY DEF Chain, Shaped
  <2> QED
    BY <2>1, BlockSizes
<1>3. \A j, k \in 1 .. n : j < k => s[j] < s[k]
  <2>1. \A k \in 1 .. n : s[k] \in Nat
    BY <1>1
  <2> QED
    BY <1>1, <1>2, <2>1
<1>4. n - 1 \in 1 .. n /\ n \in 1 .. n /\ n - 1 < n
  BY <1>1
<1>5. \A c \in 0 .. q : c \in DOMAIN t /\ t[c].marker \in 0 .. 1
  <2>1. h[n] \in Table(p) /\ q + SizeAt(p, h[n]) <= TapeLength
    BY <1>4 DEF Chain, Shaped, Topped
  <2>2. q < TapeLength
    BY <2>1, <1>1, <1>2, <1>4, TapeAssumption
  <2> QED
    BY <2>2, <1>1, TapeAssumption DEF Tapes
<1>6. \A c \in 0 .. q : t[c].marker = 1 <=> c = 0 \/ \E k \in 1 .. n : s[k] = c
  BY <1>5 DEF Chain, Marked
<1> DEFINE IsPrevious(c) == t[c].marker = 1 /\ \A d \in (c + 1) .. (q - 1) : t[d].marker = 0
<1>7. s[n - 1] \in 0 .. (q - 1) /\ s[n - 1] # 0
  BY <1>1, <1>3, <1>4
<1>8. t[s[n - 1]].marker = 1
  BY <1>1, <1>4, <1>6, <1>7
<1>9. ASSUME NEW d \in (s[n - 1] + 1) .. (q - 1) PROVE t[d].marker = 0
  <2>1. d \in 0 .. q /\ d # 0 /\ d # q
    BY <1>1, <1>7
  <2>2. ASSUME NEW k \in 1 .. n, s[k] = d PROVE FALSE
    <3>1. k < n - 1 \/ k = n - 1 \/ k = n
      BY <1>1
    <3>2. k < n - 1 => s[k] < s[n - 1]
      BY <1>3, <1>4
    <3> QED
      BY <2>1, <2>2, <3>1, <3>2, <1>1, <1>7
  <2> QED
    BY <2>1, <2>2, <1>5, <1>6
<1>10. IsPrevious(s[n - 1])
  BY <1>8, <1>9
<1>11. ASSUME NEW c \in 0 .. (q - 1), IsPrevious(c) PROVE c = s[n - 1]
  <2>1. ~ (c < s[n - 1])
    <3>1. c < s[n - 1] => s[n - 1] \in (c + 1) .. (q - 1)
      BY <1>7, <1>1
    <3> QED
      BY <3>1, <1>8, <1>11
  <2>2. ~ (s[n - 1] < c)
    <3>1. s[n - 1] < c => c \in (s[n - 1] + 1) .. (q - 1)
      BY <1>7, <1>1
    <3> QED
      BY <3>1, <1>9, <1>11
  <2> QED
    BY <2>1, <2>2, <1>7, <1>1
<1> HIDE DEF IsPrevious
<1>12. (CHOOSE c \in 0 .. (q - 1) : IsPrevious(c)) = s[n - 1]
  BY <1>7, <1>10, <1>11
<1> QED
  BY <1>12 DEF IsPrevious

OriginsOf(t, q) == {c \in 1 .. q : t[c].marker = 1}
BasesOf(t, q) ==
  [k \in 1 .. Cardinality(OriginsOf(t, q)) |->
     CHOOSE c \in OriginsOf(t, q) : Cardinality({d \in OriginsOf(t, q) : d <= c}) = k]

\* The markers alone tell the frames of the chain.
LEMMA BasesFound ==
  ASSUME NEW p, NEW bs, IsTable(p, bs), NEW t \in Tapes, NEW q, NEW n, NEW s, NEW h,
         Chain(p, bs, t, q, n, s, h)
  PROVE  /\ q \in First(p) .. (TapeLength - 1)
         /\ {c \in DOMAIN t : t[c].marker = 1} = {0} \cup OriginsOf(t, q)
         /\ BasesOf(t, q) = s /\ Len(BasesOf(t, q)) = n
<1>1. /\ n \in Nat \ {0} /\ n \in 1 .. n /\ q \in Nat /\ s[n] = q /\ First(p) \in Nat \ {0}
      /\ \A k \in 1 .. n : s[k] \in First(p) .. q
      /\ \A j, k \in 1 .. n : j < k => s[j] + SizeAt(p, h[j]) <= s[k]
  <2>1. First(p) \in Nat \ {0}
    BY FrameSizes
  <2>2. /\ n \in Nat \ {0} /\ q \in Nat /\ s[n] = q
        /\ \A k \in 1 .. n : s[k] \in First(p) .. q
        /\ \A j, k \in 1 .. n : j < k => s[j] + SizeAt(p, h[j]) <= s[k]
    BY FramesInOrder DEF Chain, Shaped
  <2> QED
    BY <2>1, <2>2
<1>2. \A k \in 1 .. n : SizeAt(p, h[k]) \in Nat \ {0}
  <2>1. \A k \in 1 .. n : h[k] \in Table(p)
    BY DEF Chain, Shaped
  <2> QED
    BY <2>1, BlockSizes
<1>3. \A j, k \in 1 .. n : j < k => s[j] < s[k]
  <2>1. \A k \in 1 .. n : s[k] \in Nat
    BY <1>1
  <2> QED
    BY <1>1, <1>2, <2>1
<1>4. q \in First(p) .. (TapeLength - 1)
  <2>1. h[n] \in Table(p) /\ q + SizeAt(p, h[n]) <= TapeLength
    BY <1>1 DEF Chain, Shaped, Topped
  <2> QED
    BY <2>1, <1>1, <1>2, TapeAssumption
<1>5. DOMAIN t = 0 .. (TapeLength - 1)
  BY DEF Tapes
<1>6. \A c \in DOMAIN t : t[c].marker = 1 <=> c = 0 \/ \E k \in 1 .. n : s[k] = c
  BY DEF Chain, Marked
<1>7. s \in [1 .. n -> Nat]
  BY DEF Chain, Shaped
<1>8. OriginsOf(t, q) = Range(s)
  <2>1. ASSUME NEW k \in 1 .. n PROVE s[k] \in DOMAIN t /\ s[k] \in 1 .. q
    BY <1>1, <1>4, <1>5, TapeAssumption
  <2>2. ASSUME NEW c \in 1 .. q PROVE c \in DOMAIN t /\ c # 0
    BY <1>1, <1>4, <1>5, TapeAssumption
  <2>3. DOMAIN s = 1 .. n
    BY <1>7
  <2> QED
    BY <1>6, <2>1, <2>2, <2>3, Zenon DEF OriginsOf, Range
<1>9. {c \in DOMAIN t : t[c].marker = 1} = {0} \cup OriginsOf(t, q)
  <2>1. \A k \in 1 .. n : s[k] \in 1 .. q
    BY <1>1
  <2>2. 0 \in DOMAIN t /\ 1 .. q \subseteq DOMAIN t
    BY <1>1, <1>4, <1>5, TapeAssumption
  <2> QED
    BY <1>6, <2>1, <2>2 DEF OriginsOf
<1>10. /\ Cardinality(Range(s)) = n
       /\ \A k \in 1 .. n : Cardinality({d \in Range(s) : d <= s[k]}) = k
  <2>1. n \in Nat
    BY <1>1
  <2> QED
    BY <2>1, <1>3, <1>7, CountedUp, Zenon
<1>11. ASSUME NEW k \in 1 .. n
       PROVE  (CHOOSE c \in Range(s) : Cardinality({d \in Range(s) : d <= c}) = k) = s[k]
  <2>1. DOMAIN s = 1 .. n
    BY <1>7
  <2>2. s[k] \in Range(s)
    BY <2>1 DEF Range
  <2>3. ASSUME NEW c \in Range(s), Cardinality({d \in Range(s) : d <= c}) = k PROVE c = s[k]
    <3>1. PICK j \in 1 .. n : c = s[j]
      BY <2>1 DEF Range
    <3>2. Cardinality({d \in Range(s) : d <= s[j]}) = j
      BY <1>10
    <3>3. j = k
      BY <2>3, <3>1, <3>2
    <3> QED
      BY <3>1, <3>3
  <2>4. Cardinality({d \in Range(s) : d <= s[k]}) = k
    BY <1>10
  <2> QED
    BY <2>2, <2>3, <2>4
<1>12. BasesOf(t, q) = [k \in 1 .. n |->
                         CHOOSE c \in Range(s) : Cardinality({d \in Range(s) : d <= c}) = k]
  <2> DEFINE bases(O) == [k \in 1 .. Cardinality(O) |->
                            CHOOSE c \in O : Cardinality({d \in O : d <= c}) = k]
  <2>1. BasesOf(t, q) = bases(OriginsOf(t, q))
    BY Zenon DEF BasesOf
  <2>2. bases(OriginsOf(t, q)) = bases(Range(s))
    <3> HIDE DEF bases
    <3> QED
      BY <1>8
  <2> QED
    BY <1>10, <2>1, <2>2, Zenon
<1>13. BasesOf(t, q) = [k \in 1 .. n |-> s[k]]
  BY <1>11, <1>12, Zenon
<1>14. BasesOf(t, q) = s
  BY <1>7, <1>13
<1>15. Len(s) = n
  BY <1>1, <1>7
<1> QED
  BY <1>4, <1>9, <1>14, <1>15
=============================================================================
