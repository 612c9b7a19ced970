---------------------------- MODULE CallsProofs ----------------------------
(***************************************************************************)
(* A generated program does what its author means: Execution implements    *)
(* Calls, for every program whose entry function is not called again.      *)
(*                                                                         *)
(* The frames of the chain are the author's activations.  A metablock that *)
(* is about to run has, for the author, already run: the frames are read   *)
(* off the tape as it will be then.                                        *)
(***************************************************************************)
EXTENDS ExecutionProofs

----------------------------------------------------------------------------
(* The author's state, as functions of a table, a tape and a pointer. *)

WordOf(bs, f, k, cell) ==
  IF k \in DOMAIN f.pointers
  THEN bs[Selected(Len(bs), [high |-> cell.high, low |-> cell.low]) + 1].function
  ELSE cell.low

LocalsAt(bs, f, t, base) ==
  [k \in 0 .. (f.locals - 1) |-> WordOf(bs, f, k, t[base + LocalBase(f) + k])]

GlobalsOf(p, t) == [k \in 0 .. (p.globals - 1) |-> t[GlobalCell(k)].low]

AddressOf(q, f, place) ==
  IF place.kind = "global" THEN GlobalCell(place.at) ELSE q + LocalBase(f) + place.at

StoreOf(q, f, t, place, low) ==
  IF place.kind = "nowhere" THEN t ELSE [t EXCEPT ![AddressOf(q, f, place)].low = low]

FetchedOf(p, q, b, t) ==
  LET cell == q + SizeAt(p, b) + ReturnValueStart IN
  IF b.exit.into = Nowhere THEN t
  ELSE StoreOf(q, Owner(p, b), [t EXCEPT ![cell].low = 0], b.exit.into, t[cell].low)

SettledOf(p, t, q, b) == IF t[q].high # 0 /\ b.kind = "meta" THEN FetchedOf(p, q, b, t) ELSE t

\* The frame at base, whose TargetBlock names b; top: no frame is behind it.
FrameOf(p, bs, t, base, b, top) ==
  [function |-> Owner(p, b).name,
   block |-> IF b.kind = "meta" THEN b.exit.next ELSE b.name[2],
   into |-> IF b.kind = "meta" /\ ~ top THEN b.exit.into ELSE Nowhere,
   locals |-> LocalsAt(bs, Owner(p, b), t, base)]

\* The frames of a chain.
StackOf(p, bs, t, n, s, h) == [k \in 1 .. n |-> FrameOf(p, bs, t, s[k], h[k], k = n)]

\* The same, as the markers and the TargetBlocks tell them.
FrameSeen(p, bs, q, t, base) ==
  LET b == At(bs, TargetOf(t, base))
      f == Owner(p, b)
      waits == b.kind = "meta"
  IN  [function |-> f.name,
       block |-> IF waits THEN b.exit.next ELSE b.name[2],
       into |-> IF waits /\ base # q THEN b.exit.into ELSE Nowhere,
       locals |-> LocalsAt(bs, f, t, base)]
SettledSeen(p, bs, t, q) == SettledOf(p, t, q, At(bs, TargetOf(t, q)))
StackSeen(p, bs, t, q) ==
  IF t[q].high = 0 THEN <<>>
  ELSE [k \in DOMAIN BasesOf(t, q) |-> FrameSeen(p, bs, q, SettledSeen(p, bs, t, q), BasesOf(t, q)[k])]
GlobalsSeen(p, bs, t, q) == GlobalsOf(p, SettledSeen(p, bs, t, q))

\* The state that the refinement mapping shows is one of these.
LEMMA MappingIsSeen ==
  /\ Stack = StackSeen(program, blocks, tape, ptr)
  /\ Globals = GlobalsSeen(program, blocks, tape, ptr)
  /\ Stack' = StackSeen(program', blocks', tape', ptr')
  /\ Globals' = GlobalsSeen(program', blocks', tape', ptr')
<1>3. Bases = BasesOf(tape, ptr)
  BY DEF Bases, BasesOf, Origins, OriginsOf
<1>4. Settled = SettledSeen(program, blocks, tape, ptr)
  BY DEF Settled, SettledSeen, SettledOf, Ended, Fetched, FetchedOf, Running, Function,
         TargetBlock, At, Store, StoreOf, Address, AddressOf, SizeAt, Owner
<1>5. Stack = StackSeen(program, blocks, tape, ptr)
  BY <1>3, <1>4 DEF Stack, StackSeen, Ended, FrameAt, FrameSeen, TargetBlock, At, Word, WordOf, LocalsAt, Owner
<1>6. Globals = GlobalsSeen(program, blocks, tape, ptr)
  BY <1>4 DEF Globals, GlobalsSeen, GlobalsOf
<1>7. Settled' = SettledSeen(program', blocks', tape', ptr')
  BY DEF Settled, SettledSeen, SettledOf, Ended, Fetched, FetchedOf, Running, Function,
         TargetBlock, At, Store, StoreOf, Address, AddressOf, SizeAt, Owner
<1>8. Bases' = BasesOf(tape', ptr')
  BY DEF Bases, BasesOf, Origins, OriginsOf
<1>9. Stack' = StackSeen(program', blocks', tape', ptr')
  BY <1>7, <1>8 DEF Stack, StackSeen, Ended, FrameAt, FrameSeen, TargetBlock, At, Word, WordOf, LocalsAt, Owner
<1>10. Globals' = GlobalsSeen(program', blocks', tape', ptr')
  BY <1>7 DEF Globals, GlobalsSeen, GlobalsOf
<1> QED
  BY <1>5, <1>6, <1>9, <1>10

----------------------------------------------------------------------------
(* Frames and globals are read off different cells. *)

\* What a frame shows depends on its own cells only.
LEMMA LocalsKept ==
  ASSUME NEW p, NEW bs, IsTable(p, bs), NEW b \in Table(p), NEW base \in Nat, NEW t, NEW u,
         \A d \in (base + 1) .. (base + SizeAt(p, b) - 1) : u[d] = t[d]
  PROVE  LocalsAt(bs, Owner(p, b), u, base) = LocalsAt(bs, Owner(p, b), t, base)
<1> DEFINE f == Owner(p, b)
<1>1. f.locals \in Nat /\ LocalBase(f) \in 1 .. 2 /\ SizeAt(p, b) = LocalBase(f) + f.locals
  BY BlockSizes
<1> HIDE DEF f
<1>2. ASSUME NEW k \in 0 .. (f.locals - 1) PROVE u[base + LocalBase(f) + k] = t[base + LocalBase(f) + k]
  <2>1. base + LocalBase(f) + k \in (base + 1) .. (base + SizeAt(p, b) - 1)
    BY <1>1
  <2> QED
    BY <2>1
<1> QED
  BY <1>2 DEF LocalsAt, f

\* And the globals on theirs.
LEMMA GlobalsKept ==
  ASSUME NEW p, NEW bs, IsTable(p, bs), NEW t, NEW u, \A d \in 1 .. (First(p) - 1) : u[d] = t[d]
  PROVE  GlobalsOf(p, u) = GlobalsOf(p, t)
<1>1. p.globals \in Nat /\ First(p) = p.globals + 2
  BY FrameSizes
<1>2. ASSUME NEW k \in 0 .. (p.globals - 1) PROVE u[GlobalCell(k)] = t[GlobalCell(k)]
  <2>1. GlobalCell(k) \in 1 .. (First(p) - 1)
    BY <1>1 DEF GlobalCell
  <2> QED
    BY <2>1
<1> QED
  BY <1>2 DEF GlobalsOf

\* Where a place is.
LEMMA PlaceFound ==
  ASSUME NEW p, NEW bs, IsTable(p, bs), NEW b \in Table(p), NEW q \in Nat, First(p) <= q,
         q + SizeAt(p, b) <= TapeLength, NEW place, IsPlace(p, Owner(p, b), place), place # Nowhere
  PROVE  /\ AddressOf(q, Owner(p, b), place) \in 0 .. (TapeLength - 1)
         /\ \/ /\ place.kind = "local" /\ place.at \in (0 .. (Owner(p, b).locals - 1)) \ DOMAIN Owner(p, b).pointers
               /\ AddressOf(q, Owner(p, b), place) = q + LocalBase(Owner(p, b)) + place.at
               /\ AddressOf(q, Owner(p, b), place) \in (q + 1) .. (q + SizeAt(p, b) - 1)
            \/ /\ place.kind = "global" /\ place.at \in 0 .. (p.globals - 1)
               /\ AddressOf(q, Owner(p, b), place) = GlobalCell(place.at)
               /\ AddressOf(q, Owner(p, b), place) \in 1 .. (First(p) - 1)
<1> DEFINE f == Owner(p, b)
<1>1. /\ f.locals \in Nat /\ LocalBase(f) \in 1 .. 2 /\ SizeAt(p, b) = LocalBase(f) + f.locals
      /\ p.globals \in Nat /\ First(p) = p.globals + 2 /\ TapeLength \in Nat
  BY BlockSizes, FrameSizes, TapeAssumption
<1> HIDE DEF f
<1>2. CASE \E k \in (0 .. (f.locals - 1)) \ DOMAIN f.pointers : place = Local(k)
  <2>1. PICK k \in (0 .. (f.locals - 1)) \ DOMAIN f.pointers : place = Local(k)
    BY <1>2
  <2>2. place.kind = "local" /\ place.at = k /\ AddressOf(q, f, place) = q + LocalBase(f) + k
    BY <2>1 DEF Local, AddressOf
  <2>3. q + LocalBase(f) + k \in (q + 1) .. (q + SizeAt(p, b) - 1)
    BY <1>1, <2>1
  <2>4. q + LocalBase(f) + k \in 0 .. (TapeLength - 1)
    BY <1>1, <2>3
  <2> QED
    BY <2>1, <2>2, <2>3, <2>4 DEF f
<1>3. CASE \E k \in 0 .. (p.globals - 1) : place = Global(k)
  <2>1. PICK k \in 0 .. (p.globals - 1) : place = Global(k)
    BY <1>3
  <2>2. place.kind = "global" /\ place.at = k /\ AddressOf(q, f, place) = GlobalCell(k)
    BY <2>1 DEF Global, AddressOf
  <2>3. GlobalCell(k) \in 1 .. (First(p) - 1)
    BY <1>1 DEF GlobalCell
  <2>4. GlobalCell(k) \in 0 .. (TapeLength - 1)
    BY <1>1, <2>3
  <2> QED
    BY <2>1, <2>2, <2>3, <2>4 DEF f
<1> QED
  BY <1>2, <1>3 DEF IsPlace, f

\* A value that is stored on the tape is what the author has put into the place.
LEMMA StoreSeen ==
  ASSUME NEW p, NEW bs, IsTable(p, bs), NEW b \in Table(p), NEW q \in Nat, First(p) <= q,
         q + SizeAt(p, b) <= TapeLength, NEW place, IsPlace(p, Owner(p, b), place),
         NEW t \in Tapes, NEW v \in Words, NEW u, u = StoreOf(q, Owner(p, b), t, place, v)
  PROVE  /\ u \in Tapes
         /\ \A d \in DOMAIN t : d \in First(p) .. q \/ d >= q + SizeAt(p, b) => u[d] = t[d]
         /\ LocalsAt(bs, Owner(p, b), u, q) = Author!LocalsWith(LocalsAt(bs, Owner(p, b), t, q), place, v)
         /\ GlobalsOf(p, u) = Author!GlobalsWith(GlobalsOf(p, t), place, v)
<1>4. PICK f : f = Owner(p, b)
  OBVIOUS
<1>5. PICK a : a = AddressOf(q, f, place)
  OBVIOUS
<1>1. /\ f.locals \in Nat /\ LocalBase(f) \in 1 .. 2 /\ SizeAt(p, b) = LocalBase(f) + f.locals
      /\ p.globals \in Nat /\ First(p) = p.globals + 2 /\ TapeLength \in Nat
      /\ DOMAIN t = 0 .. (TapeLength - 1) /\ q \in Nat /\ q + SizeAt(p, b) <= TapeLength
  BY <1>4, BlockSizes, FrameSizes, TapeAssumption DEF Tapes
<1>6. PICK first \in Nat, size \in Nat, lb \in Nat, m \in Nat, g \in Nat, len \in Nat :
        /\ first = First(p) /\ size = SizeAt(p, b) /\ lb = LocalBase(f) /\ m = f.locals
        /\ g = p.globals /\ len = TapeLength
        /\ size = lb + m /\ first = g + 2 /\ first <= q /\ q + size <= len /\ lb >= 1
  BY <1>1
<1>2. CASE place = Nowhere
  BY <1>2 DEF StoreOf, Nowhere, Author!LocalsWith, Author!GlobalsWith
<1>3. CASE place # Nowhere
  <2>1. /\ a \in 0 .. (TapeLength - 1)
        /\ \/ /\ place.kind = "local" /\ place.at \in (0 .. (f.locals - 1)) \ DOMAIN f.pointers
              /\ a = q + LocalBase(f) + place.at /\ a \in (q + 1) .. (q + SizeAt(p, b) - 1)
           \/ /\ place.kind = "global" /\ place.at \in 0 .. (p.globals - 1)
              /\ a = GlobalCell(place.at) /\ a \in 1 .. (First(p) - 1)
    BY <1>3, <1>4, <1>5, PlaceFound
  <2>2. u = [t EXCEPT ![a].low = v]
    BY <1>4, <1>5, <2>1 DEF StoreOf
  <2>3. /\ u \in Tapes /\ DOMAIN u = DOMAIN t /\ u[a].low = v
        /\ \A d \in DOMAIN t : d # a => u[d] = t[d]
    <3>1. a \in 0 .. (TapeLength - 1)
      BY <2>1
    <3>2. t \in [0 .. (TapeLength - 1) -> [low : Words, high : Words, marker : 0 .. 1]]
      BY DEF Tapes
    <3>3. t[a] \in [low : Words, high : Words, marker : 0 .. 1]
      BY <3>1, <3>2
    <3> QED
      BY <2>2, <3>1, <3>2, <3>3 DEF Tapes
  <2>4. ASSUME NEW d \in DOMAIN t, d \in First(p) .. q \/ d >= q + SizeAt(p, b) PROVE u[d] = t[d]
    <3>1. d # a
      <4>1. d \in 0 .. (len - 1) /\ (d \in first .. q \/ d >= q + size)
        BY <1>1, <1>6, <2>4
      <4>2. a \in (q + 1) .. (q + size - 1) \/ a \in 1 .. (first - 1)
        BY <1>6, <2>1
      <4> QED
        BY <1>6, <4>1, <4>2
    <3> QED
      BY <2>3, <3>1
  <2>5. CASE place.kind = "local"
    <3>1. /\ place.at \in (0 .. (f.locals - 1)) \ DOMAIN f.pointers
          /\ a = q + LocalBase(f) + place.at /\ a \in (q + 1) .. (q + SizeAt(p, b) - 1)
      BY <2>1, <2>5
    <3>2. GlobalsOf(p, u) = GlobalsOf(p, t)
      <4>1. ASSUME NEW d \in 1 .. (First(p) - 1) PROVE u[d] = t[d]
        <5>2. d \in 1 .. (first - 1) /\ a \in (q + 1) .. (q + size - 1)
          BY <1>6, <3>1
        <5>3. d \in 0 .. (len - 1) /\ d # a
          BY <1>6, <5>2
        <5>1. d \in DOMAIN t /\ d # a
          BY <1>1, <1>6, <5>3
        <5> QED
          BY <2>3, <5>1
      <4> QED
        BY <4>1, GlobalsKept
    <3>3. ASSUME NEW k \in 0 .. (f.locals - 1)
          PROVE  WordOf(bs, f, k, u[q + LocalBase(f) + k]) =
                   IF k = place.at THEN v ELSE WordOf(bs, f, k, t[q + LocalBase(f) + k])
      <4>1. CASE k = place.at
        BY <2>3, <3>1, <4>1 DEF WordOf
      <4>2. CASE k # place.at
        <5>2. PICK i \in Nat : i = place.at
          BY <1>1, <3>1
        <5>3. k \in 0 .. (m - 1) /\ a = q + lb + i /\ k # i
          BY <1>6, <3>1, <4>2, <5>2
        <5>4. q + lb + k # a /\ q + lb + k \in 0 .. (len - 1)
          BY <1>6, <5>3
        <5>1. q + LocalBase(f) + k # a /\ q + LocalBase(f) + k \in DOMAIN t
          BY <1>1, <1>6, <5>4
        <5> QED
          BY <2>3, <4>2, <5>1
      <4> QED
        BY <4>1, <4>2
    <3>4. LocalsAt(bs, f, u, q) = [LocalsAt(bs, f, t, q) EXCEPT ![place.at] = v]
      BY <3>1, <3>3 DEF LocalsAt
    <3> QED
      BY <1>4, <2>3, <2>4, <2>5, <3>2, <3>4 DEF Author!LocalsWith, Author!GlobalsWith
  <2>6. CASE place.kind = "global"
    <3>1. place.at \in 0 .. (p.globals - 1) /\ a = GlobalCell(place.at) /\ a \in 1 .. (First(p) - 1)
      BY <2>1, <2>6
    <3>2. LocalsAt(bs, f, u, q) = LocalsAt(bs, f, t, q)
      <4>1. ASSUME NEW d \in (q + 1) .. (q + SizeAt(p, b) - 1) PROVE u[d] = t[d]
        <5>2. d \in (q + 1) .. (q + size - 1) /\ a \in 1 .. (first - 1)
          BY <1>6, <3>1
        <5>3. d \in 0 .. (len - 1) /\ d # a
          BY <1>6, <5>2
        <5>1. d \in DOMAIN t /\ d # a
          BY <1>1, <1>6, <5>3
        <5> QED
          BY <2>3, <5>1
      <4> QED
        BY <1>4, <4>1, LocalsKept
    <3>3. ASSUME NEW k \in 0 .. (p.globals - 1)
          PROVE  u[GlobalCell(k)].low = IF k = place.at THEN v ELSE t[GlobalCell(k)].low
      <4>1. CASE k = place.at
        BY <2>3, <3>1, <4>1
      <4>2. CASE k # place.at
        <5>2. PICK i \in Nat : i = place.at
          BY <1>1, <3>1
        <5>3. k \in 0 .. (g - 1) /\ a = 1 + i /\ k # i
          BY <1>6, <3>1, <4>2, <5>2 DEF GlobalCell
        <5>4. 1 + k # a /\ 1 + k \in 0 .. (len - 1)
          BY <1>6, <5>3
        <5>1. GlobalCell(k) # a /\ GlobalCell(k) \in DOMAIN t
          BY <1>1, <1>6, <5>4 DEF GlobalCell
        <5> QED
          BY <2>3, <4>2, <5>1
      <4> QED
        BY <4>1, <4>2
    <3>4. GlobalsOf(p, u) = [GlobalsOf(p, t) EXCEPT ![place.at] = v]
      BY <3>1, <3>3 DEF GlobalsOf
    <3> QED
      BY <1>4, <2>3, <2>4, <2>6, <3>2, <3>4 DEF Author!LocalsWith, Author!GlobalsWith
  <2> QED
    BY <2>1, <2>5, <2>6
<1> QED
  BY <1>2, <1>3

\* A fetched value is what the author's return has put into the caller's place.
LEMMA FetchedSeen ==
  ASSUME NEW p, NEW bs, IsTable(p, bs), NEW b \in Table(p), NEW q \in Nat, First(p) <= q,
         q + SizeAt(p, b) <= TapeLength, IsPlace(p, Owner(p, b), b.exit.into),
         b.exit.into # Nowhere => q + SizeAt(p, b) + 1 < TapeLength,
         NEW t \in Tapes, NEW u, u = FetchedOf(p, q, b, t)
  PROVE  /\ u \in Tapes
         /\ \A d \in First(p) .. q : u[d] = t[d]
         /\ LocalsAt(bs, Owner(p, b), u, q) =
              Author!LocalsWith(LocalsAt(bs, Owner(p, b), t, q), b.exit.into, t[q + SizeAt(p, b) + 1].low)
         /\ GlobalsOf(p, u) =
              Author!GlobalsWith(GlobalsOf(p, t), b.exit.into, t[q + SizeAt(p, b) + 1].low)
<1>1. CASE b.exit.into = Nowhere
  BY <1>1 DEF FetchedOf, Nowhere, Author!LocalsWith, Author!GlobalsWith
<1>2. CASE b.exit.into # Nowhere
  <2>1. PICK size \in Nat, first \in Nat, len \in Nat :
          /\ size = SizeAt(p, b) /\ first = First(p) /\ len = TapeLength
          /\ size >= 1 /\ first >= 1 /\ first <= q /\ q + size + 1 < len
    BY <1>2, BlockSizes, FrameSizes, TapeAssumption
  <2>2. PICK cell \in 0 .. (TapeLength - 1) : cell = q + SizeAt(p, b) + 1 /\ cell = q + size + 1
    BY <2>1
  <2>3. t \in [0 .. (TapeLength - 1) -> [low : Words, high : Words, marker : 0 .. 1]]
        /\ t[cell] \in [low : Words, high : Words, marker : 0 .. 1] /\ 0 \in Words
    BY ByteAssumption DEF Tapes, Words
  <2>4. PICK v \in Words : v = t[cell].low
    BY <2>3
  <2>5. PICK w : w = [t EXCEPT ![cell].low = 0]
    OBVIOUS
  <2>6. w \in Tapes /\ \A d \in 0 .. (TapeLength - 1) : d # cell => w[d] = t[d]
    BY <2>3, <2>5 DEF Tapes
  <2>7. u = StoreOf(q, Owner(p, b), w, b.exit.into, v)
    BY <1>2, <2>2, <2>4, <2>5 DEF FetchedOf, ReturnValueStart
  <2>8. PICK place : place = b.exit.into
    OBVIOUS
  <2>9. /\ u \in Tapes
        /\ \A d \in DOMAIN w : d \in First(p) .. q \/ d >= q + SizeAt(p, b) => u[d] = w[d]
        /\ LocalsAt(bs, Owner(p, b), u, q) = Author!LocalsWith(LocalsAt(bs, Owner(p, b), w, q), place, v)
        /\ GlobalsOf(p, u) = Author!GlobalsWith(GlobalsOf(p, w), place, v)
    BY <2>6, <2>7, <2>8, StoreSeen
  <2>10. LocalsAt(bs, Owner(p, b), w, q) = LocalsAt(bs, Owner(p, b), t, q)
    <3>1. ASSUME NEW d \in (q + 1) .. (q + SizeAt(p, b) - 1) PROVE w[d] = t[d]
      <4>1. d \in 0 .. (len - 1) /\ d # cell
        BY <2>1, <2>2
      <4> QED
        BY <2>1, <2>6, <4>1
    <3> QED
      BY <3>1, LocalsKept
  <2>11. GlobalsOf(p, w) = GlobalsOf(p, t)
    <3>1. ASSUME NEW d \in 1 .. (First(p) - 1) PROVE w[d] = t[d]
      <4>1. d \in 0 .. (len - 1) /\ d # cell
        BY <2>1, <2>2
      <4> QED
        BY <2>1, <2>6, <4>1
    <3> QED
      BY <3>1, GlobalsKept
  <2>12. ASSUME NEW d \in First(p) .. q PROVE u[d] = t[d]
    <3>1. d \in 0 .. (len - 1) /\ d # cell
      BY <2>1, <2>2
    <3>2. d \in DOMAIN w /\ w[d] = t[d]
      BY <2>1, <2>6, <3>1 DEF Tapes
    <3> QED
      BY <2>9, <3>2
  <2> QED
    BY <2>2, <2>4, <2>8, <2>9, <2>10, <2>11, <2>12
<1> QED
  BY <1>1, <1>2

----------------------------------------------------------------------------
(* The frames of a chain, the running one last. *)

BelowOf(p, bs, t, n, s, h) == [k \in 1 .. (n - 1) |-> FrameOf(p, bs, t, s[k], h[k], FALSE)]

\* A sequence that is given by its elements: its length, its last one and the
\* ones before it.
LEMMA LastOfList ==
  ASSUME NEW n \in Nat \ {0}, NEW e,
         NEW st, st = [k \in 1 .. n |-> e[k]],
         NEW below, below = [k \in 1 .. (n - 1) |-> e[k]]
  PROVE  /\ Len(st) = n /\ st[Len(st)] = e[n] /\ st # <<>>
         /\ SubSeq(st, 1, Len(st) - 1) = below
         /\ Len(below) = n - 1 /\ (below = <<>> <=> n = 1)
<1> DEFINE S == {e[k] : k \in 1 .. n}
<1>1. st \in Seq(S) /\ Len(st) = n /\ st[n] = e[n] /\ DOMAIN st = 1 .. n
  OBVIOUS
<1>2. below \in Seq(S) /\ Len(below) = n - 1 /\ DOMAIN below = 1 .. (n - 1)
  OBVIOUS
<1>3. st # <<>> /\ (below = <<>> <=> n = 1)
  <2> HIDE DEF S
  <2>1. \A z \in Seq(S) : z = <<>> <=> Len(z) = 0
    OBVIOUS
  <2> QED
    BY <1>1, <1>2, <2>1
<1>4. SubSeq(st, 1, n - 1) = below
  BY <1>1, <1>2
<1> QED
  BY <1>1, <1>2, <1>3, <1>4

\* What is put at its end.
LEMMA LastSplit ==
  ASSUME NEW n \in Nat \ {0}, NEW e
  PROVE  LET below == [k \in 1 .. (n - 1) |-> e[k]]
         IN  /\ \A x : Append(below, x) = [k \in 1 .. n |-> IF k = n THEN x ELSE e[k]]
             /\ \A x, y : below \o <<x, y>> =
                  [k \in 1 .. (n + 1) |-> IF k = n THEN x ELSE IF k = n + 1 THEN y ELSE e[k]]
<1> DEFINE S == {e[k] : k \in 1 .. n}
           below == [k \in 1 .. (n - 1) |-> e[k]]
<1>1. below \in Seq(S) /\ Len(below) = n - 1 /\ DOMAIN below = 1 .. (n - 1)
  OBVIOUS
<1>2. ASSUME NEW x
      PROVE  Append(below, x) = [k \in 1 .. n |-> IF k = n THEN x ELSE e[k]]
  BY <1>1
<1>3. ASSUME NEW x, NEW y
      PROVE  below \o <<x, y>> =
               [k \in 1 .. (n + 1) |-> IF k = n THEN x ELSE IF k = n + 1 THEN y ELSE e[k]]
  BY <1>1
<1> QED
  BY <1>2, <1>3

\* The frames are those below and the running one.
LEMMA StackSplit ==
  ASSUME NEW n \in Nat \ {0}, NEW p, NEW bs, NEW t, NEW s, NEW h
  PROVE  StackOf(p, bs, t, n, s, h) =
           Append(BelowOf(p, bs, t, n, s, h), FrameOf(p, bs, t, s[n], h[n], TRUE))
<1>1. PICK e : e = [k \in 1 .. n |-> FrameOf(p, bs, t, s[k], h[k], k = n)]
  OBVIOUS
<1>2. e = [k \in 1 .. n |-> IF k = n THEN e[n] ELSE e[k]]
  BY <1>1
<1>3. Append([k \in 1 .. (n - 1) |-> e[k]], e[n]) = [k \in 1 .. n |-> IF k = n THEN e[n] ELSE e[k]]
  BY LastSplit
<1>4. [k \in 1 .. (n - 1) |-> e[k]] = BelowOf(p, bs, t, n, s, h)
  <2>1. \A k \in 1 .. (n - 1) : k \in 1 .. n /\ k # n
    OBVIOUS
  <2>2. \A k \in 1 .. (n - 1) : e[k] = FrameOf(p, bs, t, s[k], h[k], FALSE)
    BY <1>1, <2>1
  <2> QED
    BY <2>2 DEF BelowOf
<1>5. e[n] = FrameOf(p, bs, t, s[n], h[n], TRUE)
  BY <1>1 DEF FrameOf
<1> QED
  BY <1>1, <1>2, <1>3, <1>4, <1>5 DEF StackOf

\* What the last frame does leaves the frames below it alone.
LEMMA BelowKept ==
  ASSUME NEW p, NEW bs, IsTable(p, bs), NEW q, NEW n, NEW s, NEW h, NEW t, NEW u,
         Shaped(p, q, n, s, h), Waiting(p, bs, t, n, s, h),
         \A d \in First(p) .. (q - 1) : u[d] = t[d]
  PROVE  BelowOf(p, bs, u, n, s, h) = BelowOf(p, bs, t, n, s, h)
<1>1. q \in Nat /\ n \in Nat \ {0} /\ First(p) \in Nat
  BY FramesInOrder, FrameSizes
<1>2. ASSUME NEW k \in 1 .. (n - 1)
      PROVE  FrameOf(p, bs, u, s[k], h[k], FALSE) = FrameOf(p, bs, t, s[k], h[k], FALSE)
  <2>1. k \in 1 .. n /\ k < n
    BY <1>1
  <2>2. s[k] \in First(p) .. q /\ s[k] + SizeAt(p, h[k]) <= q
    BY <2>1, FramesInOrder
  <2>3. h[k] \in Table(p)
    BY <2>1 DEF Shaped
  <2>4. PICK b \in Table(p) : b = h[k]
    BY <2>3
  <2>5. PICK base \in Nat : base = s[k]
    BY <1>1, <2>2
  <2>6. SizeAt(p, b) \in Nat
    BY BlockSizes
  <2>7. \A d \in (base + 1) .. (base + SizeAt(p, b) - 1) : u[d] = t[d]
    BY <1>1, <2>2, <2>4, <2>5, <2>6
  <2>8. LocalsAt(bs, Owner(p, b), u, base) = LocalsAt(bs, Owner(p, b), t, base)
    BY <2>7, LocalsKept
  <2> QED
    BY <2>4, <2>5, <2>8 DEF FrameOf
<1> QED
  BY <1>2 DEF BelowOf

\* What a metablock that is about to run settles.
LEMMA ChainSettled ==
  ASSUME Room, NEW p, NEW bs, IsTable(p, bs), NEW t \in Tapes, NEW q, NEW n, NEW s, NEW h,
         Chain(p, bs, t, q, n, s, h), NEW u, u = SettledOf(p, t, q, h[n])
  PROVE  /\ h[n] \in Table(p) /\ q \in Nat /\ First(p) <= q /\ q + SizeAt(p, h[n]) <= TapeLength
         /\ u \in Tapes /\ \A d \in First(p) .. q : u[d] = t[d]
         /\ h[n].kind = "meta" =>
              /\ IsPlace(p, Owner(p, h[n]), h[n].exit.into)
              /\ h[n].exit.into # Nowhere => q + SizeAt(p, h[n]) + 1 < TapeLength
<1>1. /\ n \in 1 .. n /\ h[n] \in Table(p) /\ q \in Nat /\ First(p) <= q
      /\ q + SizeAt(p, h[n]) <= TapeLength
      /\ h[n].kind = "meta" /\ h[n].exit.into # Nowhere => q + SizeAt(p, h[n]) + 1 < TapeLength
  <2>1. n \in Nat \ {0}
    BY DEF Chain, Shaped
  <2>2. n \in 1 .. n
    BY <2>1
  <2>3. s[n] \in First(p) .. q /\ s[n] = q /\ q \in Nat /\ First(p) \in Int
    BY <2>2, FramesInOrder, FrameSizes DEF Chain, Shaped
  <2> QED
    BY <2>2, <2>3 DEF Chain, Shaped, Topped
<1>2. PICK b \in Table(p) : b = h[n]
  BY <1>1
<1>3. ASSUME b.kind = "meta" PROVE IsPlace(p, Owner(p, b), b.exit.into)
  <2>1. b.exit.kind = "call" /\ IsExit(p, Owner(p, b), b.exit, Words)
    BY <1>3, TableBlock DEF IsTable, Owner
  <2> QED
    BY <2>1 DEF IsExit, Suits
<1>4. CASE t[q].high # 0 /\ b.kind = "meta"
  <2>1. u = FetchedOf(p, q, b, t)
    BY <1>2, <1>4 DEF SettledOf
  <2>2. u \in Tapes /\ \A d \in First(p) .. q : u[d] = t[d]
    BY <1>1, <1>2, <1>3, <1>4, <2>1, FetchedSeen
  <2> QED
    BY <1>1, <1>2, <1>3, <2>2
<1>5. CASE ~ (t[q].high # 0 /\ b.kind = "meta")
  BY <1>1, <1>2, <1>3, <1>5 DEF SettledOf
<1> QED
  BY <1>4, <1>5

\* What the markers and the TargetBlocks tell are the frames of the chain.
LEMMA FramesSeen ==
  ASSUME Room, NEW p, NEW bs, IsTable(p, bs), NEW t \in Tapes, NEW q, NEW n, NEW s, NEW h,
         Chain(p, bs, t, q, n, s, h), t[q].high # 0, NEW u, u = SettledOf(p, t, q, h[n])
  PROVE  /\ StackSeen(p, bs, t, q) = StackOf(p, bs, u, n, s, h)
         /\ GlobalsSeen(p, bs, t, q) = GlobalsOf(p, u)
<1>1. /\ h[n] \in Table(p) /\ q \in Nat /\ n \in Nat \ {0} /\ First(p) \in Nat
      /\ \A d \in First(p) .. q : u[d] = t[d]
  <2>1. n \in Nat \ {0}
    BY DEF Chain, Shaped
  <2>2. First(p) \in Nat
    BY FrameSizes
  <2> QED
    BY <2>1, <2>2, ChainSettled
<1>2. BasesOf(t, q) = s /\ s \in [1 .. n -> Nat] /\ h \in [1 .. n -> Table(p)] /\ s[n] = q
  BY BasesFound DEF Chain, Shaped
<1>3. \A b \in Table(p) : At(bs, Ix(bs, b.function, b.name)) = b
  BY IndexFinds
<1>4. ASSUME NEW k \in 1 .. n
      PROVE  At(bs, TargetOf(t, s[k])) = h[k] /\ s[k] \in First(p) .. q /\ (s[k] = q <=> k = n)
  <2>1. s[k] \in First(p) .. q /\ (k < n => s[k] + SizeAt(p, h[k]) <= q)
    BY FramesInOrder DEF Chain
  <2>2. SizeAt(p, h[k]) \in Nat \ {0} /\ h[k] \in Table(p)
    BY <1>2, BlockSizes
  <2>3. s[k] = q <=> k = n
    BY <1>1, <1>2, <2>1, <2>2
  <2>4. Names(bs, t, s[k], h[k])
    <3>1. CASE k = n
      BY <1>2, <3>1 DEF Chain, Topped
    <3>2. CASE k # n
      <4>1. k \in 1 .. (n - 1)
        BY <1>1, <3>2
      <4> QED
        BY <4>1 DEF Chain, Waiting
    <3> QED
      BY <3>1, <3>2
  <2> QED
    BY <1>3, <2>1, <2>2, <2>3, <2>4 DEF Names
<1>5. SettledSeen(p, bs, t, q) = u
  <2>1. n \in 1 .. n
    BY <1>1
  <2> QED
    BY <1>2, <1>4, <2>1 DEF SettledSeen
<1>6. ASSUME NEW k \in 1 .. n
      PROVE  FrameSeen(p, bs, q, u, s[k]) = FrameOf(p, bs, u, s[k], h[k], k = n)
  <2>1. TargetOf(u, s[k]) = TargetOf(t, s[k])
    BY <1>1, <1>4 DEF TargetOf
  <2>2. At(bs, TargetOf(u, s[k])) = h[k] /\ (s[k] # q <=> ~ (k = n))
    BY <1>4, <2>1
  <2> QED
    BY <2>2 DEF FrameSeen, FrameOf
<1>7. StackSeen(p, bs, t, q) = [k \in DOMAIN s |-> FrameSeen(p, bs, q, u, s[k])]
  BY <1>2, <1>5 DEF StackSeen
<1>8. DOMAIN s = 1 .. n
  BY <1>2
<1> QED
  BY <1>5, <1>6, <1>7, <1>8 DEF StackOf, GlobalsSeen

----------------------------------------------------------------------------
(* The running block, as the author sees it. *)

\* A block that control leads to runs.
RunsUser(n, s, h) == Runs(n, s, h) /\ tape[ptr].high # 0 /\ h[n].kind \in UserKinds

\* The running block is the block of that label in its function.
LEMMA BlockMeant ==
  ASSUME NEW p, NEW words, WellFormed(p, words), NEW b \in Users(p)
  PROVE  LET c == BlockOf(FunctionOf(p, b.function), b.name[2]) IN
         c.compute = b.compute /\ c.exit = b.exit
<1>1. PICK f \in Range(p.functions) : \E k \in DOMAIN f.blocks : b = UserBlock(f, k)
  BY DEF Users
<1>2. PICK k \in DOMAIN f.blocks : b = UserBlock(f, k)
  BY <1>1
<1>3. /\ b.function = f.name /\ b.name[2] = f.blocks[k].label
      /\ b.compute = f.blocks[k].compute /\ b.exit = f.blocks[k].exit
  BY <1>2 DEF UserBlock, Label
<1>4. FunctionOf(p, f.name) = f
  BY NamesDetermine
<1>5. f.blocks[k] \in Range(f.blocks) /\ \A c, d \in Range(f.blocks) : c.label = d.label => c = d
  BY DEF WellFormed, IsFunction, Range
<1>6. BlockOf(f, f.blocks[k].label) = f.blocks[k]
  BY <1>5, Zenon DEF BlockOf
<1> QED
  BY <1>3, <1>4, <1>6

\* What the author sees of the state in which a block is about to run.
LEMMA AuthorSees ==
  ASSUME Room, NEW n, NEW s, NEW h, RunsUser(n, s, h)
  PROVE  /\ Stack = StackOf(program, blocks, tape, n, s, h) /\ Stack # <<>>
         /\ Author!Top = FrameOf(program, blocks, tape, ptr, h[n], TRUE)
         /\ Author!Top.function = Function.name /\ Author!Top.block = h[n].name[2]
         /\ Author!Top.locals = LocalsAt(blocks, Function, tape, ptr)
         /\ Author!Below = BelowOf(program, blocks, tape, n, s, h)
         /\ Len(Author!Below) = n - 1 /\ (Author!Below = <<>> <=> n = 1)
         /\ Globals = GlobalsOf(program, tape)
         /\ Author!Running.compute = h[n].compute /\ Author!Running.exit = h[n].exit
         /\ h[n] \in Users(program) /\ h[n].kind = h[n].exit.kind
         /\ IsComputation(program, Function, h[n].compute, Words)
         /\ IsExit(program, Function, h[n].exit, Words)
<1>1. /\ IsTable(program, blocks) /\ tape \in Tapes /\ Chain(program, blocks, tape, ptr, n, s, h)
      /\ tape[ptr].high # 0 /\ h[n].kind \in UserKinds /\ h[n].kind # "meta" /\ Runs(n, s, h)
  BY DEF RunsUser, Runs, UserKinds
<1>2. /\ n \in Nat \ {0} /\ h[n] \in Table(program) /\ Function = Owner(program, h[n])
      /\ Function.name = h[n].function
  BY <1>1, RunningBlock
<1>3. SettledOf(program, tape, ptr, h[n]) = tape
  BY <1>1 DEF SettledOf
<1>4. /\ Stack = StackOf(program, blocks, tape, n, s, h)
      /\ Globals = GlobalsOf(program, tape)
  BY <1>1, <1>3, FramesSeen, MappingIsSeen
<1>5. s[n] = ptr
  BY <1>1 DEF Chain, Shaped
<1>6. PICK e : e = [k \in 1 .. n |-> FrameOf(program, blocks, tape, s[k], h[k], k = n)]
  OBVIOUS
<1>7. Stack = [k \in 1 .. n |-> e[k]]
  BY <1>4, <1>6 DEF StackOf
<1>8. e[n] = FrameOf(program, blocks, tape, ptr, h[n], TRUE)
  BY <1>2, <1>5, <1>6 DEF FrameOf
<1>9. [k \in 1 .. (n - 1) |-> e[k]] = BelowOf(program, blocks, tape, n, s, h)
  <2>1. \A k \in 1 .. (n - 1) : k \in 1 .. n /\ k # n
    BY <1>2
  <2>2. \A k \in 1 .. (n - 1) : e[k] = FrameOf(program, blocks, tape, s[k], h[k], FALSE)
    BY <1>6, <2>1
  <2> QED
    BY <2>2 DEF BelowOf
<1>10. /\ Len(Stack) = n /\ Stack[Len(Stack)] = e[n] /\ Stack # <<>>
       /\ SubSeq(Stack, 1, Len(Stack) - 1) = [k \in 1 .. (n - 1) |-> e[k]]
       /\ Len([k \in 1 .. (n - 1) |-> e[k]]) = n - 1
       /\ [k \in 1 .. (n - 1) |-> e[k]] = <<>> <=> n = 1
  <2>1. PICK below : below = [k \in 1 .. (n - 1) |-> e[k]]
    OBVIOUS
  <2> QED
    BY <1>2, <1>7, <2>1, LastOfList
<1>11. /\ Author!Top = FrameOf(program, blocks, tape, ptr, h[n], TRUE)
       /\ Author!Below = BelowOf(program, blocks, tape, n, s, h)
       /\ Len(Author!Below) = n - 1 /\ (Author!Below = <<>> <=> n = 1)
  BY <1>8, <1>9, <1>10 DEF Author!Top, Author!Below
<1>12. /\ Author!Top.function = Function.name /\ Author!Top.block = h[n].name[2]
       /\ Author!Top.locals = LocalsAt(blocks, Function, tape, ptr)
  BY <1>1, <1>2, <1>11 DEF FrameOf
<1>13. /\ h[n] \in Users(program) /\ h[n].kind = h[n].exit.kind
       /\ IsComputation(program, Function, h[n].compute, Words)
       /\ IsExit(program, Function, h[n].exit, Words)
  BY <1>1, <1>2, TableBlock DEF IsTable, Owner
<1>14. Author!Running.compute = h[n].compute /\ Author!Running.exit = h[n].exit
  <2>1. Author!Running = BlockOf(FunctionOf(program, h[n].function), h[n].name[2])
    <3>1. Author!Running = BlockOf(FunctionOf(program, Author!Top.function), Author!Top.block)
      BY DEF Author!Running, Author!FunctionOf, Author!BlockOf, FunctionOf, BlockOf, Range, Author!Range
    <3> QED
      BY <1>2, <1>12, <3>1
  <2> QED
    BY <1>1, <1>13, <2>1, BlockMeant DEF IsTable
<1> QED
  BY <1>4, <1>10, <1>11, <1>12, <1>13, <1>14

\* An integer operand has the value that it has for the author.
LEMMA ValueMeant ==
  ASSUME Room, NEW n, NEW s, NEW h, Runs(n, s, h), tape[ptr].high # 0,
         NEW t, NEW input, NEW o, IsValue(program, Function, o, Words)
  PROVE  Author!Value(LocalsAt(blocks, Function, t, ptr), GlobalsOf(program, t), o, input)
           = Fields(t, o, input).low
<1>1. CASE IsPlace(program, Function, o) /\ o # Nowhere
  <2>1. CASE \E k \in (0 .. (Function.locals - 1)) \ DOMAIN Function.pointers : o = Local(k)
    <3>1. PICK k \in (0 .. (Function.locals - 1)) \ DOMAIN Function.pointers : o = Local(k)
      BY <2>1
    <3>2. o.kind = "local" /\ o.at = k
      BY <3>1 DEF Local
    <3>3. Address(o) = ptr + LocalBase(Function) + k
      BY <3>2 DEF Address
    <3>4. Fields(t, o, input).low = t[ptr + LocalBase(Function) + k].low
      BY <3>2, <3>3 DEF Fields
    <3>5. LocalsAt(blocks, Function, t, ptr)[k] = t[ptr + LocalBase(Function) + k].low
      BY <3>1 DEF LocalsAt, WordOf
    <3> QED
      BY <3>2, <3>4, <3>5 DEF Author!Value
  <2>2. CASE \E k \in 0 .. (program.globals - 1) : o = Global(k)
    <3>1. PICK k \in 0 .. (program.globals - 1) : o = Global(k)
      BY <2>2
    <3>2. o.kind = "global" /\ o.at = k
      BY <3>1 DEF Global
    <3>3. Fields(t, o, input).low = t[GlobalCell(k)].low
      BY <3>2 DEF Fields, Address
    <3>4. GlobalsOf(program, t)[k] = t[GlobalCell(k)].low
      BY <3>1 DEF GlobalsOf
    <3> QED
      BY <3>2, <3>3, <3>4 DEF Author!Value
  <2> QED
    BY <1>1, <2>1, <2>2 DEF IsPlace
<1>2. CASE \E v \in Words : o = Constant(v)
  BY <1>2 DEF Constant, Fields, Author!Value
<1>3. CASE o = Input
  BY <1>3 DEF Input, Fields, Author!Value
<1> QED
  BY <1>1, <1>2, <1>3 DEF IsValue

\* A function pointer is, for the author, the function.
LEMMA AddressMeant ==
  ASSUME Room, NEW n, NEW s, NEW h, Runs(n, s, h), tape[ptr].high # 0,
         NEW t, PointersKept(t), NEW input, NEW o, NEW type, IsAddress(program, Function, o, type)
  PROVE  Author!Value(LocalsAt(blocks, Function, t, ptr), GlobalsOf(program, t), o, input)
           = At(blocks, Fields(t, o, input)).function
<1>1. CASE \E g \in Range(program.functions) : g.type = type /\ o = FunctionAddress(g.name)
  <2>1. PICK g \in Range(program.functions) : g.type = type /\ o = FunctionAddress(g.name)
    BY <1>1
  <2>2. o.kind = "function" /\ o.name = g.name
    BY <2>1 DEF FunctionAddress
  <2>3. IsTable(program, blocks) /\ WellFormed(program, Words)
    BY DEF Runs, IsTable
  <2>4. FunctionOf(program, g.name) = g
    BY <2>3, NamesDetermine
  <2>5. Fields(t, o, input) = EntryIx(blocks, g)
    BY <2>2, <2>4 DEF Fields, EntryIndex, EntryIx, Index, Ix
  <2>6. PICK c \in Users(program) : c.function = g.name /\ c.name = Label(EntryOf(g))
    BY <2>3, LabelBlock
  <2>7. c \in Table(program)
    BY DEF Table
  <2>8. At(blocks, EntryIx(blocks, g)) = c
    BY <2>3, <2>6, <2>7, IndexFinds DEF EntryIx
  <2> QED
    BY <2>2, <2>5, <2>6, <2>8 DEF Author!Value
<1>2. CASE \E k \in DOMAIN Function.pointers : Function.pointers[k] = type /\ o = Local(k)
  <2>1. PICK k \in DOMAIN Function.pointers : o = Local(k)
    BY <1>2
  <2>2. o.kind = "local" /\ o.at = k
    BY <2>1 DEF Local
  <2>3. Fields(t, o, input) = [high |-> t[ptr + LocalBase(Function) + k].high,
                               low |-> t[ptr + LocalBase(Function) + k].low]
    BY <2>2 DEF Fields, Address
  <2>4. k \in 0 .. (Function.locals - 1)
    BY RunningBlock, FrameSizes DEF Runs
  <2>5. LocalsAt(blocks, Function, t, ptr)[k] = At(blocks, Fields(t, o, input)).function
    BY <2>3, <2>4 DEF LocalsAt, WordOf, At
  <2> QED
    BY <2>2, <2>5 DEF Author!Value
<1> QED
  BY <1>1, <1>2 DEF IsAddress

\* What the block has computed is what it means.
LEMMA ComputedMeant ==
  ASSUME Room, NEW n, NEW s, NEW h, RunsUser(n, s, h), NEW input \in Inputs
  PROVE  /\ Kept(Computed(input))
         /\ LocalsAt(blocks, Function, Computed(input), ptr) = Author!Locals(input)
         /\ GlobalsOf(program, Computed(input)) = Author!Globals(input)
<1>1. /\ Runs(n, s, h) /\ tape[ptr].high # 0 /\ Running = h[n] /\ Function = Owner(program, h[n])
      /\ IsTable(program, blocks) /\ tape \in Tapes /\ Kept(tape) /\ h[n] \in Table(program)
      /\ Running.kind \in UserKinds
  BY RunningBlock DEF RunsUser, Runs, Kept, PointersKept
<1>2. PICK dest, left, right :
        /\ dest = h[n].compute.dest /\ left = h[n].compute.left /\ right = h[n].compute.right
        /\ IsPlace(program, Function, dest)
        /\ IsValue(program, Function, left, Words) /\ IsValue(program, Function, right, Words)
  BY AuthorSees DEF IsComputation
<1>3. PICK x \in Words, y \in Words :
        x = Fields(tape, left, input).low /\ y = Fields(tape, right, input).low
  BY <1>1, <1>2, ValueIsByte
<1>4. PICK v \in Words : v = (x + y) % Byte
  BY <1>3, ByteAssumption DEF Words
<1>5. Computed(input) = Store(tape, dest, v)
  BY <1>1, <1>2, <1>3, <1>4 DEF Computed
<1>6. PICK t, q, f, p, bs : t = tape /\ q = ptr /\ f = Function /\ p = program /\ bs = blocks
  OBVIOUS
<1>7. PICK b \in Table(p) : b = h[n]
  BY <1>1, <1>6
<1>8. PICK u : u = StoreOf(q, f, t, dest, v)
  OBVIOUS
<1>9. Computed(input) = u
  BY <1>5, <1>6, <1>8 DEF Store, StoreOf, Address, AddressOf
<1>10. /\ q \in Nat /\ First(p) <= q /\ q + SizeAt(p, b) <= TapeLength /\ f = Owner(p, b)
       /\ IsTable(p, bs) /\ t \in Tapes
  <2>1. /\ ptr \in First(program) .. (TapeLength - 1) /\ First(program) \in Nat
        /\ ptr + StackFrameSize(Function) <= TapeLength
    <3>1. First(program) = program.globals + 2 /\ program.globals \in Nat
      BY <1>1, RunningBlock
    <3> QED
      BY <1>1, <3>1, RunningBlock
  <2> QED
    BY <1>1, <1>6, <1>7, <2>1 DEF SizeAt
<1>11. /\ LocalsAt(bs, f, u, q) = Author!LocalsWith(LocalsAt(bs, f, t, q), dest, v)
       /\ GlobalsOf(p, u) = Author!GlobalsWith(GlobalsOf(p, t), dest, v)
  BY <1>2, <1>6, <1>8, <1>10, StoreSeen
<1>12. Author!Computed(input) = v
  <2>1. Author!Value(LocalsAt(blocks, Function, tape, ptr), GlobalsOf(program, tape), left, input) = x
    BY <1>1, <1>2, <1>3, ValueMeant
  <2>2. Author!Value(LocalsAt(blocks, Function, tape, ptr), GlobalsOf(program, tape), right, input) = y
    BY <1>1, <1>2, <1>3, ValueMeant
  <2>3. Author!Top.locals = LocalsAt(blocks, Function, tape, ptr) /\ Globals = GlobalsOf(program, tape)
        /\ Author!Running.compute = h[n].compute
    BY AuthorSees
  <2> QED
    BY <1>2, <1>4, <2>1, <2>2, <2>3 DEF Author!Computed
<1>13. /\ Author!Locals(input) = Author!LocalsWith(LocalsAt(blocks, Function, tape, ptr), dest, v)
       /\ Author!Globals(input) = Author!GlobalsWith(GlobalsOf(program, tape), dest, v)
  <2>1. Author!Top.locals = LocalsAt(blocks, Function, tape, ptr) /\ Globals = GlobalsOf(program, tape)
        /\ Author!Running.compute = h[n].compute
    BY AuthorSees
  <2> QED
    BY <1>2, <1>12, <2>1 DEF Author!Locals, Author!Globals
<1>14. Kept(Computed(input))
  BY <1>1, ComputedKept
<1> QED
  BY <1>6, <1>9, <1>11, <1>13, <1>14

\* The frames after a step.
LEMMA NextSeen ==
  ASSUME Room, IsTable(program, blocks), program' = program, blocks' = blocks,
         NEW m, NEW r, NEW g, tape' \in Tapes, Chain(program, blocks, tape', ptr', m, r, g)
  PROVE  /\ tape'[ptr'].high # 0 =>
              /\ Stack' = StackOf(program, blocks, SettledOf(program, tape', ptr', g[m]), m, r, g)
              /\ Globals' = GlobalsOf(program, SettledOf(program, tape', ptr', g[m]))
         /\ tape'[ptr'].high = 0 => Stack' = <<>> /\ Globals' = GlobalsOf(program, tape')
<1>1. PICK t, q, p, bs : t = tape' /\ q = ptr' /\ p = program /\ bs = blocks
  OBVIOUS
<1>2. IsTable(p, bs) /\ t \in Tapes /\ Chain(p, bs, t, q, m, r, g)
  BY <1>1
<1>3. Stack' = StackSeen(p, bs, t, q) /\ Globals' = GlobalsSeen(p, bs, t, q)
  BY <1>1, MappingIsSeen
<1>4. PICK u : u = SettledOf(p, t, q, g[m])
  OBVIOUS
<1>5. ASSUME t[q].high # 0
      PROVE  Stack' = StackOf(p, bs, u, m, r, g) /\ Globals' = GlobalsOf(p, u)
  BY <1>2, <1>3, <1>4, <1>5, FramesSeen
<1>6. ASSUME t[q].high = 0
      PROVE  Stack' = <<>> /\ Globals' = GlobalsOf(p, t)
  BY <1>3, <1>6 DEF StackSeen, GlobalsSeen, SettledSeen, SettledOf
<1> QED
  BY <1>1, <1>4, <1>5, <1>6

\* When the frame goes on with another block, so does the activation.
LEMMA GoesOnMeant ==
  ASSUME Room, NEW n, NEW s, NEW h, Runs(n, s, h), tape[ptr].high # 0, NEW t, Kept(t),
         NEW c \in Users(program), GoesOn(n, s, h, t, tape', c), tape' \in Tapes,
         ptr' = ptr, program' = program, blocks' = blocks
  PROVE  /\ Stack' = Append(BelowOf(program, blocks, tape, n, s, h),
                            [function |-> Function.name, block |-> c.name[2], into |-> Nowhere,
                             locals |-> LocalsAt(blocks, Function, t, ptr)])
         /\ Globals' = GlobalsOf(program, t)
<1>1. PICK u, v, q, p, bs : u = tape' /\ v = tape /\ q = ptr /\ p = program /\ bs = blocks
  OBVIOUS
<1>2. PICK g : g = [h EXCEPT ![n] = c]
  OBVIOUS
<1>3. /\ c \in Table(p) /\ c.function = h[n].function /\ c.kind \in UserKinds
      /\ Chain(p, bs, u, q, n, s, g) /\ u[q].high # 0 /\ u \in Tapes
      /\ \A d \in DOMAIN v \ {q} : u[d] = t[d]
  BY <1>1, <1>2 DEF GoesOn
<1>4. /\ IsTable(p, bs) /\ v \in Tapes /\ t \in Tapes /\ Chain(p, bs, v, q, n, s, h)
      /\ \A d \in First(p) .. q : t[d] = v[d]
  BY <1>1 DEF Runs, Kept
<1>5. /\ n \in Nat \ {0} /\ n \in 1 .. n /\ g[n] = c /\ s[n] = q /\ \A k \in 1 .. (n - 1) : g[k] = h[k]
  <2>1. n \in Nat \ {0} /\ h \in [1 .. n -> Table(p)] /\ s[n] = q
    BY <1>4 DEF Chain, Shaped
  <2>2. n \in 1 .. n /\ \A k \in 1 .. (n - 1) : k \in 1 .. n /\ k # n
    BY <2>1
  <2> QED
    BY <1>2, <2>1, <2>2
<1>6. Owner(p, c) = Function /\ Function.name = c.function
  BY <1>1, <1>3, RunningBlock DEF Owner
<1>7. /\ q \in Nat /\ First(p) \in Nat /\ First(p) <= q /\ q + SizeAt(p, c) <= TapeLength
      /\ SizeAt(p, c) \in Nat /\ TapeLength \in Nat /\ DOMAIN v = 0 .. (TapeLength - 1)
  <2>1. First(p) \in Nat /\ SizeAt(p, c) \in Nat
    BY <1>3, <1>4, FrameSizes, BlockSizes
  <2>2. q \in Nat /\ First(p) <= q /\ q + SizeAt(p, g[n]) <= TapeLength
    BY <1>3, <1>4, ChainSettled
  <2> QED
    BY <1>4, <1>5, <2>1, <2>2, TapeAssumption DEF Tapes
<1>8. Stack' = StackOf(p, bs, u, n, s, g) /\ Globals' = GlobalsOf(p, u)
  <2>1. SettledOf(p, u, q, g[n]) = u
    BY <1>3, <1>5 DEF SettledOf, UserKinds
  <2> QED
    BY <1>1, <1>3, <1>4, <2>1, NextSeen
<1>9. LocalsAt(bs, Owner(p, c), u, q) = LocalsAt(bs, Owner(p, c), t, q)
  <2>1. ASSUME NEW d \in (q + 1) .. (q + SizeAt(p, c) - 1) PROVE u[d] = t[d]
    <3>1. d \in 0 .. (TapeLength - 1) /\ d # q
      BY <1>7
    <3> QED
      BY <1>3, <1>7, <3>1
  <2> QED
    BY <1>3, <1>4, <1>7, <2>1, LocalsKept
<1>10. GlobalsOf(p, u) = GlobalsOf(p, t)
  <2>1. ASSUME NEW d \in 1 .. (First(p) - 1) PROVE u[d] = t[d]
    <3>1. d \in 0 .. (TapeLength - 1) /\ d # q
      BY <1>7
    <3> QED
      BY <1>3, <1>7, <3>1
  <2> QED
    BY <1>4, <2>1, GlobalsKept
<1>11. FrameOf(p, bs, u, s[n], g[n], TRUE) =
         [function |-> Function.name, block |-> c.name[2], into |-> Nowhere,
          locals |-> LocalsAt(bs, Function, t, q)]
  <2>1. c.kind # "meta"
    BY <1>3 DEF UserKinds
  <2> QED
    BY <1>5, <1>6, <1>9, <2>1 DEF FrameOf
<1>12. BelowOf(p, bs, u, n, s, g) = BelowOf(p, bs, v, n, s, h)
  <2>1. ASSUME NEW d \in First(p) .. (q - 1) PROVE u[d] = v[d]
    <3>1. d \in 0 .. (TapeLength - 1) /\ d # q /\ d \in First(p) .. q
      BY <1>7
    <3> QED
      BY <1>3, <1>4, <1>7, <3>1
  <2>2. Shaped(p, q, n, s, h) /\ Waiting(p, bs, v, n, s, h)
    BY <1>4 DEF Chain
  <2>3. IsTable(p, bs) /\ \A k \in 1 .. (n - 1) : g[k] = h[k]
    BY <1>4, <1>5
  <2>4. BelowOf(p, bs, u, n, s, g) = BelowOf(p, bs, u, n, s, h)
    BY <2>3 DEF BelowOf
  <2> QED
    BY <2>1, <2>2, <2>3, <2>4, BelowKept
<1>13. StackOf(p, bs, u, n, s, g) = Append(BelowOf(p, bs, u, n, s, g), FrameOf(p, bs, u, s[n], g[n], TRUE))
  BY <1>5, StackSplit
<1> QED
  BY <1>1, <1>8, <1>10, <1>11, <1>12, <1>13

----------------------------------------------------------------------------
(* The steps. *)

\* To go on in a frame is to go on in the activation.
LEMMA ContinueMeant ==
  ASSUME Room, NEW n, NEW s, NEW h, RunsUser(n, s, h), NEW input \in Inputs, NEW label,
         NEW c \in Users(program), c.name = Label(label), GoesOn(n, s, h, Computed(input), tape', c),
         tape' \in Tapes, ptr' = ptr, program' = program, blocks' = blocks
  PROVE  Author!Continue(label, input)
<1>1. PICK t : t = Computed(input)
  OBVIOUS
<1>2. Kept(t) /\ Runs(n, s, h) /\ tape[ptr].high # 0 /\ GoesOn(n, s, h, t, tape', c)
  BY <1>1, ComputedMeant DEF RunsUser
<1>3. /\ Stack' = Append(BelowOf(program, blocks, tape, n, s, h),
                         [function |-> Function.name, block |-> c.name[2], into |-> Nowhere,
                          locals |-> LocalsAt(blocks, Function, t, ptr)])
      /\ Globals' = GlobalsOf(program, t)
  BY <1>2, GoesOnMeant
<1>4. c.name[2] = label
  BY DEF Label
<1>5. /\ LocalsAt(blocks, Function, t, ptr) = Author!Locals(input)
      /\ GlobalsOf(program, t) = Author!Globals(input)
  BY <1>1, ComputedMeant
<1>6. /\ Author!Below = BelowOf(program, blocks, tape, n, s, h)
      /\ Author!Top.function = Function.name
  BY AuthorSees
<1> QED
  BY <1>3, <1>4, <1>5, <1>6 DEF Author!Continue, Author!Frame, Author!Nowhere, Nowhere

\* A jump.
LEMMA JumpMeant ==
  ASSUME Room, NEW n, NEW s, NEW h, Runs(n, s, h), NEW input \in Inputs, Jump(input)
  PROVE  Author!Jump(input)
<1>1. /\ tape[ptr].high # 0 /\ Running.kind = "jump"
      /\ program' = program /\ blocks' = blocks
  BY DEF Jump, Dispatched
<1>2. RunsUser(n, s, h) /\ Running = h[n]
  BY <1>1, RunningBlock DEF RunsUser, UserKinds
<1>3. ptr' = ptr /\ tape' \in Tapes
  BY JumpChain
<1>4. PICK c \in Users(program) :
        c.name = Label(h[n].exit.next) /\ GoesOn(n, s, h, Computed(input), tape', c)
  BY JumpChain
<1>5. PICK label : label = h[n].exit.next
  OBVIOUS
<1>6. Author!Continue(label, input)
  BY <1>1, <1>2, <1>3, <1>4, <1>5, ContinueMeant
<1>7. Author!Running.exit = h[n].exit /\ h[n].exit.kind = "jump"
  BY <1>1, <1>2, AuthorSees
<1> QED
  BY <1>5, <1>6, <1>7 DEF Author!Jump

\* The value that a block ends with is the author's.
LEMMA EndMeant ==
  ASSUME Room, NEW n, NEW s, NEW h, RunsUser(n, s, h), NEW input \in Inputs,
         NEW o, IsValue(program, Function, o, Words)
  PROVE  Author!AtEnd(o, input) = Fields(Computed(input), o, input).low
<1>1. PICK t : t = Computed(input)
  OBVIOUS
<1>2. /\ LocalsAt(blocks, Function, t, ptr) = Author!Locals(input)
      /\ GlobalsOf(program, t) = Author!Globals(input)
  BY <1>1, ComputedMeant
<1>3. Author!Value(LocalsAt(blocks, Function, t, ptr), GlobalsOf(program, t), o, input) = Fields(t, o, input).low
  BY ValueMeant DEF RunsUser
<1> QED
  BY <1>1, <1>2, <1>3 DEF Author!AtEnd

\* A branch.
LEMMA BranchMeant ==
  ASSUME Room, NEW n, NEW s, NEW h, Runs(n, s, h), NEW input \in Inputs, Branch(input)
  PROVE  Author!Branch(input)
<1>1. /\ tape[ptr].high # 0 /\ Running.kind = "branch"
      /\ program' = program /\ blocks' = blocks
  BY DEF Branch, Dispatched
<1>2. RunsUser(n, s, h) /\ Running = h[n]
  BY <1>1, RunningBlock DEF RunsUser, UserKinds
<1>3. ptr' = ptr /\ tape' \in Tapes
  BY BranchChain
<1>4. PICK label : label = IF Fields(Computed(input), h[n].exit.on, input).low # 0
                           THEN h[n].exit.next ELSE h[n].exit.otherwise
  OBVIOUS
<1>5. PICK c \in Users(program) :
        c.name = Label(label) /\ GoesOn(n, s, h, Computed(input), tape', c)
  BY <1>4, BranchChain
<1>6. Author!Continue(label, input)
  BY <1>1, <1>2, <1>3, <1>5, ContinueMeant
<1>7. /\ Author!Running.exit = h[n].exit /\ h[n].exit.kind = "branch"
      /\ IsValue(program, Function, h[n].exit.on, Words)
  <2>1. IsExit(program, Function, h[n].exit, Words) /\ h[n].exit.kind = "branch"
    BY <1>1, <1>2, AuthorSees
  <2> QED
    BY <1>2, <2>1, AuthorSees DEF IsExit
<1>8. Author!AtEnd(h[n].exit.on, input) = Fields(Computed(input), h[n].exit.on, input).low
  BY <1>2, <1>7, EndMeant
<1> QED
  BY <1>4, <1>6, <1>7, <1>8 DEF Author!Branch

\* For the author, a call has returned when the callee did: that its metablock runs is
\* no step of the program.
LEMMA ResumeMeant ==
  ASSUME Room, NEW n, NEW s, NEW h, Runs(n, s, h), Resume
  PROVE  program' = program /\ Stack' = Stack /\ Globals' = Globals
<1>1. /\ tape[ptr].high # 0 /\ Running.kind = "meta"
      /\ program' = program /\ blocks' = blocks
  BY DEF Resume, Dispatched
<1>2. PICK t : t = Fetched
  OBVIOUS
<1>3. PICK b : b = h[n]
  OBVIOUS
<1>4. /\ Running = b /\ Function = Owner(program, b) /\ b \in Table(program) /\ b.kind = "meta"
      /\ n \in Nat \ {0} /\ IsTable(program, blocks) /\ tape \in Tapes
      /\ Chain(program, blocks, tape, ptr, n, s, h) /\ Function.name = b.function
  BY <1>1, <1>3, RunningBlock DEF Runs
<1>5. Kept(t)
  BY <1>1, <1>2, FetchedKept
<1>6. t = SettledOf(program, tape, ptr, b)
  BY <1>1, <1>2, <1>4 DEF SettledOf, Fetched, FetchedOf, Store, StoreOf, Address, AddressOf, SizeAt, Owner
<1>7. Stack = StackOf(program, blocks, t, n, s, h) /\ Globals = GlobalsOf(program, t)
  BY <1>1, <1>3, <1>4, <1>6, FramesSeen, MappingIsSeen
<1>8. ptr' = ptr /\ tape' \in Tapes
  BY ResumeChain
<1>9. PICK c \in Users(program) :
        c.name = Label(b.exit.next) /\ GoesOn(n, s, h, t, tape', c)
  BY <1>2, <1>3, ResumeChain
<1>10. /\ Stack' = Append(BelowOf(program, blocks, tape, n, s, h),
                          [function |-> Function.name, block |-> c.name[2], into |-> Nowhere,
                           locals |-> LocalsAt(blocks, Function, t, ptr)])
       /\ Globals' = GlobalsOf(program, t)
  BY <1>1, <1>5, <1>8, <1>9, GoesOnMeant
<1>11. BelowOf(program, blocks, t, n, s, h) = BelowOf(program, blocks, tape, n, s, h)
  <2>1. PICK u, q, p, bs : u = tape /\ q = ptr /\ p = program /\ bs = blocks
    OBVIOUS
  <2>2. IsTable(p, bs) /\ Shaped(p, q, n, s, h) /\ Waiting(p, bs, u, n, s, h)
    BY <1>4, <2>1 DEF Chain
  <2>3. q \in Nat /\ First(p) \in Nat
    BY <2>2, FramesInOrder, FrameSizes
  <2>4. \A d \in First(p) .. (q - 1) : t[d] = u[d]
    BY <1>5, <2>1, <2>3 DEF Kept
  <2>5. BelowOf(p, bs, t, n, s, h) = BelowOf(p, bs, u, n, s, h)
    BY <2>2, <2>4, BelowKept
  <2> QED
    BY <2>1, <2>5
<1>12. Stack = Append(BelowOf(program, blocks, t, n, s, h),
                      FrameOf(program, blocks, t, s[n], h[n], TRUE))
  BY <1>4, <1>7, StackSplit
<1>13. FrameOf(program, blocks, t, s[n], h[n], TRUE) =
         [function |-> Function.name, block |-> c.name[2], into |-> Nowhere,
          locals |-> LocalsAt(blocks, Function, t, ptr)]
  <2>1. c.name[2] = b.exit.next
    BY <1>9 DEF Label
  <2>2. s[n] = ptr
    BY <1>4 DEF Chain, Shaped
  <2> QED
    BY <1>3, <1>4, <2>1, <2>2 DEF FrameOf
<1> QED
  BY <1>1, <1>7, <1>10, <1>11, <1>12, <1>13

\* When the run flag is cleared, there are no activations any more.
LEMMA EndSeen ==
  ASSUME Room, NEW n, NEW s, NEW h, Runs(n, s, h), tape[ptr].high # 0, NEW t, Kept(t),
         tape' = [t EXCEPT ![ptr].high = 0], ptr' = ptr, tape' \in Tapes,
         Chain(program, blocks, tape', ptr, n, s, h), program' = program, blocks' = blocks
  PROVE  Stack' = <<>> /\ Globals' = GlobalsOf(program, t)
<1>1. PICK u, p, bs : u = tape' /\ p = program /\ bs = blocks
  OBVIOUS
<1>2. PICK q \in 0 .. (TapeLength - 1) : q = ptr /\ First(p) \in Nat /\ First(p) <= q
  <2>1. First(p) = program.globals + 2 /\ program.globals \in Nat
    BY <1>1, RunningBlock
  <2>2. ptr \in First(p) .. (TapeLength - 1) /\ TapeLength \in Nat
    BY <1>1, RunningBlock
  <2> QED
    BY <2>1, <2>2
<1>3. u = [t EXCEPT ![q].high = 0] /\ t \in Tapes /\ 0 \in Words
  BY <1>1, <1>2, ByteAssumption DEF Kept, Words
<1>4. u[q].high = 0 /\ \A d \in 0 .. (TapeLength - 1) : d # q => u[d] = t[d]
  <2>1. /\ t \in [0 .. (TapeLength - 1) -> [low : Words, high : Words, marker : 0 .. 1]]
        /\ t[q] \in [low : Words, high : Words, marker : 0 .. 1]
    BY <1>3 DEF Tapes
  <2> QED
    BY <1>3, <2>1
<1>5. IsTable(program, blocks) /\ Chain(program, blocks, tape', ptr', n, s, h) /\ tape'[ptr'].high = 0
  BY <1>1, <1>2, <1>4 DEF Runs
<1>6. Stack' = <<>> /\ Globals' = GlobalsOf(program, tape')
  BY <1>5, NextSeen
<1>7. GlobalsOf(p, u) = GlobalsOf(p, t)
  <2>1. ASSUME NEW d \in 1 .. (First(p) - 1) PROVE u[d] = t[d]
    <3>1. d \in 0 .. (TapeLength - 1) /\ d # q
      BY <1>2, TapeAssumption
    <3> QED
      BY <1>4, <3>1
  <2>2. IsTable(p, bs)
    BY <1>1, <1>5
  <2> QED
    BY <2>1, <2>2, GlobalsKept
<1> QED
  BY <1>1, <1>6, <1>7

\* An abort.
LEMMA AbortMeant ==
  ASSUME Room, NEW n, NEW s, NEW h, Runs(n, s, h), NEW input \in Inputs, Abort(input)
  PROVE  Author!Abort(input)
<1>1. /\ tape[ptr].high # 0 /\ Running.kind = "abort"
      /\ program' = program /\ blocks' = blocks
  BY DEF Abort, Dispatched
<1>2. RunsUser(n, s, h) /\ Running = h[n]
  BY <1>1, RunningBlock DEF RunsUser, UserKinds
<1>3. ptr' = ptr /\ tape' \in Tapes /\ Chain(program, blocks, tape', ptr, n, s, h)
  BY AbortChain
<1>4. PICK t : t = Computed(input)
  OBVIOUS
<1>5. Kept(t) /\ GlobalsOf(program, t) = Author!Globals(input)
  BY <1>2, <1>4, ComputedMeant
<1>6. tape' = [t EXCEPT ![ptr].high = 0]
  BY <1>4 DEF Abort
<1>7. Stack' = <<>> /\ Globals' = GlobalsOf(program, t)
  BY <1>1, <1>3, <1>5, <1>6, EndSeen
<1>8. Author!Running.exit = h[n].exit /\ h[n].exit.kind = "abort"
  BY <1>1, <1>2, AuthorSees
<1> QED
  BY <1>1, <1>5, <1>7, <1>8 DEF Author!Abort

\* The value that a return leaves in the frame is the author's.
LEMMA ReturnedMeant ==
  ASSUME Room, NEW n, NEW s, NEW h, RunsUser(n, s, h), Running.kind = "return", NEW input \in Inputs
  PROVE  /\ Kept(Returned(input)) /\ GlobalsOf(program, Returned(input)) = Author!Globals(input)
         /\ Function.returns => Returned(input)[ptr + 1].low = Author!AtEnd(h[n].exit.value, input)
<1>1. Runs(n, s, h) /\ tape[ptr].high # 0
  BY DEF RunsUser
<1>2. Kept(Returned(input))
  BY <1>1, ReturnedKept
<1>3. PICK t : t = Computed(input)
  OBVIOUS
<1>4. Kept(t) /\ GlobalsOf(program, t) = Author!Globals(input) /\ t \in Tapes
  BY <1>3, ComputedMeant DEF Kept
<1>5. CASE ~ Function.returns
  BY <1>2, <1>3, <1>4, <1>5 DEF Returned
<1>6. CASE Function.returns
  <2>1. PICK p, bs, f : p = program /\ bs = blocks /\ f = Function
    OBVIOUS
  <2>2. /\ Running = h[n] /\ f \in Range(p.functions) /\ IsTable(p, bs)
        /\ ptr \in First(p) .. (TapeLength - 1) /\ ptr + StackFrameSize(f) <= TapeLength
    BY <1>1, <2>1, RunningBlock DEF Runs
  <2>3. First(p) \in Nat /\ TapeLength \in Nat /\ StackFrameSize(f) \in Nat /\ StackFrameSize(f) >= 2
    BY <1>6, <2>1, <2>2, FrameSizes, TapeAssumption
  <2>4. PICK cell \in 0 .. (TapeLength - 1) : cell = ptr + 1 /\ cell > First(p)
    BY <2>2, <2>3
  <2>5. PICK o : o = h[n].exit.value
    OBVIOUS
  <2>6. IsValue(program, Function, o, Words)
    <3>1. IsExit(program, Function, h[n].exit, Words) /\ h[n].exit.kind = "return"
      BY <2>2, AuthorSees
    <3> QED
      BY <1>6, <2>5, <3>1 DEF IsExit
  <2>7. PICK v \in Words : v = Fields(t, o, input).low
    BY <1>1, <1>4, <2>6, ValueIsByte
  <2>8. Author!AtEnd(o, input) = v
    BY <1>3, <2>6, <2>7, EndMeant
  <2>9. PICK u : u = [t EXCEPT ![cell].low = v]
    OBVIOUS
  <2>10. Returned(input) = u
    BY <1>3, <1>6, <2>2, <2>4, <2>5, <2>7, <2>9 DEF Returned, ReturnValueStart
  <2>11. u[cell].low = v /\ \A d \in 0 .. (TapeLength - 1) : d # cell => u[d] = t[d]
    <3>1. /\ t \in [0 .. (TapeLength - 1) -> [low : Words, high : Words, marker : 0 .. 1]]
          /\ t[cell] \in [low : Words, high : Words, marker : 0 .. 1]
      BY <1>4 DEF Tapes
    <3> QED
      BY <2>9, <3>1
  <2>12. GlobalsOf(p, u) = GlobalsOf(p, t)
    <3>1. ASSUME NEW d \in 1 .. (First(p) - 1) PROVE u[d] = t[d]
      <4>1. d \in 0 .. (TapeLength - 1) /\ d # cell
        BY <2>3, <2>4
      <4> QED
        BY <2>11, <4>1
    <3> QED
      BY <2>2, <3>1, GlobalsKept
  <2> QED
    BY <1>2, <1>4, <2>1, <2>4, <2>5, <2>8, <2>10, <2>11, <2>12
<1> QED
  BY <1>5, <1>6

\* The frame before the last goes on, and takes the value of the one that was left: u is
\* the tape that the return leaves behind.
LEMMA CallerGoesOn ==
  ASSUME Room, NEW p, NEW bs, IsTable(p, bs), NEW t \in Tapes, NEW u \in Tapes, NEW q, NEW n, NEW s, NEW h,
         Chain(p, bs, t, q, n, s, h), n # 1, Chain(p, bs, u, s[n - 1], n - 1, Shortened(n, s), Shortened(n, h)),
         \A d \in First(p) .. (q - 1) : u[d] = t[d],
         NEW w, w = SettledOf(p, u, s[n - 1], h[n - 1])
  PROVE  LET b == h[n - 1]
             low == u[q + 1].low
             caller == BelowOf(p, bs, t, n, s, h)[n - 1]
         IN  /\ b.kind = "meta" /\ u[s[n - 1]].high # 0 /\ n - 1 \in Nat \ {0}
             /\ b.exit.into # Nowhere => Owner(p, h[n]).returns
             /\ caller.function = Owner(p, b).name /\ caller.block = b.exit.next /\ caller.into = b.exit.into
             /\ StackOf(p, bs, w, n - 1, Shortened(n, s), Shortened(n, h)) =
                  [BelowOf(p, bs, t, n, s, h) EXCEPT ![n - 1] =
                     [function |-> caller.function, block |-> caller.block, into |-> Nowhere,
                      locals |-> Author!LocalsWith(caller.locals, b.exit.into, low)]]
             /\ GlobalsOf(p, w) = Author!GlobalsWith(GlobalsOf(p, u), b.exit.into, low)
<1>1. PICK m : m = n - 1
  OBVIOUS
<1>2. PICK r, g : r = Shortened(n, s) /\ g = Shortened(n, h)
  OBVIOUS
<1>3. /\ n \in Nat \ {0} /\ m \in Nat \ {0} /\ m \in 1 .. n /\ m \in 1 .. m /\ m + 1 = n
      /\ s[n] = q /\ h \in [1 .. n -> Table(p)] /\ q \in Nat /\ First(p) \in Nat
  <2>1. n \in Nat \ {0} /\ s[n] = q /\ h \in [1 .. n -> Table(p)] /\ q \in Nat
    BY FramesInOrder DEF Chain, Shaped
  <2>2. First(p) \in Nat
    BY FrameSizes
  <2> QED
    BY <1>1, <2>1, <2>2
<1>4. r[m] = s[m] /\ g[m] = h[m] /\ \A k \in 1 .. m : r[k] = s[k] /\ g[k] = h[k]
  BY <1>1, <1>2, <1>3 DEF Shortened
<1>5. PICK b \in Table(p) : b = h[m]
  BY <1>3
<1>6. /\ b.kind = "meta" /\ Names(bs, t, s[m], b) /\ s[n] = s[m] + SizeAt(p, b)
      /\ b.exit.into # Nowhere => Owner(p, h[n]).returns
  <2>1. m \in 1 .. (n - 1)
    BY <1>1, <1>3
  <2> QED
    BY <1>3, <1>5, <2>1 DEF Chain, Waiting
<1>7. PICK base \in Nat : base = s[m] /\ base \in First(p) .. (q - 1)
  <2>1. s[m] \in First(p) .. q /\ SizeAt(p, b) \in Nat \ {0}
    BY <1>3, FramesInOrder, BlockSizes DEF Chain
  <2> QED
    BY <1>3, <1>6, <2>1
<1>8. u[base].high # 0
  <2>1. Ix(bs, b.function, b.name) \in Pairs
    BY IndexFinds
  <2>2. TargetOf(t, base) = Ix(bs, b.function, b.name) /\ u[base] = t[base]
    BY <1>6, <1>7 DEF Names
  <2>3. t[base].high = TargetOf(t, base).high
    BY DEF TargetOf
  <2> QED
    BY <2>1, <2>2, <2>3 DEF Pairs
<1>9. Chain(p, bs, u, base, m, r, g)
  BY <1>1, <1>2, <1>7
<1>10. w = SettledOf(p, u, base, g[m]) /\ w = FetchedOf(p, base, b, u)
  BY <1>1, <1>4, <1>5, <1>6, <1>7, <1>8 DEF SettledOf
<1>11. PICK into : into = b.exit.into
  OBVIOUS
<1>12. PICK low : low = u[q + 1].low
  OBVIOUS
<1>13. /\ First(p) <= base /\ base + SizeAt(p, b) <= TapeLength /\ IsPlace(p, Owner(p, b), b.exit.into)
       /\ b.exit.into # Nowhere => base + SizeAt(p, b) + 1 < TapeLength
       /\ \A d \in First(p) .. base : w[d] = u[d]
  <2>1. w = SettledOf(p, u, base, g[m])
    BY <1>10
  <2>2. g[m] = b
    BY <1>3, <1>4, <1>5
  <2>3. /\ First(p) <= base /\ base + SizeAt(p, g[m]) <= TapeLength
        /\ \A d \in First(p) .. base : w[d] = u[d]
    BY <1>9, <2>1, ChainSettled
  <2>4. g[m].kind = "meta" =>
          /\ IsPlace(p, Owner(p, g[m]), g[m].exit.into)
          /\ g[m].exit.into # Nowhere => base + SizeAt(p, g[m]) + 1 < TapeLength
    BY <1>9, <2>1, ChainSettled
  <2> QED
    BY <1>6, <2>2, <2>3, <2>4
<1>14. /\ LocalsAt(bs, Owner(p, b), w, base) = Author!LocalsWith(LocalsAt(bs, Owner(p, b), u, base), into, low)
       /\ GlobalsOf(p, w) = Author!GlobalsWith(GlobalsOf(p, u), into, low)
  <2>1. base + SizeAt(p, b) + 1 = q + 1
    BY <1>3, <1>6, <1>7
  <2> QED
    BY <1>10, <1>11, <1>12, <1>13, <2>1, FetchedSeen
<1>15. LocalsAt(bs, Owner(p, b), u, base) = LocalsAt(bs, Owner(p, b), t, base)
  <2>1. SizeAt(p, b) \in Nat /\ base + SizeAt(p, b) = q
    BY <1>3, <1>6, <1>7, BlockSizes
  <2>2. \A d \in (base + 1) .. (base + SizeAt(p, b) - 1) : u[d] = t[d]
    BY <1>3, <1>7, <2>1
  <2> QED
    BY <2>2, LocalsKept
<1>16. PICK below : below = BelowOf(p, bs, t, n, s, h)
  OBVIOUS
<1>17. PICK f : f = FrameOf(p, bs, w, r[m], g[m], TRUE)
  OBVIOUS
<1>18. BelowOf(p, bs, w, m, r, g) = BelowOf(p, bs, u, m, r, g)
  <2>1. Shaped(p, base, m, r, g) /\ Waiting(p, bs, u, m, r, g)
    BY <1>9 DEF Chain
  <2>2. \A d \in First(p) .. (base - 1) : w[d] = u[d]
    BY <1>3, <1>7, <1>13
  <2> QED
    BY <2>1, <2>2, BelowKept
<1>19. BelowOf(p, bs, u, n, s, h) = below
  BY <1>16, BelowKept DEF Chain
<1>20. below = [k \in 1 .. m |-> FrameOf(p, bs, t, s[k], h[k], FALSE)]
  BY <1>1, <1>16 DEF BelowOf
<1>21. ASSUME NEW k \in 1 .. (m - 1)
       PROVE  BelowOf(p, bs, w, m, r, g)[k] = below[k]
  <2>1. k \in 1 .. m /\ k \in 1 .. (n - 1)
    BY <1>1, <1>3
  <2>2. BelowOf(p, bs, u, m, r, g)[k] = FrameOf(p, bs, u, s[k], h[k], FALSE)
    BY <1>4, <2>1 DEF BelowOf
  <2>3. BelowOf(p, bs, u, n, s, h)[k] = FrameOf(p, bs, u, s[k], h[k], FALSE)
    BY <2>1 DEF BelowOf
  <2> QED
    BY <1>18, <1>19, <2>2, <2>3
<1>22. StackOf(p, bs, w, m, r, g) = [k \in 1 .. m |-> IF k = m THEN f ELSE below[k]]
  <2>1. StackOf(p, bs, w, m, r, g) = Append(BelowOf(p, bs, w, m, r, g), f)
    <3>1. m \in Nat \ {0}
      BY <1>3
    <3>2. StackOf(p, bs, w, m, r, g) = Append(BelowOf(p, bs, w, m, r, g), FrameOf(p, bs, w, r[m], g[m], TRUE))
      BY <3>1, StackSplit
    <3> QED
      BY <1>17, <3>2
  <2>2. PICK e : e = BelowOf(p, bs, w, m, r, g)
    OBVIOUS
  <2>3. e = [k \in 1 .. (m - 1) |-> e[k]]
    BY <2>2 DEF BelowOf
  <2>4. Append([k \in 1 .. (m - 1) |-> e[k]], f) = [k \in 1 .. m |-> IF k = m THEN f ELSE e[k]]
    BY <1>3, LastSplit
  <2>5. \A k \in 1 .. m : k # m => k \in 1 .. (m - 1)
    BY <1>3
  <2>6. \A k \in 1 .. m : k # m => e[k] = below[k]
    BY <1>21, <2>2, <2>5
  <2>7. [k \in 1 .. m |-> IF k = m THEN f ELSE e[k]] = [k \in 1 .. m |-> IF k = m THEN f ELSE below[k]]
    BY <2>6
  <2> QED
    BY <2>1, <2>2, <2>3, <2>4, <2>7
<1>23. /\ below[m].function = Owner(p, b).name /\ below[m].block = b.exit.next /\ below[m].into = into
       /\ below[m].locals = LocalsAt(bs, Owner(p, b), t, base)
  BY <1>3, <1>5, <1>6, <1>7, <1>11, <1>20 DEF FrameOf
<1>24. f = [function |-> below[m].function, block |-> below[m].block, into |-> Nowhere,
            locals |-> Author!LocalsWith(below[m].locals, into, low)]
  BY <1>4, <1>5, <1>6, <1>7, <1>14, <1>15, <1>17, <1>23 DEF FrameOf
<1>25. [below EXCEPT ![m] = f] = [k \in 1 .. m |-> IF k = m THEN f ELSE below[k]]
  BY <1>3, <1>20
<1> QED
  BY <1>1, <1>2, <1>3, <1>5, <1>6, <1>7, <1>8, <1>11, <1>12, <1>14, <1>16, <1>22, <1>23, <1>24, <1>25

\* The entry function is only in the first frame: nothing calls it.
EntryNotCalled == \A p \in Programs : ~ IsCallable(p, p.entry)

\* A return.
LEMMA ReturnMeant ==
  ASSUME Room, EntryNotCalled, program \in Programs,
         NEW n, NEW s, NEW h, Runs(n, s, h), NEW input \in Inputs, Return(input)
  PROVE  Author!Return(input)
<1>1. /\ tape[ptr].high # 0 /\ Running.kind = "return"
      /\ program' = program /\ blocks' = blocks
  BY DEF Return, Dispatched
<1>2. RunsUser(n, s, h) /\ Running = h[n] /\ n \in Nat \ {0} /\ Function = Owner(program, h[n])
      /\ Function.name = h[n].function
  BY <1>1, RunningBlock DEF RunsUser, UserKinds
<1>3. PICK t : t = Returned(input)
  OBVIOUS
<1>4. /\ Kept(t) /\ GlobalsOf(program, t) = Author!Globals(input)
      /\ Function.returns => t[ptr + 1].low = Author!AtEnd(h[n].exit.value, input)
  BY <1>1, <1>2, <1>3, ReturnedMeant
<1>5. /\ Author!Running.exit = h[n].exit /\ h[n].exit.kind = "return"
      /\ Author!Below = BelowOf(program, blocks, tape, n, s, h)
      /\ Len(Author!Below) = n - 1 /\ (Author!Below = <<>> <=> n = 1)
  BY <1>1, <1>2, AuthorSees
<1>6. CASE Function.name = program.entry
  <2>1. n = 1
    <3>1. ASSUME n # 1 PROVE FALSE
      <4>1. n \in 2 .. n
        BY <1>2, <3>1
      <4>2. IsCallable(program, h[n].function)
        BY <4>1 DEF Runs, Chain, Called
      <4> QED
        BY <1>2, <1>6, <4>2 DEF EntryNotCalled
    <3> QED
      BY <3>1
  <2>2. /\ ptr' = ptr /\ tape' \in Tapes /\ Chain(program, blocks, tape', ptr, n, s, h)
        /\ tape' = [t EXCEPT ![ptr].high = 0]
    BY <1>3, <1>6, ReturnChain
  <2>3. Stack' = <<>> /\ Globals' = GlobalsOf(program, t)
    BY <1>1, <1>4, <2>2, EndSeen
  <2> QED
    BY <1>1, <1>4, <1>5, <2>1, <2>3 DEF Author!Return
<1>7. CASE Function.name # program.entry
  <2>1. /\ n # 1 /\ ptr' = s[n - 1] /\ tape' = [t EXCEPT ![ptr].marker = 0] /\ tape' \in Tapes
        /\ Chain(program, blocks, tape', s[n - 1], n - 1, Shortened(n, s), Shortened(n, h))
    BY <1>3, <1>7, ReturnChain
  <2>2. PICK u, v, p, bs : u = tape' /\ v = tape /\ p = program /\ bs = blocks
    OBVIOUS
  <2>3. PICK q \in 0 .. (TapeLength - 1) : q = ptr /\ First(p) \in Nat /\ First(p) <= q
    <3>1. First(p) = program.globals + 2 /\ program.globals \in Nat
      BY <1>1, <2>2, RunningBlock
    <3>2. ptr \in First(p) .. (TapeLength - 1) /\ TapeLength \in Nat
      BY <1>1, <2>2, RunningBlock
    <3> QED
      BY <3>1, <3>2
  <2>4. \A d \in 0 .. (TapeLength - 1) : u[d].low = t[d].low /\ (d # q => u[d] = t[d])
    <3>1. u = [t EXCEPT ![q].marker = 0] /\ t \in Tapes
      BY <1>4, <2>1, <2>2, <2>3 DEF Kept
    <3>2. /\ t \in [0 .. (TapeLength - 1) -> [low : Words, high : Words, marker : 0 .. 1]]
          /\ t[q] \in [low : Words, high : Words, marker : 0 .. 1]
      BY <3>1 DEF Tapes
    <3> QED
      BY <3>1, <3>2
  <2>5. /\ IsTable(p, bs) /\ v \in Tapes /\ u \in Tapes /\ Chain(p, bs, v, q, n, s, h)
        /\ Chain(p, bs, u, s[n - 1], n - 1, Shortened(n, s), Shortened(n, h))
    BY <2>1, <2>2, <2>3 DEF Runs
  <2>6. \A d \in First(p) .. (q - 1) : u[d] = v[d]
    <3>1. \A d \in First(p) .. q : t[d] = v[d]
      BY <1>4, <2>2, <2>3 DEF Kept
    <3>2. \A d \in First(p) .. (q - 1) : d \in 0 .. (TapeLength - 1) /\ d # q /\ d \in First(p) .. q
      BY <2>3, TapeAssumption
    <3> QED
      BY <2>4, <3>1, <3>2
  <2>7. PICK b, low, caller : b = h[n - 1] /\ low = u[q + 1].low /\ caller = BelowOf(p, bs, v, n, s, h)[n - 1]
    OBVIOUS
  <2>8. PICK w : w = SettledOf(p, u, s[n - 1], h[n - 1])
    OBVIOUS
  <2>9. /\ b.kind = "meta" /\ u[s[n - 1]].high # 0 /\ n - 1 \in Nat \ {0}
        /\ b.exit.into # Nowhere => Owner(p, h[n]).returns
        /\ caller.into = b.exit.into
        /\ StackOf(p, bs, w, n - 1, Shortened(n, s), Shortened(n, h)) =
             [BelowOf(p, bs, v, n, s, h) EXCEPT ![n - 1] =
                [function |-> caller.function, block |-> caller.block, into |-> Nowhere,
                 locals |-> Author!LocalsWith(caller.locals, b.exit.into, low)]]
        /\ GlobalsOf(p, w) = Author!GlobalsWith(GlobalsOf(p, u), b.exit.into, low)
    BY <2>1, <2>5, <2>6, <2>7, <2>8, CallerGoesOn
  <2>11. /\ Stack' = StackOf(p, bs, w, n - 1, Shortened(n, s), Shortened(n, h))
         /\ Globals' = GlobalsOf(p, w)
    <3>1. PICK m, r, g : m = n - 1 /\ r = Shortened(n, s) /\ g = Shortened(n, h)
      OBVIOUS
    <3>2. g[m] = h[n - 1]
      <4>1. n - 1 \in 1 .. (n - 1)
        BY <1>2, <2>9
      <4> QED
        BY <3>1, <4>1 DEF Shortened
    <3>3. Chain(program, blocks, tape', ptr', m, r, g) /\ tape'[ptr'].high # 0
      BY <2>1, <2>2, <2>9, <3>1
    <3>4. IsTable(program, blocks) /\ tape' \in Tapes
      BY <2>1, <2>2, <2>5
    <3>5. /\ Stack' = StackOf(program, blocks, SettledOf(program, tape', ptr', g[m]), m, r, g)
          /\ Globals' = GlobalsOf(program, SettledOf(program, tape', ptr', g[m]))
      BY <1>1, <3>3, <3>4, NextSeen
    <3> QED
      BY <2>1, <2>2, <2>8, <3>1, <3>2, <3>5
  <2>12. GlobalsOf(p, u) = GlobalsOf(p, t)
    <3>1. ASSUME NEW d \in 1 .. (First(p) - 1) PROVE u[d] = t[d]
      <4>1. d \in 0 .. (TapeLength - 1) /\ d # q
        BY <2>3, TapeAssumption
      <4> QED
        BY <2>4, <4>1
    <3> QED
      BY <2>5, <3>1, GlobalsKept
  <2>13. PICK value : value = Author!AtEnd(h[n].exit.value, input)
    OBVIOUS
  <2>14. caller.into # Nowhere => low = value
    <3>1. ASSUME caller.into # Nowhere PROVE low = value
      <4>1. Function.returns
        BY <1>2, <2>2, <2>9, <3>1
      <4>2. t[q + 1].low = value
        BY <1>4, <2>3, <2>13, <4>1
      <4>3. q + 1 \in 0 .. (TapeLength - 1)
        <5>1. PICK f : f = Function
          OBVIOUS
        <5>2. f \in Range(p.functions) /\ q + StackFrameSize(f) <= TapeLength
          BY <1>1, <2>2, <2>3, <5>1, RunningBlock
        <5>3. StackFrameSize(f) \in Nat /\ StackFrameSize(f) >= 2
          BY <2>5, <4>1, <5>1, <5>2, FrameSizes
        <5> QED
          BY <2>3, <5>2, <5>3, TapeAssumption
      <4> QED
        BY <2>4, <2>7, <4>2, <4>3
    <3> QED
      BY <3>1
  <2>15. /\ Author!LocalsWith(caller.locals, b.exit.into, low) = Author!LocalsWith(caller.locals, caller.into, value)
         /\ Author!GlobalsWith(GlobalsOf(p, u), b.exit.into, low)
              = Author!GlobalsWith(Author!Globals(input), caller.into, value)
    <3>1. GlobalsOf(p, u) = Author!Globals(input)
      BY <1>4, <2>2, <2>12
    <3>2. CASE caller.into = Nowhere
      BY <2>9, <3>1, <3>2 DEF Author!LocalsWith, Author!GlobalsWith, Nowhere
    <3>3. CASE caller.into # Nowhere
      BY <2>9, <2>14, <3>1, <3>3
    <3> QED
      BY <3>2, <3>3
  <2>16. caller = Author!Below[Len(Author!Below)] /\ Author!Below # <<>> /\ Len(Author!Below) = n - 1
    BY <1>5, <2>1, <2>2, <2>3, <2>7
  <2>17. Author!Below = BelowOf(p, bs, v, n, s, h)
    BY <1>5, <2>2
  <2>18. Stack' = [Author!Below EXCEPT ![Len(Author!Below)] =
                     [function |-> caller.function, block |-> caller.block, into |-> Nowhere,
                      locals |-> Author!LocalsWith(caller.locals, caller.into, value)]]
    BY <2>9, <2>11, <2>15, <2>16, <2>17
  <2>19. Globals' = Author!GlobalsWith(Author!Globals(input), caller.into, value)
    BY <2>9, <2>11, <2>15
  <2> QED
    BY <1>1, <1>5, <2>13, <2>16, <2>18, <2>19 DEF Author!Return, Author!Frame, Author!Nowhere, Nowhere
<1> QED
  BY <1>6, <1>7

\* The frames below, the caller's and the callee's.
WithCall(below, x, y) == below \o <<x, y>>
Waiter(p, bs, t, base, b) == FrameOf(p, bs, t, base, b, FALSE)
Runner(p, bs, t, base, b) == FrameOf(p, bs, t, base, b, TRUE)

\* Two frames on top of those below: the caller's and the callee's.
LEMMA StackOfCall ==
  ASSUME NEW n \in Nat \ {0}, NEW p, NEW bs, NEW u, NEW s, NEW h, NEW k, NEW base, NEW e,
         \A j \in 1 .. (n - 1) : k[j] = h[j]
  PROVE  StackOf(p, bs, u, n + 1, Extended(n, s, base), Extended(n, k, e)) =
           WithCall(BelowOf(p, bs, u, n, s, h), Waiter(p, bs, u, s[n], k[n]), Runner(p, bs, u, base, e))
<1>1. PICK below : below = BelowOf(p, bs, u, n, s, h)
  OBVIOUS
<1>2. PICK r, g : r = Extended(n, s, base) /\ g = Extended(n, k, e)
  OBVIOUS
<1>3. /\ r[n] = s[n] /\ g[n] = k[n] /\ r[n + 1] = base /\ g[n + 1] = e
      /\ \A j \in 1 .. (n - 1) : r[j] = s[j] /\ g[j] = h[j]
  <2>1. n \in 1 .. (n + 1) /\ n + 1 \in 1 .. (n + 1) /\ n # n + 1
    OBVIOUS
  <2>2. \A j \in 1 .. (n - 1) : j \in 1 .. (n + 1) /\ j # n + 1 /\ j # n
    OBVIOUS
  <2> QED
    BY <1>2, <2>1, <2>2 DEF Extended
<1>4. PICK x, y : x = FrameOf(p, bs, u, s[n], k[n], FALSE) /\ y = FrameOf(p, bs, u, base, e, TRUE)
  OBVIOUS
<1>5. ASSUME NEW j \in 1 .. (n + 1)
      PROVE  FrameOf(p, bs, u, r[j], g[j], j = n + 1) =
               IF j = n THEN x ELSE IF j = n + 1 THEN y ELSE below[j]
  <2>1. CASE j = n
    BY <1>3, <1>4, <2>1 DEF FrameOf
  <2>2. CASE j = n + 1
    BY <1>3, <1>4, <2>2 DEF FrameOf
  <2>3. CASE j # n /\ j # n + 1
    <3>1. j \in 1 .. (n - 1) /\ j # n + 1
      BY <2>3
    <3>2. below[j] = FrameOf(p, bs, u, s[j], h[j], FALSE)
      BY <1>1, <3>1 DEF BelowOf
    <3> QED
      BY <1>3, <2>3, <3>1, <3>2 DEF FrameOf
  <2> QED
    BY <2>1, <2>2, <2>3
<1>6. StackOf(p, bs, u, n + 1, r, g) =
        [j \in 1 .. (n + 1) |-> IF j = n THEN x ELSE IF j = n + 1 THEN y ELSE below[j]]
  BY <1>5 DEF StackOf
<1>7. below = [j \in 1 .. (n - 1) |-> below[j]]
  BY <1>1 DEF BelowOf
<1>8. [j \in 1 .. (n - 1) |-> below[j]] \o <<x, y>> =
        [j \in 1 .. (n + 1) |-> IF j = n THEN x ELSE IF j = n + 1 THEN y ELSE below[j]]
  BY LastSplit
<1>9. StackOf(p, bs, u, n + 1, r, g) = WithCall(below, x, y)
  BY <1>6, <1>7, <1>8 DEF WithCall
<1> QED
  BY <1>1, <1>2, <1>4, <1>9 DEF Waiter, Runner

\* The tape that a call is made from: only the caller's TargetBlock has changed.
LEMMA CallerMeant ==
  ASSUME Room, NEW n, NEW s, NEW h, RunsUser(n, s, h), NEW input \in Inputs,
         NEW t, \A d \in DOMAIN tape \ {ptr} : t[d] = Computed(input)[d]
  PROVE  /\ LocalsAt(blocks, Function, t, ptr) = Author!Locals(input)
         /\ GlobalsOf(program, t) = Author!Globals(input)
<1>1. PICK q, p, bs, v : q = ptr /\ p = program /\ bs = blocks /\ v = Computed(input)
  OBVIOUS
<1>2. PICK b \in Table(p) : b = h[n] /\ Owner(p, b) = Function
  BY <1>1, RunningBlock DEF RunsUser
<1>3. /\ q \in First(p) .. (TapeLength - 1) /\ TapeLength \in Nat /\ DOMAIN tape = 0 .. (TapeLength - 1)
      /\ IsTable(p, bs) /\ q + SizeAt(p, b) <= TapeLength
  BY <1>1, <1>2, RunningBlock DEF RunsUser, Runs, SizeAt
<1>4. First(p) \in Nat /\ SizeAt(p, b) \in Nat /\ q \in Nat
  <2>1. First(p) \in Nat
    <3>1. p.globals \in Nat /\ First(p) = p.globals + 2
      BY <1>3, FrameSizes
    <3> QED
      BY <3>1
  <2>2. SizeAt(p, b) \in Nat
    BY <1>3, BlockSizes
  <2> QED
    BY <1>3, <2>1, <2>2
<1>5. LocalsAt(bs, Owner(p, b), t, q) = LocalsAt(bs, Owner(p, b), v, q)
  <2>1. ASSUME NEW d \in (q + 1) .. (q + SizeAt(p, b) - 1) PROVE t[d] = v[d]
    <3>1. d \in 0 .. (TapeLength - 1) /\ d # q
      BY <1>3, <1>4
    <3> QED
      BY <1>1, <1>3, <3>1
  <2> QED
    BY <1>3, <1>4, <2>1, LocalsKept
<1>6. GlobalsOf(p, t) = GlobalsOf(p, v)
  <2>1. ASSUME NEW d \in 1 .. (First(p) - 1) PROVE t[d] = v[d]
    <3>1. d \in 0 .. (TapeLength - 1) /\ d # q
      BY <1>3, <1>4
    <3> QED
      BY <1>1, <1>3, <3>1
  <2> QED
    BY <1>3, <2>1, GlobalsKept
<1>7. /\ LocalsAt(blocks, Function, v, ptr) = Author!Locals(input)
      /\ GlobalsOf(program, v) = Author!Globals(input)
  BY <1>1, ComputedMeant
<1> QED
  BY <1>1, <1>2, <1>5, <1>6, <1>7

\* What is passed is what the author passes, to each parameter.
LEMMA PassedMeant ==
  ASSUME Room, NEW n, NEW s, NEW h, RunsUser(n, s, h), NEW input \in Inputs,
         NEW t \in Tapes, PointersKept(t), \A d \in DOMAIN tape \ {ptr} : t[d] = Computed(input)[d],
         h[n].kind = "call", NEW g \in Range(program.functions), NEW e, IsCallee(g, e, h[n], t, input),
         NEW cell \in Cells, NEW j \in 0 .. (g.params - 1)
  PROVE  WordOf(blocks, g, j, Passed(cell, t, h[n].exit.args[j + 1], input))
           = Author!AtEnd(h[n].exit.args[j + 1], input)
<1>1. PICK o : o = h[n].exit.args[j + 1]
  OBVIOUS
<1>2. j + 1 \in DOMAIN h[n].exit.args /\ (j + 1) - 1 = j
  <2>1. h[n].exit.args \in Seq(Range(h[n].exit.args)) /\ Len(h[n].exit.args) = g.params
    BY DEF IsCallee
  <2>2. g.params \in Nat
    BY FrameSizes DEF RunsUser, Runs
  <2> QED
    BY <2>1, <2>2
<1>3. /\ Runs(n, s, h) /\ tape[ptr].high # 0 /\ IsTable(program, blocks) /\ WellFormed(program, Words)
  BY DEF RunsUser, Runs, IsTable
<1>4. Author!AtEnd(o, input) =
        Author!Value(LocalsAt(blocks, Function, t, ptr), GlobalsOf(program, t), o, input)
  BY CallerMeant DEF Author!AtEnd
<1>5. CASE j \notin DOMAIN g.pointers
  <2>1. IsValue(program, Function, o, Words)
    BY <1>1, <1>2, <1>5 DEF IsCallee
  <2>2. Author!AtEnd(o, input) = Fields(t, o, input).low
    BY <1>3, <1>4, <2>1, ValueMeant
  <2>3. Passed(cell, t, o, input).low = Fields(t, o, input).low
    <3>1. /\ [cell EXCEPT !.low = Fields(t, o, input).low].low = Fields(t, o, input).low
          /\ [cell EXCEPT !.high = Fields(t, o, input).high, !.low = Fields(t, o, input).low].low = Fields(t, o, input).low
      BY DEF Cells
    <3> QED
      BY <3>1 DEF Passed
  <2> QED
    BY <1>1, <1>5, <2>2, <2>3 DEF WordOf
<1>6. CASE j \in DOMAIN g.pointers
  <2>1. IsAddress(program, Function, o, g.pointers[j])
    BY <1>1, <1>2, <1>6 DEF IsCallee
  <2>2. Author!AtEnd(o, input) = At(blocks, Fields(t, o, input)).function
    BY <1>3, <1>4, <2>1, AddressMeant
  <2>3. \A f \in Range(program.functions) : o = FunctionAddress(f.name) => IsCallable(program, f.name)
    <3>1. h[n] \in Users(program) /\ o \in Range(h[n].exit.args)
      BY <1>1, <1>2, AuthorSees DEF Range
    <3> QED
      BY <3>1, CallMentions
  <2>4. PICK f \in Range(program.functions) :
          /\ Passed(cell, t, o, input).high = EntryIx(blocks, f).high
          /\ Passed(cell, t, o, input).low = EntryIx(blocks, f).low
          /\ Fields(t, o, input) = EntryIx(blocks, f)
    BY <1>3, <2>1, <2>3, ArgumentPassed
  <2>5. PICK d \in Users(program) : d.function = f.name /\ d.name = Label(EntryOf(f))
    BY <1>3, LabelBlock
  <2>6. d \in Table(program)
    BY DEF Table
  <2>7. EntryIx(blocks, f) \in Pairs
    BY <1>3, <2>5, <2>6, IndexFinds DEF EntryIx
  <2>8. [high |-> Passed(cell, t, o, input).high, low |-> Passed(cell, t, o, input).low] = Fields(t, o, input)
    BY <2>4, <2>7 DEF Pairs
  <2> QED
    BY <1>1, <1>6, <2>2, <2>8 DEF WordOf, At
<1> QED
  BY <1>5, <1>6

\* A call.
LEMMA CallMeant ==
  ASSUME Room, NEW n, NEW s, NEW h, Runs(n, s, h), NEW input \in Inputs, Call(input)
  PROVE  Author!Call(input)
<1>1. /\ tape[ptr].high # 0 /\ Running.kind = "call"
      /\ program' = program /\ blocks' = blocks
  BY DEF Call, Dispatched
<1>2. /\ RunsUser(n, s, h) /\ Running = h[n] /\ n \in Nat \ {0} /\ n \in 1 .. n
      /\ Function = Owner(program, h[n]) /\ Function.name = h[n].function
      /\ Function \in Range(program.functions) /\ h[n] \in Table(program) /\ h[n].kind = "call"
  BY <1>1, RunningBlock DEF RunsUser, UserKinds
<1>3. PICK t : t = SetNextBlock(Computed(input), ReturnTo(h[n]))
  OBVIOUS
<1>4. PICK q, p, bs, v, u, f, exit :
        /\ q = ptr /\ p = program /\ bs = blocks /\ v = tape /\ u = tape' /\ f = Function
        /\ exit = h[n].exit
  OBVIOUS
<1>5. PICK base : base = q + StackFrameSize(f)
  OBVIOUS
<1>6. /\ u \in Tapes /\ ptr' = base /\ t \in Tapes /\ PointersKept(t)
      /\ \A d \in DOMAIN tape \ {ptr} : t[d] = Computed(input)[d]
  BY <1>3, <1>4, <1>5, CallChain
<1>7. PICK g \in Range(program.functions) : \E e \in Users(program) :
        CallMade(n, s, h, t, base, u, g, e, input)
  BY <1>3, <1>4, <1>5, CallChain
<1>8. PICK e \in Users(program) : CallMade(n, s, h, t, base, u, g, e, input)
  BY <1>7
<1>9. PICK m, k : m = MetaBlock(h[n]) /\ k = [h EXCEPT ![n] = m]
  OBVIOUS
<1>10. /\ IsCallee(g, e, h[n], t, input) /\ base + StackFrameSize(g) <= TapeLength /\ u[base].high # 0
       /\ Chain(p, bs, u, base, n + 1, Extended(n, s, base), Extended(n, k, e))
       /\ \A c \in 0 .. (base - 1) : u[c] = t[c]
       /\ \A j \in DOMAIN exit.args :
            u[base + LocalBase(g) + (j - 1)] = Passed(t[base + LocalBase(g) + (j - 1)], t, exit.args[j], input)
  BY <1>4, <1>8, <1>9 DEF CallMade
<1>11. /\ IsTable(p, bs) /\ v \in Tapes /\ Chain(p, bs, v, q, n, s, h) /\ WellFormed(p, Words)
       /\ s[n] = q /\ h \in [1 .. n -> Table(p)]
  BY <1>2, <1>4 DEF RunsUser, Runs, Chain, Shaped, IsTable
<1>12. /\ First(p) \in Nat /\ q \in First(p) .. (TapeLength - 1) /\ q \in Nat /\ TapeLength \in Nat
       /\ DOMAIN v = 0 .. (TapeLength - 1) /\ StackFrameSize(f) \in Nat \ {0} /\ base \in Nat /\ q < base
       /\ base < TapeLength /\ f \in Range(p.functions)
  <2>1. q \in First(p) .. (TapeLength - 1) /\ TapeLength \in Nat /\ DOMAIN v = 0 .. (TapeLength - 1)
    BY <1>1, <1>4, RunningBlock DEF RunsUser
  <2>2. /\ First(p) \in Nat /\ f \in Range(p.functions) /\ StackFrameSize(f) \in Nat \ {0}
        /\ StackFrameSize(g) \in Nat \ {0}
    BY <1>2, <1>4, <1>11, FrameSizes
  <2> QED
    BY <1>5, <1>10, <2>1, <2>2
<1>13. /\ Author!Running.exit = exit /\ exit.kind = "call" /\ h[n] \in Users(program)
       /\ Author!Below = BelowOf(p, bs, v, n, s, h) /\ Author!Top.function = f.name
       /\ IsExit(program, Function, exit, Words)
  BY <1>2, <1>4, AuthorSees
<1>14. /\ LocalsAt(bs, f, t, q) = Author!Locals(input)
       /\ GlobalsOf(p, t) = Author!Globals(input)
  BY <1>2, <1>4, <1>6, CallerMeant
\* The callee.
<1>15. FunctionOf(program, Author!AtEnd(exit.callee, input)) = g
  <2>1. PICK type : IsAddress(program, Function, exit.callee, type)
    BY <1>13 DEF IsExit, Suits
  <2>2. Author!AtEnd(exit.callee, input)
          = Author!Value(LocalsAt(blocks, Function, t, ptr), GlobalsOf(program, t), exit.callee, input)
    BY <1>4, <1>14 DEF Author!AtEnd
  <2>3. Author!Value(LocalsAt(blocks, Function, t, ptr), GlobalsOf(program, t), exit.callee, input)
          = At(blocks, Fields(t, exit.callee, input)).function
    BY <1>1, <1>6, <2>1, AddressMeant
  <2>4. At(blocks, Fields(t, exit.callee, input)).function = g.name
    BY <1>4, <1>10 DEF IsCallee
  <2> QED
    BY <1>4, <1>11, <2>2, <2>3, <2>4, NamesDetermine
\* The state that the call leads to.
<1>16. /\ Stack' = StackOf(p, bs, u, n + 1, Extended(n, s, base), Extended(n, k, e))
       /\ Globals' = GlobalsOf(p, u)
  <2>1. PICK r, w, c : r = Extended(n, s, base) /\ w = Extended(n, k, e) /\ c = n + 1
    OBVIOUS
  <2>2. w[c] = e /\ e.kind # "meta"
    <3>1. n + 1 \in 1 .. (n + 1)
      BY <1>2
    <3>2. e.kind # "meta"
      BY <1>10 DEF IsCallee, UserKinds
    <3> QED
      BY <2>1, <3>1, <3>2 DEF Extended
  <2>3. Chain(program, blocks, tape', ptr', c, r, w) /\ tape'[ptr'].high # 0 /\ tape' \in Tapes
        /\ IsTable(program, blocks)
    BY <1>4, <1>6, <1>10, <1>11, <2>1
  <2>4. SettledOf(program, tape', ptr', w[c]) = tape'
    BY <2>2 DEF SettledOf
  <2>5. Stack' = StackOf(program, blocks, tape', c, r, w) /\ Globals' = GlobalsOf(program, tape')
    BY <1>1, <2>3, <2>4, NextSeen
  <2> QED
    BY <1>4, <2>1, <2>5
<1>17. BelowOf(p, bs, u, n, s, h) = BelowOf(p, bs, v, n, s, h)
  <2>1. PointersKept(t) /\ \A d \in First(p) .. (q - 1) : t[d] = v[d]
    <3>1. Kept(Computed(input))
      BY <1>2, ComputedMeant
    <3>2. ASSUME NEW d \in First(p) .. (q - 1) PROVE t[d] = v[d]
      <4>1. d \in First(p) .. q /\ d \in 0 .. (TapeLength - 1) /\ d # q
        BY <1>12
      <4>2. t[d] = Computed(input)[d]
        BY <1>4, <1>6, <1>12, <4>1
      <4>3. Computed(input)[d] = v[d]
        BY <1>4, <3>1, <4>1 DEF Kept
      <4> QED
        BY <4>2, <4>3
    <3> QED
      BY <1>6, <3>2
  <2>2. \A d \in First(p) .. (q - 1) : d \in 0 .. (base - 1)
    BY <1>12
  <2>3. \A d \in First(p) .. (q - 1) : u[d] = v[d]
    BY <1>10, <2>1, <2>2
  <2>4. Shaped(p, q, n, s, h) /\ Waiting(p, bs, v, n, s, h)
    BY <1>11 DEF Chain
  <2> QED
    BY <1>11, <2>3, <2>4, BelowKept
<1>18. k[n] = m /\ \A j \in 1 .. (n - 1) : k[j] = h[j]
  <2>1. \A j \in 1 .. (n - 1) : j \in 1 .. n /\ j # n
    BY <1>2
  <2> QED
    BY <1>2, <1>9, <1>11, <2>1
<1>19. Stack' = Author!Below \o <<FrameOf(p, bs, u, q, m, FALSE), FrameOf(p, bs, u, base, e, TRUE)>>
  <2>1. StackOf(p, bs, u, n + 1, Extended(n, s, base), Extended(n, k, e)) =
          WithCall(BelowOf(p, bs, u, n, s, h), FrameOf(p, bs, u, s[n], k[n], FALSE),
                   FrameOf(p, bs, u, base, e, TRUE))
    <3>1. n \in Nat \ {0}
      BY <1>2
    <3>2. \A j \in 1 .. (n - 1) : k[j] = h[j]
      BY <1>18
    <3>3. StackOf(p, bs, u, n + 1, Extended(n, s, base), Extended(n, k, e)) =
            WithCall(BelowOf(p, bs, u, n, s, h), Waiter(p, bs, u, s[n], k[n]), Runner(p, bs, u, base, e))
      BY <3>1, <3>2, StackOfCall
    <3> QED
      BY <3>3 DEF Waiter, Runner
  <2>2. WithCall(BelowOf(p, bs, u, n, s, h), FrameOf(p, bs, u, s[n], k[n], FALSE),
                 FrameOf(p, bs, u, base, e, TRUE)) =
          Author!Below \o <<FrameOf(p, bs, u, q, m, FALSE), FrameOf(p, bs, u, base, e, TRUE)>>
    BY <1>11, <1>13, <1>17, <1>18 DEF WithCall
  <2> QED
    BY <1>16, <2>1, <2>2
\* The caller's frame.
<1>20. FrameOf(p, bs, u, q, m, FALSE) =
         [function |-> f.name, block |-> exit.next, into |-> exit.into, locals |-> Author!Locals(input)]
  <2>1. m.kind = "meta" /\ m.exit = exit /\ m.function = h[n].function
    BY <1>4, <1>9, <1>13, BlocksMade
  <2>2. Owner(p, m) = f
    BY <1>2, <1>4, <2>1 DEF Owner
  <2>3. PICK b \in Table(p) : b = h[n]
    BY <1>2, <1>4
  <2>4. Owner(p, b) = f /\ SizeAt(p, b) = StackFrameSize(f)
    BY <1>2, <1>4, <2>3 DEF SizeAt
  <2>5. LocalsAt(bs, Owner(p, b), u, q) = LocalsAt(bs, Owner(p, b), t, q)
    <3>1. \A d \in (q + 1) .. (q + SizeAt(p, b) - 1) : d \in 0 .. (base - 1)
      BY <1>5, <1>12, <2>4
    <3>2. \A d \in (q + 1) .. (q + SizeAt(p, b) - 1) : u[d] = t[d]
      BY <1>10, <3>1
    <3> QED
      BY <1>11, <1>12, <3>2, LocalsKept
  <2> QED
    BY <1>14, <2>1, <2>2, <2>4, <2>5 DEF FrameOf
\* The callee's frame: the parameters hold the arguments, the other locals anything.
<1>21. PICK locals : locals = LocalsAt(bs, g, u, base)
  OBVIOUS
<1>22. FrameOf(p, bs, u, base, e, TRUE) =
         [function |-> g.name, block |-> EntryOf(g), into |-> Nowhere, locals |-> locals]
  <2>1. e.kind # "meta" /\ Owner(p, e) = g /\ e.name[2] = EntryOf(g)
    BY <1>4, <1>10 DEF IsCallee, UserKinds, Owner, Label
  <2> QED
    BY <1>21, <2>1 DEF FrameOf
<1>23. /\ g.locals \in Nat /\ g.params \in 0 .. g.locals /\ LocalBase(g) \in Nat
       /\ StackFrameSize(g) = LocalBase(g) + g.locals /\ DOMAIN g.pointers \subseteq 0 .. (g.params - 1)
  <2>1. /\ g.locals \in Nat /\ g.params \in 0 .. g.locals
        /\ LocalBase(g) \in Nat /\ StackFrameSize(g) = LocalBase(g) + g.locals
    BY <1>4, <1>11, FrameSizes
  <2>2. DOMAIN g.pointers \subseteq 0 .. (g.params - 1)
    BY <1>4, <1>11 DEF WellFormed, IsFunction
  <2> QED
    BY <2>1, <2>2
<1>24. ASSUME NEW j \in 0 .. (g.params - 1) PROVE locals[j] = Author!AtEnd(exit.args[j + 1], input)
  <2>1. PICK cell : cell = base + LocalBase(g) + j
    OBVIOUS
  <2>2. j + 1 \in DOMAIN exit.args /\ (j + 1) - 1 = j
    <3>1. exit.args \in Seq(Range(exit.args)) /\ Len(exit.args) = g.params
      BY <1>4, <1>10 DEF IsCallee
    <3> QED
      BY <1>23, <3>1
  <2>3. u[cell] = Passed(t[cell], t, exit.args[j + 1], input)
    BY <1>10, <2>1, <2>2
  <2>4. cell \in 0 .. (TapeLength - 1)
    <3>1. base \in Nat /\ LocalBase(g) \in Nat /\ TapeLength \in Nat /\ g.locals \in Nat
      BY <1>12, <1>23
    <3>2. base + (LocalBase(g) + g.locals) <= TapeLength
      BY <1>10, <1>23
    <3>3. j \in Nat /\ j < g.locals
      BY <1>23
    <3> QED
      BY <2>1, <3>1, <3>2, <3>3
  <2>5. t[cell] \in Cells
    BY <1>6, <2>4 DEF Tapes, Cells
  <2>6. WordOf(blocks, g, j, Passed(t[cell], t, h[n].exit.args[j + 1], input))
          = Author!AtEnd(h[n].exit.args[j + 1], input)
    BY <1>2, <1>6, <1>10, <2>5, PassedMeant
  <2>7. j \in 0 .. (g.locals - 1)
    BY <1>23
  <2> QED
    BY <1>4, <1>21, <2>1, <2>3, <2>6, <2>7 DEF LocalsAt
<1>25. ASSUME NEW j \in g.params .. (g.locals - 1) PROVE locals[j] \in Words
  <2>1. PICK cell : cell = base + LocalBase(g) + j
    OBVIOUS
  <2>2. PICK x \in Nat, y \in Nat, z \in Nat : x = g.params /\ y = g.locals /\ z = LocalBase(g)
    BY <1>23
  <2>3. j \in 0 .. (g.locals - 1)
    BY <2>2
  <2>4. j \notin DOMAIN g.pointers
    <3>1. j \notin 0 .. (g.params - 1)
      BY <2>2
    <3> QED
      BY <1>23, <3>1
  <2>5. cell \in 0 .. (TapeLength - 1)
    <3>1. base + (z + y) <= TapeLength
      BY <1>10, <1>23, <2>2
    <3>2. j \in 0 .. (y - 1) /\ cell = base + z + j
      BY <2>1, <2>2, <2>3
    <3> QED
      BY <1>12, <3>1, <3>2
  <2>6. u[cell].low \in Words
    BY <1>6, <2>5 DEF Tapes
  <2> QED
    BY <1>21, <2>1, <2>3, <2>4, <2>6 DEF LocalsAt, WordOf
<1>26. PICK other \in [g.params .. (g.locals - 1) -> Words] :
         locals = [j \in 0 .. (g.locals - 1) |->
                     IF j < g.params THEN Author!AtEnd(exit.args[j + 1], input) ELSE other[j]]
  <2>1. PICK other : other = [j \in g.params .. (g.locals - 1) |-> locals[j]]
    OBVIOUS
  <2>2. other \in [g.params .. (g.locals - 1) -> Words]
    BY <1>25, <2>1
  <2>3. ASSUME NEW j \in 0 .. (g.locals - 1)
        PROVE  locals[j] = IF j < g.params THEN Author!AtEnd(exit.args[j + 1], input) ELSE other[j]
    <3>1. CASE j < g.params
      <4>1. j \in 0 .. (g.params - 1)
        BY <1>23, <3>1
      <4> QED
        BY <1>24, <3>1, <4>1
    <3>2. CASE ~ (j < g.params)
      <4>1. j \in g.params .. (g.locals - 1)
        BY <1>23, <3>2
      <4> QED
        BY <2>1, <3>2, <4>1
    <3> QED
      BY <3>1, <3>2
  <2>4. locals = [j \in 0 .. (g.locals - 1) |-> locals[j]]
    BY <1>21 DEF LocalsAt
  <2> QED
    BY <2>2, <2>3, <2>4
<1>27. Globals' = Author!Globals(input)
  <2>1. \A d \in 1 .. (First(p) - 1) : d \in 0 .. (base - 1)
    BY <1>12
  <2>2. \A d \in 1 .. (First(p) - 1) : u[d] = t[d]
    BY <1>10, <2>1
  <2>3. GlobalsOf(p, u) = GlobalsOf(p, t)
    BY <1>11, <2>2, GlobalsKept
  <2> QED
    BY <1>14, <1>16, <2>3
<1>28. Author!Running.exit.kind = "call" /\ Author!Running.exit = exit
  BY <1>13
<1>29. Author!FunctionOf(program, Author!AtEnd(exit.callee, input)) = g
  BY <1>15 DEF Author!FunctionOf, FunctionOf, Author!Range, Range
<1>30. Author!EntryOf(g) = EntryOf(g) /\ Author!Nowhere = Nowhere
  BY DEF Author!EntryOf, EntryOf, Author!Nowhere, Nowhere
<1> QED
  BY <1>1, <1>13, <1>19, <1>20, <1>22, <1>26, <1>27, <1>28, <1>29, <1>30
     DEF Author!Call, Author!Frame, Author!Word, Words

----------------------------------------------------------------------------
(* The theorem. *)

\* A program begins in the entry block of its entry function, its globals cleared.
LEMMA InitMeant ==
  ASSUME Room, Init
  PROVE  Author!Init
<1>1. /\ program \in Programs /\ tape[ptr].high # 0
      /\ \A k \in 0 .. (program.globals - 1) : tape[GlobalCell(k)].low = 0
  BY FirstChain
<1>2. PICK c \in Users(program) :
        /\ c.function = program.entry /\ c.kind \in UserKinds
        /\ c.name = Label(EntryOf(FunctionOf(program, program.entry)))
        /\ Runs(1, [k \in 1 .. 1 |-> ptr], [k \in 1 .. 1 |-> c])
  BY FirstChain
<1>3. PICK s, h : s = [k \in 1 .. 1 |-> ptr] /\ h = [k \in 1 .. 1 |-> c]
  OBVIOUS
<1>4. h[1] = c /\ s[1] = ptr /\ c.kind # "meta"
  BY <1>2, <1>3 DEF UserKinds
<1>5. Runs(1, s, h) /\ RunsUser(1, s, h)
  BY <1>1, <1>2, <1>3, <1>4 DEF RunsUser
<1>6. PICK f : f = Owner(program, c)
  OBVIOUS
<1>7. f = FunctionOf(program, program.entry) /\ c.name[2] = EntryOf(f)
  BY <1>2, <1>6 DEF Owner, Label
<1>8. Function = f /\ IsTable(program, blocks) /\ tape \in Tapes /\ c \in Table(program)
      /\ Chain(program, blocks, tape, ptr, 1, s, h)
  BY <1>1, <1>4, <1>5, <1>6, RunningBlock DEF Runs
<1>9. /\ Stack = StackOf(program, blocks, tape, 1, s, h)
      /\ Globals = GlobalsOf(program, tape)
  BY <1>5, AuthorSees
<1>10. PICK locals : locals = LocalsAt(blocks, f, tape, ptr)
  OBVIOUS
<1>11. PICK frame : frame = [function |-> f.name, block |-> EntryOf(f), into |-> Nowhere, locals |-> locals]
  OBVIOUS
<1>12. FrameOf(program, blocks, tape, ptr, c, TRUE) = frame
  BY <1>4, <1>6, <1>7, <1>10, <1>11 DEF FrameOf
<1>13. Stack = <<frame>>
  <2>1. \A k \in 1 .. 1 : FrameOf(program, blocks, tape, s[k], h[k], k = 1) = frame
    BY <1>4, <1>12 DEF FrameOf
  <2>2. StackOf(program, blocks, tape, 1, s, h) = [k \in 1 .. 1 |-> frame]
    BY <2>1 DEF StackOf
  <2> QED
    BY <1>9, <2>2
<1>14. locals \in [0 .. (f.locals - 1) -> Words]
  <2>1. DOMAIN f.pointers = {} /\ f \in Range(program.functions)
    <3>1. PICK g \in Range(program.functions) : g.name = program.entry /\ g.params = 0
      BY <1>8 DEF IsTable, WellFormed
    <3>2. f = g
      BY <1>7, <1>8, <3>1, NamesDetermine DEF IsTable
    <3>3. DOMAIN g.pointers \subseteq 0 .. (g.params - 1)
      BY <1>8 DEF IsTable, WellFormed, IsFunction
    <3> QED
      BY <3>1, <3>2, <3>3
  <2>2. ASSUME NEW k \in 0 .. (f.locals - 1) PROVE locals[k] \in Words
    <3>1. PICK cell : cell = ptr + LocalBase(f) + k
      OBVIOUS
    <3>2. PICK x \in Nat, y \in Nat : x = f.locals /\ y = LocalBase(f) /\ StackFrameSize(f) = y + x
      BY <1>8, <2>1, FrameSizes
    <3>3. /\ ptr \in First(program) .. (TapeLength - 1) /\ First(program) = program.globals + 2
          /\ program.globals \in Nat /\ TapeLength \in Nat /\ ptr + StackFrameSize(f) <= TapeLength
      BY <1>1, <1>5, <1>8, RunningBlock
    <3>4. PICK q \in Nat : q = ptr
      BY <3>3
    <3>5. cell \in 0 .. (TapeLength - 1)
      BY <3>1, <3>2, <3>3, <3>4
    <3>6. tape[cell].low \in Words
      BY <1>8, <3>5 DEF Tapes
    <3> QED
      BY <1>10, <2>1, <3>1, <3>6 DEF LocalsAt, WordOf
  <2>3. locals = [k \in 0 .. (f.locals - 1) |-> locals[k]]
    BY <1>10 DEF LocalsAt
  <2> QED
    BY <2>2, <2>3
<1>15. Globals = [k \in 0 .. (program.globals - 1) |-> 0]
  BY <1>1, <1>9 DEF GlobalsOf
<1>16. Author!FunctionOf(program, program.entry) = f /\ Author!EntryOf(f) = EntryOf(f) /\ Author!Nowhere = Nowhere
  BY <1>7 DEF Author!FunctionOf, FunctionOf, Author!Range, Range, Author!EntryOf, EntryOf, Author!Nowhere, Nowhere
<1> QED
  BY <1>1, <1>11, <1>13, <1>14, <1>15, <1>16 DEF Author!Init, Author!Frame, Author!Word, Words

\* A round of the main loop is a step of the author's, or none that the author sees.
LEMMA StepMeant ==
  ASSUME Room, EntryNotCalled, IInv, [Next]_vars
  PROVE  [Author!Next]_<<program, Stack, Globals>>
<1>1. PICK n, s, h : Runs(n, s, h)
  BY InvariantRuns
<1>2. ASSUME NEW input \in Inputs,
             Jump(input) \/ Branch(input) \/ Call(input) \/ Return(input) \/ Abort(input)
      PROVE  Author!Next
  <2>1. tape[ptr].high # 0 /\ Running.kind \in UserKinds
    BY <1>2 DEF Jump, Branch, Call, Return, Abort, Dispatched, UserKinds
  <2>2. RunsUser(n, s, h)
    BY <1>1, <2>1, RunningBlock DEF RunsUser
  <2>3. Stack # <<>>
    BY <2>2, AuthorSees
  <2>4. CASE Jump(input)
    BY <1>1, <2>3, <2>4, JumpMeant DEF Author!Next
  <2>5. CASE Branch(input)
    BY <1>1, <2>3, <2>5, BranchMeant DEF Author!Next
  <2>6. CASE Call(input)
    BY <1>1, <2>3, <2>6, CallMeant DEF Author!Next
  <2>7. CASE Return(input)
    <3>1. program \in Programs
      BY DEF IInv
    <3> QED
      BY <1>1, <2>3, <2>7, <3>1, ReturnMeant DEF Author!Next
  <2>8. CASE Abort(input)
    BY <1>1, <2>3, <2>8, AbortMeant DEF Author!Next
  <2> QED
    BY <1>2, <2>4, <2>5, <2>6, <2>7, <2>8
<1>3. CASE Resume
  BY <1>1, <1>3, ResumeMeant
<1>4. CASE UNCHANGED vars
  BY <1>4, MappingIsSeen DEF vars
<1> QED
  BY <1>2, <1>3, <1>4 DEF Next

\* The blocks that are dispatched on the tape do what the program means to its author,
\* whatever the program, its calls and its input: control comes back to where a call was
\* made, with the value, and each function has locals of its own.  The entry function
\* must not be one that is called again: its return would end the program.
THEOREM CallsImplemented ==
  ASSUME Room, EntryNotCalled
  PROVE  Spec => ImplementsCalls
<1>1. Init => Author!Init
  BY InitMeant
<1>2. IInv /\ [Next]_vars => [Author!Next]_<<program, Stack, Globals>>
  BY StepMeant
<1>3. Spec => []IInv
  BY AlwaysChained
<1> QED
  BY <1>1, <1>2, <1>3, PTL DEF Spec, ImplementsCalls, Author!Spec, Author!vars
=============================================================================
