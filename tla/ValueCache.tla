---------------------------- MODULE ValueCache -----------------------------
(***************************************************************************)
(* The value cache of the code generator (src/assembler/assembler_cache.cc)*)
(* and the proxies it serves (src/core/proxy_*.cc).                        *)
(*                                                                         *)
(* The generator keeps copies of globals, of array elements at run-time    *)
(* indices and of pointees in cache slots of the current frame.  Code is   *)
(* straight between two control boundaries, so the generator's bookkeeping *)
(* and the memory the emitted code works on advance together: the state    *)
(* holds both, and an operation of the generator is one step.              *)
(*                                                                         *)
(* The methods of the cache call one another and emit code as they go, so  *)
(* each is an operator from states to states.  An Entry* is the rank of    *)
(* the entry's creation.  Using an entry that was deleted or its slot, and *)
(* growing the vector of entries under an iteration over it, is undefined  *)
(* in the code; it clears the flag sound, and nothing is said beyond it.   *)
(* So does following an index or a pointer whose cell was moved from.      *)
(***************************************************************************)
EXTENDS Proxies, FiniteSets, SequencesExt

VARIABLES
  cache,   \* the cache, with the memory behind it
  seen     \* the value that the function read last

cacheVars == <<cache, seen>>

NoEntry == 0

----------------------------------------------------------------------------
(* The state of the generator: the entries, oldest first, and the memory.  *)

Empty(m) ==
  [mem |-> m, entries |-> <<>>, next |-> 1, marked |-> {},
   flushing |-> FALSE, aliasWriteMode |-> FALSE, sound |-> TRUE]

Ids(st) == {st.entries[k].id : k \in DOMAIN st.entries}
Position(st, id) == CHOOSE k \in DOMAIN st.entries : st.entries[k].id = id
EntryOf(st, id) == st.entries[Position(st, id)]
Proxies(st) == {st.entries[k].proxy : k \in DOMAIN st.entries}

\* findEntry
Find(st, p) ==
  IF p \in Proxies(st)
  THEN st.entries[CHOOSE k \in DOMAIN st.entries : st.entries[k].proxy = p].id
  ELSE NoEntry

Update(st, id, entry) == [st EXCEPT !.entries[Position(st, id)] = entry]

Parentless(st) == SelectSeq(st.entries, LAMBDA e : e.parent = NoEntry)
RanksOf(entries) == [k \in DOMAIN entries |-> entries[k].id]

\* The entries below id, children before their parents (forEntireSubtree).
RECURSIVE Below(_, _)
Below(st, id) ==
  FoldLeft(LAMBDA below, child : below \o Below(st, child.id) \o <<child.id>>,
           <<>>, SelectSeq(st.entries, LAMBDA e : e.parent = id))

SubtreeOf(st, id, includeRoot) == Below(st, id) \o (IF includeRoot THEN <<id>> ELSE <<>>)

\* The roots of the cached subtrees that make up the semantic subtree of p.
RootsWithin(st, p) ==
  RanksOf(SelectSeq(st.entries,
    LAMBDA e : /\ InSubtree(e.proxy, p)
               /\ e.parent # NoEntry => ~ InSubtree(EntryOf(st, e.parent).proxy, p)))

\* A place that emitted code reads or writes: a part of the memory or of an entry's
\* slot.  What it reads may also be a value computed on the spot.
InMemory(loc) == [where |-> "memory", loc |-> loc]
InEntry(id) == [where |-> "entry", id |-> id, loc |-> <<>>]
Computed(value) == [where |-> "computed", value |-> value]
Part(place, k) == [place EXCEPT !.loc = Append(@, k)]

Unsound(st) == [st EXCEPT !.sound = FALSE]
Lost(st, place) == place.where = "entry" /\ place.id \notin Ids(st)

Load(st, place) ==
  CASE place.where = "memory" -> At(st.mem, place.loc)
    [] place.where = "computed" -> place.value
    [] place.where = "entry" -> IF Lost(st, place) THEN Junk
                                ELSE At(EntryOf(st, place.id).value, place.loc)

\* assignSlot, and the kernel of a binary operation that updates its first operand.
AssignSlot(st, dest, src) ==
  CASE Lost(st, dest) \/ Lost(st, src) -> Unsound(st)
    [] dest.where = "memory" -> [st EXCEPT !.mem = Replaced(@, dest.loc, Load(st, src))]
    [] dest.where = "entry" ->
         [st EXCEPT !.entries[Position(st, dest.id)].value = Replaced(@, dest.loc, Load(st, src))]

AddToSlot(st, dest, src) == 
  IF Lost(st, src) THEN Unsound(st)
  ELSE AssignSlot(st, dest, Computed(Sum(Load(st, dest), Load(st, src))))

----------------------------------------------------------------------------
(* Reading and writing through a proxy.  The order in which the parts of a  *)
(* proxy are materialized is the code's.  A slot is a state together with a *)
(* place in it: what materializing a proxy results in.                      *)

RECURSIVE Materialize(_, _)
RECURSIVE FindOrCreate(_, _, _)

\* What is written: the value of a place, of a proxy that is materialized when its
\* turn comes, or the sum with it that a callback computes in the destination.
PlaceSource(place) == [from |-> "place", place |-> place]
ProxySource(p) == [from |-> "proxy", proxy |-> p]
Increase(source) == [from |-> "callback", by |-> source]
Operand(src) == IF src.from = "callback" THEN src.by ELSE src

\* The places of sources, determined one after the other.
Source(st, src) ==
  IF src.from = "place" THEN [st |-> st, place |-> src.place] ELSE Materialize(st, src.proxy)
And(slots, slot) == [st |-> slot.st, places |-> Append(slots.places, slot.place)]
Places(st, sources) ==
  FoldLeft(LAMBDA slots, src : And(slots, Source(slots.st, src)),
           [st |-> st, places |-> <<>>], sources)

\* The storage that p names, or names a part or a pointee of, and its run-time index.
Base(p) ==
  IF p.kind \in {"Direct", "GlobalReference"} THEN PlaceSource(InMemory(<<p.var>>))
  ELSE ProxySource(p.of)
RuntimeIndex(p) == IF p.kind = "ArrayElement" THEN <<ProxySource(p.by)>> ELSE <<>>

\* SlotProxy::materialize of an indirect proxy: its value, read from where it lives.
FetchFrom(p, st, places) ==
  LET content == Load(st, places[Len(places)]) IN
  CASE p.kind = "GlobalReference" -> [st |-> st, value |-> content]
    [] p.kind # "GlobalReference" /\ (content = Junk \/ Lost(st, places[1])) ->
         [st |-> Unsound(st), value |-> Junk]
    [] p.kind = "ArrayElement" -> [st |-> st, value |-> Load(st, Part(places[1], content))]
    [] OTHER -> [st |-> st, value |-> At(st.mem, content)]

FetchAt(p, slots) == FetchFrom(p, slots.st, slots.places)
Fetch(st, p) == FetchAt(p, Places(st, <<Base(p)>> \o RuntimeIndex(p)))

\* A callback adds to the destination.  None comes to an array element or a pointee.
PutInto(st, dest, place, src) ==
  IF src.from = "callback" THEN AddToSlot(st, dest, place) ELSE AssignSlot(st, dest, place)

\* SlotProxy::write, once the base, the source and the index are at their places.
StoreAt(p, src, st, places) ==
  LET pointer == Load(st, places[1])
      index == Load(st, places[Len(places)])
  IN  CASE p.kind \in {"Direct", "GlobalReference"} -> PutInto(st, places[1], places[2], src)
        [] p.kind = "Element" -> PutInto(st, Part(places[1], p.at), places[2], src)
        [] p.kind = "ArrayElement" ->
             IF index = Junk THEN Unsound(st)
             ELSE AssignSlot(st, Part(places[1], index), places[2])
        [] p.kind = "DereferencedPointer" ->
             IF pointer = Junk THEN Unsound(st)
             ELSE AssignSlot(st, InMemory(pointer), places[2])

WriteAt(p, src, slots) == StoreAt(p, src, slots.st, slots.places)
WriteProxy(st, p, src) ==
  WriteAt(p, src, Places(st, <<Base(p), Operand(src)>> \o RuntimeIndex(p)))

----------------------------------------------------------------------------
(* Entries: creation, flush, deletion. *)

\* The enclosing proxy that has an entry of its own, past the direct ones.
Owner(p) == SelectSeq(Enclosing(p), LAMBDA q : ~ IsDirect(q))
OwnerEntry(st, p) == IF Owner(p) = <<>> THEN NoEntry ELSE Find(st, Head(Owner(p)))

\* The owner's entry may have been deleted while the value was fetched.
AppendEntry(st, p, parent, value, pendingWrite) ==
  [st EXCEPT
     !.sound = @ /\ parent \in Ids(st) \cup {NoEntry},
     !.next = @ + 1,
     !.entries = Append(@,
       [id |-> st.next, proxy |-> p, value |-> value,
        dirty |-> st.aliasWriteMode \/ pendingWrite, pendingWrite |-> pendingWrite,
        parent |-> IF parent \in Ids(st) THEN parent ELSE NoEntry])]

CreateWith(p, parent, fetched, pendingWrite) ==
  AppendEntry(fetched.st, p, parent, fetched.value, pendingWrite)
Create(st, p, skipMaterialization) ==
  CreateWith(p, OwnerEntry(st, p),
             IF skipMaterialization THEN [st |-> st, value |-> Junk] ELSE Fetch(st, p),
             skipMaterialization)

FindOrCreate(st, p, skipMaterialization) ==
  IF Find(st, p) # NoEntry THEN st
  ELSE Create(IF Owner(p) = <<>> THEN st ELSE FindOrCreate(st, Head(Owner(p)), FALSE),
              p, skipMaterialization)

WithValue(st, id, value) == Update(st, id, [EntryOf(st, id) EXCEPT !.value = value])
WithDirty(st, id, dirty) == Update(st, id, [EntryOf(st, id) EXCEPT !.dirty = dirty])

\* A move destroys the entry's copy; the value is in the parent now, if there is one.
WrittenBack(st, id, parent, mode) ==
  LET moved == IF mode = "Move" THEN WithValue(st, id, Junk) ELSE st
  IN  IF parent = NoEntry THEN moved ELSE WithDirty(moved, parent, TRUE)

WriteBack(st, entry, mode) ==
  WrittenBack(WriteProxy(WithDirty(st, entry.id, FALSE), entry.proxy, PlaceSource(InEntry(entry.id))),
              entry.id, entry.parent, mode)

\* flushEntryIfDirty
FlushEntry(st, id, mode) ==
  IF id \notin Ids(st) THEN Unsound(st)
  ELSE IF EntryOf(st, id).dirty /\ ~ EntryOf(st, id).pendingWrite
       THEN WriteBack(st, EntryOf(st, id), mode)
       ELSE st

FlushEntries(st, ids, mode) ==
  [FoldLeft(LAMBDA s, id : FlushEntry(s, id, mode), [st EXCEPT !.flushing = TRUE], ids)
   EXCEPT !.flushing = st.flushing]

FlushSubtree(st, id, includeRoot) == FlushEntries(st, SubtreeOf(st, id, includeRoot), "Copy")

\* The entries below a proxy that has none itself.  The code finds them while it
\* flushes, in an iteration over the vector of entries.
EntriesWithin(st, p) ==
  FoldLeft(LAMBDA ids, root : ids \o SubtreeOf(st, root, TRUE), <<>>, RootsWithin(st, p))

Iterated(before, after) ==
  IF Len(after.entries) > Len(before.entries) THEN Unsound(after) ELSE after

FlushWithin(st, p) == Iterated(st, FlushEntries(st, EntriesWithin(st, p), "Copy"))

Mark(st, ids) == [st EXCEPT !.marked = @ \cup ToSet(ids)]

\* A fault: the marks stay.
DeleteAndKeepMarks(st) ==
  [st EXCEPT !.entries = SelectSeq(@, LAMBDA e : e.id \notin st.marked)]

\* An entry that stays must not have a parent that goes.
DeleteMarked(st) ==
  [st EXCEPT
     !.marked = {},
     !.entries = SelectSeq(@, LAMBDA e : e.id \notin st.marked),
     !.sound = @ /\ \A k \in DOMAIN st.entries :
                     st.entries[k].parent \in st.marked => st.entries[k].id \in st.marked]

FlushAndDelete(st, id, includeRoot) ==
  IF id \notin Ids(st) THEN Unsound(st)
  ELSE DeleteMarked(Mark(FlushEntries(st, SubtreeOf(st, id, includeRoot), "Move"),
                         SubtreeOf(st, id, includeRoot)))

FlushAndDeleteWithin(st, p) ==
  DeleteMarked(Mark(Iterated(st, FlushEntries(st, EntriesWithin(st, p), "Move")),
                    EntriesWithin(st, p)))

\* A fault: everything is written back, and stays cached.
FlushRoots(st) ==
  FoldLeft(LAMBDA s, id : FlushSubtree(s, id, TRUE), st, RanksOf(Parentless(st)))

\* The roots are collected before the first of them is flushed.
FlushAndClearRoots(st) ==
  FoldLeft(LAMBDA s, id : FlushAndDelete(s, id, TRUE), st, RanksOf(Parentless(st)))

\* A direct proxy has a place in the memory, or is a part of its owner's.
PartOf(owner, at) == [st |-> owner.st, place |-> Part(owner.place, at)]
DirectSlot(st, p) ==
  IF p.kind = "Direct" THEN [st |-> st, place |-> InMemory(<<p.var>>)]
  ELSE PartOf(Materialize(st, p.of), p.at)

CachedSlot(st, p) ==
  [st |-> IF st.flushing THEN st ELSE FlushSubtree(st, Find(st, p), FALSE),
   place |-> InEntry(Find(st, p))]

SlotOf(st, p) ==
  IF IsDirect(p) THEN DirectSlot(IF st.flushing THEN st ELSE FlushWithin(st, p), p)
  ELSE CachedSlot(FindOrCreate(st, p, FALSE), p)

\* Cache::materialize.  What a pointer leads to may be what is cached.
Materialize(st, p) ==
  SlotOf(IF DependsOnDereferencedPointer(p) /\ ~ st.flushing /\ ~ st.aliasWriteMode
         THEN FlushAndClearRoots(st) ELSE st,
         p)

----------------------------------------------------------------------------
(* Writing a proxy through the cache. *)

\* The entries that depend on p, those that depend on them first; a subtree is
\* marked when its root is found, and marked entries are not looked at again.
RECURSIVE Dependents(_, _, _)
Dependents(st, p, marked) ==
  FoldLeft(LAMBDA sofar, e :
             IF e.id \in sofar.marked \/ ~ DependsOn(e.proxy, p) THEN sofar
             ELSE LET deeper == Dependents(st, e.proxy,
                                  sofar.marked \cup ToSet(SubtreeOf(st, e.id, TRUE)))
                  IN  [marked |-> deeper.marked,
                       found |-> sofar.found \o deeper.found \o <<e.id>>],
           [marked |-> marked, found |-> <<>>], st.entries)

\* The clearing of the roots deletes the marked entries with the first of them.
InvalidateAll(st, ids) ==
  IF \E id \in Range(ids) : DependsOnDereferencedPointer(EntryOf(st, id).proxy)
  THEN FlushAndClearRoots(st)
  ELSE DeleteMarked(
         FoldLeft(LAMBDA s, id : FlushEntries(s, SubtreeOf(s, id, TRUE), "Move"), st, ids))

InvalidateDependencies(st, p) ==
  LET invalid == Dependents(st, p, {})
  IN  InvalidateAll([st EXCEPT !.marked = invalid.marked], invalid.found)

WriteAliasSensitive(st, dest, src) ==
  [FlushAndClearRoots(
     WriteProxy([FlushAndClearRoots(st) EXCEPT !.aliasWriteMode = TRUE], dest, src))
   EXCEPT !.aliasWriteMode = FALSE]

\* The nearest enclosing proxy that has an entry.
DirtyOwner(st, dest) ==
  LET owners == SelectSeq(Enclosing(dest), LAMBDA q : q \in Proxies(st))
  IN  IF owners = <<>> THEN st ELSE WithDirty(st, Find(st, Head(owners)), TRUE)

\* A fault: the entry that the field was written into does not become dirty.
WriteField(st, dest, src) ==
  WriteProxy(InvalidateDependencies(FlushAndDeleteWithin(st, dest), dest), dest, src)

WriteDirect(st, dest, src) ==
  DirtyOwner(WriteProxy(InvalidateDependencies(FlushAndDeleteWithin(st, dest), dest), dest, src),
             dest)

\* A fault: the value that was pending is not said to be there.
SetDirtyOnly(st, id) == WithDirty(st, id, TRUE)

SetDirty(st, id) ==
  IF id \notin Ids(st) THEN Unsound(st)
  ELSE Update(st, id, [EntryOf(st, id) EXCEPT !.dirty = TRUE, !.pendingWrite = FALSE])

\* The entry is created without its value, which is written into its slot.
PutEntry(slots, id, src) ==
  SetDirty(PutInto(slots.st, InEntry(id), slots.places[1], src), id)
WriteEntry(st, id, dest, src) ==
  PutEntry(Places(InvalidateDependencies(FlushAndDelete(st, id, FALSE), dest), <<Operand(src)>>),
           id, src)
WriteCreated(st, dest, src) == WriteEntry(st, Find(st, dest), dest, src)
WriteIndirect(st, dest, src) == WriteCreated(FindOrCreate(st, dest, TRUE), dest, src)

\* Cache::write.  A callback is not looked into for the proxies it reads.
Write(st, dest, src) ==
  IF src.from = "proxy" /\ src.proxy = dest THEN st
  ELSE IF \/ DependsOnDereferencedPointer(dest)
          \/ src.from = "proxy" /\ DependsOnDereferencedPointer(src.proxy)
       THEN WriteAliasSensitive(st, dest, src)
       ELSE IF IsDirect(dest) THEN WriteDirect(st, dest, src) ELSE WriteIndirect(st, dest, src)

----------------------------------------------------------------------------
(* Boundaries: where storage ends, where control may come from elsewhere,  *)
(* and where the function returns.                                         *)

RECURSIVE TopWithin(_, _, _)
TopWithin(st, id, ids) ==
  LET parent == EntryOf(st, id).parent IN
  IF parent \in ids THEN TopWithin(st, parent, ids) ELSE id

\* A fault: what depends on the slot is written back, and stays cached.
FlushSlotBoundary(st, v) ==
  {FlushEntries(st, RanksOf(SelectSeq(st.entries, LAMBDA e : DependsOnStorage(e.proxy, v))), "Copy")}

\* freeSlotBoundary iterates over a hash set of pointers: the order of the roots is
\* any.
FreeEntries(st, ids) ==
  LET freed(s, id) == Mark(FlushEntries(s, SubtreeOf(s, id, TRUE), "Move"), SubtreeOf(s, id, TRUE))
      roots == {TopWithin(st, id, ids) : id \in ids}
  IN  {DeleteMarked(FoldLeft(freed, st, order)) : order \in SetToSeqs(roots)}

FreeSlotBoundary(st, v) ==
  FreeEntries(st, {id \in Ids(st) : DependsOnStorage(EntryOf(st, id).proxy, v)})

\* returnBoundary flushes the roots that may lie outside the frame, in an iteration
\* over the entries, and abandons all of them.
Outlasting(st) ==
  SelectSeq(Parentless(st), LAMBDA e : e.proxy.kind \in {"GlobalReference", "DereferencedPointer"})

ReturnBoundary(st) ==
  [Iterated(st, FoldLeft(LAMBDA s, id : FlushEntries(s, SubtreeOf(s, id, TRUE), "Move"),
                         st, RanksOf(Outlasting(st))))
   EXCEPT !.entries = <<>>]

\* Storage that ends, as the program initializes it when it comes to it again.
Forget(st, ended, fresh) ==
  [st EXCEPT !.mem = [v \in DOMAIN @ |-> IF v \in ended THEN fresh[v] ELSE @[v]]]

----------------------------------------------------------------------------
(* The operations of the generator.  Between them entries are renumbered.  *)

Rested(st) ==
  LET rank(id) == IF id \in Ids(st) THEN Position(st, id) ELSE NoEntry IN
  [st EXCEPT !.next = Len(st.entries) + 1,
             !.entries = [k \in DOMAIN @ |-> [@[k] EXCEPT !.id = k, !.parent = rank(@)]]]

Becomes(st) == cache.sound /\ cache' = Rested(st)

OperandSource(operand) ==
  IF operand.kind = "Literal" THEN PlaceSource(Computed(operand.literal)) ELSE ProxySource(operand)

\* assignImpl materializes a source that is no literal before the write does, and
\* binOpAssignImpl the destination.
Prepared(dest, op, operand) ==
  IF op = "=" /\ operand.kind = "Literal" THEN cache
  ELSE Materialize(cache, IF op = "=" THEN operand ELSE dest).st

Assign(dest, op, operand) ==
  /\ Becomes(Write(Prepared(dest, op, operand), dest,
                   IF op = "=" THEN OperandSource(operand) ELSE Increase(OperandSource(operand))))
  /\ UNCHANGED seen

\* unOpAssignImpl operates on the materialized slot, past the cache.
Unary(dest) ==
  LET increased(slot) == AddToSlot(slot.st, slot.place, Computed(1)) IN
  /\ Becomes(increased(Materialize(cache, dest)))
  /\ UNCHANGED seen

ReadSlot(slot) == Becomes(slot.st) /\ seen' = Load(slot.st, slot.place)
Read(p) == ReadSlot(Materialize(cache, p))

\* A label, a jump or a branch.
ControlBoundary ==
  /\ Becomes(FlushAndClearRoots(cache))
  /\ UNCHANGED seen

LeaveScope(v, fresh) ==
  /\ \E st \in FreeSlotBoundary(cache, v) : Becomes(Forget(st, {v}, fresh))
  /\ UNCHANGED seen

\* The caller, or the next call of the function, goes on with the storage outside.
Return(outlive, fresh) ==
  /\ Becomes(Forget(ReturnBoundary(cache), DOMAIN fresh \ outlive, fresh))
  /\ UNCHANGED seen

\* A call of a function that stores its argument in a global and returns it
\* increased.  The cache is abandoned when the frame is pushed; the metablock that
\* control returns to writes the result and is a boundary itself.
CallWith(st, value, global, dest) ==
  FlushAndClearRoots(Write([st EXCEPT !.entries = <<>>, !.mem[global] = value],
                           dest, PlaceSource(Computed(Sum(value, 1)))))

Call(arg, global, dest) ==
  LET called(slot) == CallWith(slot.st, Load(slot.st, slot.place), global, dest) IN
  /\ Becomes(called(Materialize(FlushAndClearRoots(cache), arg)))
  /\ UNCHANGED seen

CacheInit(m) == cache = Empty(m) /\ seen = Junk

\* What the memory becomes when everything cached is written back.
Committed == FlushAndClearRoots(cache).mem
============================================================================
