--------------------------- MODULE CachedProgram ---------------------------
(***************************************************************************)
(* A function under construction, with the value cache (ValueCache) and as *)
(* its author means it (PlainMemory): every operation is carried out by    *)
(* both at once.  That the two agree after every operation is more than    *)
(* that the one refines the other: a write that the cache loses without a  *)
(* trace would be a stuttering step.                                       *)
(***************************************************************************)
EXTENDS ValueCache

\* The functions under construction: the memory each starts with, what of
\* it outlives the frame, the locals of an inner scope, and what it does, in any
\* order: proxies it reads, assignments (a destination, = or +=, and an operand),
\* proxies it applies a unary operation to in place, and calls, each with the
\* argument, the global that the callee sets and the result.
CONSTANT Programs

VARIABLES
  program,    \* the function
  mem,        \* the memory as the author means it
  read        \* the value the author expects from the last read

vars == <<cache, seen, program, mem, read>>

Plain == INSTANCE PlainMemory WITH seen <- read

Init ==
  /\ program \in Programs
  /\ CacheInit(program.memory)
  /\ Plain!Init(program.memory)

Operation ==
  \/ \E w \in program.assignments : Assign(w[1], w[2], w[3]) /\ Plain!Assign(w[1], w[2], w[3])
  \/ \E p \in program.unaries : Unary(p) /\ Plain!Assign(p, "+=", Literal(1))
  \/ \E p \in program.reads : Read(p) /\ Plain!Read(p)
  \/ \E c \in program.calls : Call(c[1], c[2], c[3]) /\ Plain!Call(c[1], c[2], c[3])
  \/ \E v \in program.scoped : LeaveScope(v, program.memory) /\ Plain!LeaveScope(v, program.memory)
  \/ ControlBoundary /\ UNCHANGED <<mem, read>>
  \/ Return(program.outlive, program.memory) /\ Plain!Return(program.outlive, program.memory)

Next == Operation /\ UNCHANGED program

Spec == Init /\ [][Next]_vars

----------------------------------------------------------------------------
(* Properties *)

\* The variables have their types, and no operation leaves the cache half way.
TypeOK ==
  /\ program \in Programs /\ DOMAIN cache.mem = DOMAIN program.memory
  /\ cache.marked = {} /\ ~ cache.flushing /\ ~ cache.aliasWriteMode
  /\ \A k \in DOMAIN cache.entries :
       LET e == cache.entries[k] IN
       /\ e.id = k /\ e.parent \in 0 .. Len(cache.entries)
       /\ {e.dirty, e.pendingWrite} \subseteq BOOLEAN

\* The program works on the memory its author wrote to: what is written back
\* in the end is what was assigned, and every read returned it, whatever was
\* cached, flushed, moved and abandoned between.
Transparent == Committed = mem /\ seen = read

\* No operation uses a deleted entry or its slot, or the index or pointer in a cell
\* that was moved from.
NothingDangles == cache.sound

\* The cache is a forest over the proxies: one entry for each, under the owner that
\* its value is written back into, and no value that is still to be written.
EntriesNest ==
  \A id \in Ids(cache) :
    LET e == EntryOf(cache, id) IN
    /\ ~ IsDirect(e.proxy) /\ ~ e.pendingWrite
    /\ \A other \in Ids(cache) \ {id} : EntryOf(cache, other).proxy # e.proxy
    /\ IF e.parent = NoEntry THEN Owner(e.proxy) = <<>>
       ELSE EntryOf(cache, e.parent).proxy = Head(Owner(e.proxy))

\* What the cache's own pointers and its writing back rely on: an entry that is used is
\* there, and stands where its owner is (Cache::findEntry, flushEntryIfDirty).
EntriesStand == NothingDangles /\ EntriesNest

\* An entry with nothing dirty in it holds what the author expects where it stands
\* for: reading it is as good as reading that storage.  Only what is reached through
\* a pointer may be stale; reading that clears the cache first.
CleanIsCurrent ==
  \A id \in Ids(cache) :
    LET e == EntryOf(cache, id) IN
    (/\ ~ DependsOnDereferencedPointer(e.proxy)
     /\ \A below \in Range(SubtreeOf(cache, id, TRUE)) : ~ EntryOf(cache, below).dirty)
      => e.value = Value(mem, e.proxy)

\* Nothing stays cached where control may come from elsewhere, whenever that is:
\* after every sequence of operations the next one may be a label, a jump or a call.
BoundaryEmpties == FlushAndClearRoots(cache).entries = <<>>

\* No entry outlives the storage that its value, its index or its pointer lives in,
\* whenever the scope is left and in whatever order the entries then go: the next
\* variable to get that storage would be taken for it.
ScopeEndsEntries ==
  \A v \in program.scoped : \A st \in FreeSlotBoundary(cache, v) :
    \A q \in Proxies(st) : ~ DependsOnStorage(q, v)
============================================================================
