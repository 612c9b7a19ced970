--------------------------- MODULE SlotAllocator ---------------------------
(***************************************************************************)
(* The allocator of a function's local area (src/assembler/                *)
(* assembler_memory.cc).                                                   *)
(*                                                                         *)
(* FrameLayout::locals is a vector of shared SlotData objects.  Objects    *)
(* are only appended to it and erased from it, so an object is named here  *)
(* by the rank of its creation, and the vector is the function slots from  *)
(* the objects it holds, in increasing order, to their data.  Code that    *)
(* asked for a slot keeps the shared object: a handle is a rank, and it    *)
(* stays valid as a name after the object was freed, reused or erased.     *)
(*                                                                         *)
(* localAreaSize() sums the sizes of the vector on every call.  The sum is *)
(* the variable area, which every action changes by what the action does   *)
(* to the sum; AreaIsSum says that it is the sum.                          *)
(***************************************************************************)
EXTENDS Integers, FiniteSetsExt, Sequences

CONSTANTS
  ReturnValueSize,  \* cells FrameLayout reserves for the return value
  Sizes,            \* sizes of the types that slots are requested for
  MaxArea,          \* bound: cells of the local area
  MaxObjects,       \* bound: SlotData objects created in a frame
  MaxDepth,         \* bound: scopes open at once
  MaxScopes         \* bound: scopes created in a function

ASSUME ReturnValueAssumption == ReturnValueSize \in Nat
ASSUME SizesAssumption == Sizes \subseteq Nat \ {0}
ASSUME BoundsAssumption ==
  /\ MaxArea \in Nat /\ MaxObjects \in Nat
  /\ MaxDepth \in Nat /\ MaxScopes \in Nat

VARIABLES
  slots,     \* frame.locals
  next,      \* rank of the next SlotData object
  area,      \* frame.localAreaSize()
  scopes,    \* the open scopes, outermost first; the last is _currentScope
  lastScope, \* rank of the last scope created
  doomed,    \* while freeScope runs: the handles it collected
  phase      \* where the function is in its construction

vars == <<slots, next, area, scopes, lastScope, doomed, phase>>

FunctionLevel == 0   \* the null scope
NoHint == -1         \* an absent near hint
ReturnValueStart == 1

LiveKinds == {"Local", "Temp", "Cache"}
Slot == [kind : LiveKinds \cup {"Available"}, offset : Nat,
         size : Nat \ {0}, scope : Nat]

LocalBase == ReturnValueStart + ReturnValueSize
AreaEnd == LocalBase + area

CellsOf(slot) == slot.offset .. (slot.offset + slot.size - 1)
Available(S) == {i \in DOMAIN S : S[i].kind = "Available"}
FreeCells(S) == UNION {CellsOf(S[i]) : i \in Available(S)}
OfKind(S, kind) == {i \in DOMAIN S : S[i].kind = kind}

CurrentScope ==
  IF scopes = <<>> THEN FunctionLevel ELSE scopes[Len(scopes)]

----------------------------------------------------------------------------
(* allocSlot: best fit, else the free tail, else a new object. *)

\* A fault: a hole of exactly the size is passed over.
LargerThan(n) == {i \in Available(slots) : slots[i].size > n}

Fitting(n) == {i \in Available(slots) : slots[i].size >= n}
BestFitting(n) == {i \in Fitting(n) : \A j \in Fitting(n) : slots[i].size <= slots[j].size}
FreeTails == {i \in Available(slots) : slots[i].offset + slots[i].size = AreaEnd}

Distance(near, i) ==
  IF near >= slots[i].offset THEN near - slots[i].offset ELSE slots[i].offset - near

\* i comes before j among equal fits: nearer to the hint, else earlier in the vector.
Preferred(i, j, near) ==
  \/ near = NoHint /\ i <= j
  \/ near # NoHint /\ Distance(near, i) < Distance(near, j)
  \/ near # NoHint /\ Distance(near, i) = Distance(near, j) /\ i <= j

Selected(i, n, near) ==
  /\ i \in BestFitting(n)
  /\ \A j \in BestFitting(n) : Preferred(i, j, near)

\* Cache slots belong to no scope, so that leaving a scope does not free them.
NewSlot(kind, offset, n) ==
  [kind |-> kind, offset |-> offset, size |-> n,
   scope |-> IF kind = "Cache" THEN FunctionLevel ELSE CurrentScope]

FreeSlot(offset, n) ==
  [kind |-> "Available", offset |-> offset, size |-> n, scope |-> FunctionLevel]

\* A fault: what the request leaves of the hole is lost.
TakeWholeHole(kind, n, near) ==
  \E i \in DOMAIN slots :
    /\ Selected(i, n, near)
    /\ slots' = [slots EXCEPT ![i] = NewSlot(kind, @.offset, n)]
    /\ UNCHANGED <<next, area>>

\* Reuse a hole; what the request leaves of it becomes a new free object.
TakeHole(kind, n, near) ==
  \E i \in DOMAIN slots :
    /\ Selected(i, n, near)
    /\ LET hole == slots[i] IN
       IF hole.size = n
       THEN /\ slots' = [slots EXCEPT ![i] = NewSlot(kind, hole.offset, n)]
            /\ UNCHANGED next
       ELSE /\ next <= MaxObjects
            /\ slots' = [j \in DOMAIN slots \cup {next} |->
                           IF j = i THEN NewSlot(kind, hole.offset, n)
                           ELSE IF j = next THEN FreeSlot(hole.offset + n, hole.size - n)
                           ELSE slots[j]]
            /\ next' = next + 1
    /\ UNCHANGED area

\* A fault: the size of the request is not added to the area.
ShrinkTail(kind, n) ==
  /\ Fitting(n) = {}
  /\ \E i \in FreeTails :
       /\ area' = area - slots[i].size
       /\ slots' = [slots EXCEPT ![i] = NewSlot(kind, slots[i].offset, n)]
  /\ UNCHANGED next

\* Grow the hole at the end of the area instead of appending beyond it.
GrowTail(kind, n) ==
  /\ Fitting(n) = {}
  /\ \E i \in FreeTails :
       /\ area' = area + n - slots[i].size
       /\ slots' = [slots EXCEPT ![i] = NewSlot(kind, slots[i].offset, n)]
  /\ area' <= MaxArea
  /\ UNCHANGED next

\* A fault: the new object takes the name of the one that comes after it.
AppendUncounted(kind, n) ==
  /\ Fitting(n) = {} /\ FreeTails = {}
  /\ next <= MaxObjects /\ area + n <= MaxArea
  /\ slots' = [j \in DOMAIN slots \cup {next} |->
                 IF j = next THEN NewSlot(kind, AreaEnd, n) ELSE slots[j]]
  /\ area' = area + n
  /\ UNCHANGED next

AppendSlot(kind, n) ==
  /\ Fitting(n) = {}
  /\ FreeTails = {}
  /\ next <= MaxObjects
  /\ area + n <= MaxArea
  /\ slots' = [j \in DOMAIN slots \cup {next} |->
                 IF j = next THEN NewSlot(kind, AreaEnd, n) ELSE slots[j]]
  /\ next' = next + 1
  /\ area' = area + n

AllocSlot(kind, n, near) ==
  \/ TakeHole(kind, n, near)
  \/ GrowTail(kind, n)
  \/ AppendSlot(kind, n)

----------------------------------------------------------------------------
(* Freeing: markSlotAvailable, then mergeAvailableSlots.                   *)
(*                                                                         *)
(* The merge loop joins two adjacent free slots into the left one, erasing *)
(* the right one, until none are adjacent.  What it leaves does not depend *)
(* on the order it finds the pairs in: of every run of free cells the      *)
(* leftmost slot, grown over the run.                                      *)

Marked(S, freed) ==
  [i \in DOMAIN S |-> IF i \in freed THEN FreeSlot(S[i].offset, S[i].size) ELSE S[i]]

StartsRun(S, i) == (S[i].offset - 1) \notin FreeCells(S)

RunEnd(S, i) ==
  CHOOSE e \in (S[i].offset + S[i].size) .. AreaEnd :
    /\ e \notin FreeCells(S)
    /\ S[i].offset .. (e - 1) \subseteq FreeCells(S)

\* A fault: free slots stay apart.
Unmerged(S) == S

Merged(S) ==
  [i \in {j \in DOMAIN S : S[j].kind = "Available" => StartsRun(S, j)} |->
     IF S[i].kind = "Available"
     THEN FreeSlot(S[i].offset, RunEnd(S, i) - S[i].offset)
     ELSE S[i]]

FreeAll(freed) == slots' = Merged(Marked(slots, freed))

\* The merge as the code runs it.  A round scans the vector for a free slot a, then
\* for a free slot b on either side of it, joins the pair and starts again; the last
\* round finds no pair.  Each of the others erases a slot: there are no more of them
\* than slots.
Adjoins(S, a, b) == S[a].offset + S[a].size = S[b].offset
FirstOf(set) == CHOOSE x \in set : \A y \in set : x <= y
Touching(S, a) == {b \in Available(S) \ {a} : Adjoins(S, a, b) \/ Adjoins(S, b, a)}
Mergeable(S) == {a \in Available(S) : Touching(S, a) # {}}

\* A fault: the right slot is erased and the left one keeps its size.
Erased(S, left, right) == [i \in DOMAIN S \ {right} |-> S[i]]

Joined(S, left, right) ==
  [i \in DOMAIN S \ {right} |->
     IF i = left THEN [S[i] EXCEPT !.size = @ + S[right].size] ELSE S[i]]

MergeRound(S) ==
  LET a == FirstOf(Mergeable(S))
      b == FirstOf(Touching(S, a))
  IN  IF Mergeable(S) = {} THEN S
      ELSE IF Adjoins(S, a, b) THEN Joined(S, a, b) ELSE Joined(S, b, a)

MergeLoop(S) ==
  LET after[k \in 0 .. Cardinality(DOMAIN S)] ==
        IF k = 0 THEN S ELSE MergeRound(after[k - 1])
  IN  after[Cardinality(DOMAIN S)]

----------------------------------------------------------------------------
(* The operations of a function under construction.  While freeScope       *)
(* commits the cache (closing), only the writes of that flush run.         *)

Emitting == phase \in {"body", "closing", "meta"}
Hints == {NoHint} \cup 0 .. AreaEnd

DeclareLocal(n) ==
  /\ phase = "body"
  /\ AllocSlot("Local", n, NoHint)
  /\ UNCHANGED <<scopes, lastScope, doomed, phase>>

GetTemp(n, near) ==
  /\ Emitting
  /\ AllocSlot("Temp", n, near)
  /\ UNCHANGED <<scopes, lastScope, doomed, phase>>

GetCache(n, near) ==
  /\ Emitting
  /\ AllocSlot("Cache", n, near)
  /\ UNCHANGED <<scopes, lastScope, doomed, phase>>

\* The flush of freeScope frees only the temporaries it took.
FreeTempSlot(i) ==
  /\ Emitting
  /\ i \in OfKind(slots, "Temp") \ doomed
  /\ phase = "closing" => slots[i].scope = CurrentScope
  /\ FreeAll({i})
  /\ UNCHANGED <<next, area, scopes, lastScope, doomed, phase>>

FreeCacheSlot(i) ==
  /\ Emitting
  /\ i \in OfKind(slots, "Cache")
  /\ FreeAll({i})
  /\ UNCHANGED <<next, area, scopes, lastScope, doomed, phase>>

BeginScope ==
  /\ phase = "body"
  /\ Len(scopes) < MaxDepth
  /\ lastScope < MaxScopes
  /\ lastScope' = lastScope + 1
  /\ scopes' = Append(scopes, lastScope + 1)
  /\ UNCHANGED <<slots, next, area, doomed, phase>>

\* endScope collects the scope's slots, lets the cache commit the entries that
\* depend on them (freeSlotBoundary), and only then frees what it collected.
EndScope ==
  /\ phase = "body"
  /\ scopes # <<>>
  /\ LET owned == {i \in DOMAIN slots : slots[i].scope = CurrentScope} IN
     IF owned = {}
     THEN /\ scopes' = SubSeq(scopes, 1, Len(scopes) - 1)
          /\ UNCHANGED <<doomed, phase>>
     ELSE /\ doomed' = owned
          /\ phase' = "closing"
          /\ UNCHANGED scopes
  /\ UNCHANGED <<slots, next, area, lastScope>>

\* A fault: the slots of the scope are not freed.
FinishScopeOnly ==
  /\ phase = "closing"
  /\ OfKind(slots, "Temp") \ doomed
       \subseteq {i \in DOMAIN slots : slots[i].scope # CurrentScope}
  /\ scopes' = SubSeq(scopes, 1, Len(scopes) - 1)
  /\ doomed' = {}
  /\ phase' = "body"
  /\ UNCHANGED <<slots, next, area, lastScope>>

\* The flush frees the temporaries it took itself before it returns.
FinishScope ==
  /\ phase = "closing"
  /\ OfKind(slots, "Temp") \ doomed
       \subseteq {i \in DOMAIN slots : slots[i].scope # CurrentScope}
  /\ FreeAll(doomed)
  /\ scopes' = SubSeq(scopes, 1, Len(scopes) - 1)
  /\ doomed' = {}
  /\ phase' = "body"
  /\ UNCHANGED <<next, area, lastScope>>

\* endFunction frees the temporaries.  Cache slots may be left: a call resets the
\* cache after its arguments were read, which forgets their slots without freeing them.
EndFunction ==
  /\ phase = "body"
  /\ scopes = <<>>
  /\ FreeAll(OfKind(slots, "Temp"))
  /\ phase' = "ended"
  /\ UNCHANGED <<next, area, scopes, lastScope, doomed>>

\* endProgram comes back to the frame of a finished function to build the
\* metablocks of its calls; the store of a return value frees what it took.
BeginMetaBlock ==
  /\ phase = "ended"
  /\ phase' = "meta"
  /\ UNCHANGED <<slots, next, area, scopes, lastScope, doomed>>

EndMetaBlock ==
  /\ phase = "meta"
  /\ OfKind(slots, "Temp") = {}
  /\ phase' = "ended"
  /\ UNCHANGED <<slots, next, area, scopes, lastScope, doomed>>

Init ==
  /\ slots = [i \in {} |-> FreeSlot(0, 1)]
  /\ next = 1
  /\ area = 0
  /\ scopes = <<>>
  /\ lastScope = 0
  /\ doomed = {}
  /\ phase = "body"

Next ==
  \/ \E n \in Sizes : DeclareLocal(n)
  \/ \E n \in Sizes, near \in Hints : GetTemp(n, near)
  \/ \E n \in Sizes, near \in Hints : GetCache(n, near)
  \/ \E i \in DOMAIN slots : FreeTempSlot(i)
  \/ \E i \in DOMAIN slots : FreeCacheSlot(i)
  \/ BeginScope
  \/ EndScope
  \/ FinishScope
  \/ EndFunction
  \/ BeginMetaBlock
  \/ EndMetaBlock

Spec == Init /\ [][Next]_vars

----------------------------------------------------------------------------
(* Properties *)

\* Every variable has its type; the vector holds only objects created so far.
TypeOK ==
  /\ DOMAIN slots \subseteq 1 .. (next - 1)
  /\ \A i \in DOMAIN slots : slots[i] \in Slot
  /\ next \in Nat \ {0}
  /\ area \in Nat
  /\ scopes \in Seq(Nat \ {0})
  /\ lastScope \in Nat
  /\ doomed \subseteq DOMAIN slots
  /\ phase \in {"body", "closing", "ended", "meta"}

\* No two slots of the vector, live or free, share a cell of the frame.
SlotsDisjoint ==
  \A i, j \in DOMAIN slots :
    i # j => CellsOf(slots[i]) \cap CellsOf(slots[j]) = {}

\* Every slot lies in the local area, behind the return value.
SlotsInsideArea ==
  \A i \in DOMAIN slots :
    /\ LocalBase <= slots[i].offset
    /\ slots[i].offset + slots[i].size <= AreaEnd

\* Every cell of the local area belongs to some slot: the area has no hole that
\* the allocator has lost.
AreaCovered ==
  \A c \in LocalBase .. (AreaEnd - 1) :
    \E i \in DOMAIN slots : c \in CellsOf(slots[i])

\* The slots tile the local area whatever was split, merged, grown or freed:
\* two variables never share storage, and no cell is lost.
Tiling == SlotsDisjoint /\ SlotsInsideArea /\ AreaCovered

\* The size that the code obtains by summing the vector (FrameLayout::
\* localAreaSize) is the extent that the slots occupy, which is where a new
\* slot is appended and what pushFrame skips.
AreaIsSum == area = MapThenSumSet(LAMBDA i : slots[i].size, DOMAIN slots)

\* Between operations no two free slots touch, so a request is refused a hole
\* only if the free cells really are not contiguous.
Coalesced ==
  \A i, j \in Available(slots) :
    slots[i].offset + slots[i].size # slots[j].offset

\* Freeing any set of temporaries or cache slots leaves what the code's merge
\* loop leaves, the same objects with the same extents, whatever the order of
\* the vector.
MergeIsLoop ==
  \A freed \in SUBSET (OfKind(slots, "Temp") \cup OfKind(slots, "Cache")) :
    Merged(Marked(slots, freed)) = MergeLoop(Marked(slots, freed))

\* A local or a temporary belongs to a scope that is still open: nothing
\* outlives the scope it was allocated in, not even what the flush on leaving
\* a scope allocates.
OwnersOpen ==
  \A i \in OfKind(slots, "Local") \cup OfKind(slots, "Temp") :
    \/ slots[i].scope = FunctionLevel
    \/ \E d \in DOMAIN scopes : scopes[d] = slots[i].scope

\* Emitted code addresses cells by number, so a slot that stays in use keeps
\* its cells, and the reserved extent never shrinks under emitted code.
StoragePinned ==
  [][/\ area' >= area
     /\ \A i \in DOMAIN slots :
          (/\ slots[i].kind # "Available"
           /\ i \in DOMAIN slots'
           /\ slots'[i].kind # "Available") => slots'[i] = slots[i]]_vars

\* The frame grows only for a request that no hole could serve: a step that
\* grows the area brings a slot larger than every hole there was.
GrowthIsForced ==
  [][area' > area =>
       \E i \in DOMAIN slots' :
         /\ slots'[i].kind # "Available"
         /\ i \in Available(slots) \cup {next}
         /\ \A j \in Available(slots) : slots[j].size < slots'[i].size]_vars

============================================================================
