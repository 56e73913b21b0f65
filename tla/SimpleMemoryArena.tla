------------------------- MODULE SimpleMemoryArena -------------------------
(***************************************************************************)
(* The offset arena of tflite/simple_memory_arena.{h,cc} as operators on   *)
(* an arena record                                                         *)
(*                                                                         *)
(*   active     active_allocs_: the allocs the next search must avoid      *)
(*   hwm        high_water_mark_                                           *)
(*   committed  committed_                                                 *)
(*   bufsize    underlying_buffer_.data_size_ (0 when no buffer is held)   *)
(*                                                                         *)
(* The code keeps active_allocs_ as a vector sorted by offset. The order   *)
(* is all that the vector adds to the set of its elements (allocs of equal *)
(* offset are in no specified order: std::sort), so active is a set and    *)
(* the search visits it by increasing offset.                              *)
(***************************************************************************)
EXTENDS Integers, FiniteSets, SequencesExt

CONSTANTS SizeMax,           \* the largest size_t
          Alignment,         \* tensor_alignment_ of the planner, bytes
          kNodeNotAssigned   \* INT32_MAX: "until the end of the graph"

ASSUME SizeMaxAssumption == SizeMax \in Nat \ {0}
ASSUME AlignmentAssumption == Alignment \in Nat \ {0}
ASSUME NotAssignedAssumption == kNodeNotAssigned \in Nat \ {0}

Size == 0 .. SizeMax

(***************************************************************************)
(* ArenaAllocWithUsageInterval: a block of the arena and the first and     *)
(* last execution index at which its tensor is needed. NoAlloc is reset(). *)
(***************************************************************************)
NoAlloc == [tensor |-> -1, offset |-> 0, size |-> 0, first |-> -1, last |-> -1]

EmptyArena == [active |-> {}, hwm |-> 0, committed |-> FALSE, bufsize |-> 0]

\* The usage intervals of the two allocs share an execution index.
Intersects(a, b) == ~(a.last < b.first \/ a.first > b.last)

\* The bytes of the two blocks are disjoint.
Disjoint(a, b) == a.offset + a.size <= b.offset \/ b.offset + b.size <= a.offset

(***************************************************************************)
(* size_t arithmetic. CheckedAdd and CheckedAlignTo return a value and     *)
(* whether it could be computed: AddFits and AlignFits say so, and AlignTo *)
(* is the value of the second.                                             *)
(***************************************************************************)
AddUnchecked(lhs, rhs) == TRUE   \* mutant

AddFits(lhs, rhs) == lhs <= SizeMax - rhs

AlignTo(offset) ==
  LET remainder == offset % Alignment
  IN  IF remainder = 0 THEN offset ELSE offset + (Alignment - remainder)

AlignFits(offset) ==
  LET remainder == offset % Alignment
  IN  remainder = 0 \/ AddFits(offset, Alignment - remainder)

(***************************************************************************)
(* The best-fit search of SimpleMemoryArena::Allocate. Its local variables *)
(* best_offset, best_offset_fit and current_offset, and ok, which is FALSE *)
(* once a TF_LITE_ENSURE made the call return an error.                    *)
(***************************************************************************)
kOffsetNotAssigned == SizeMax

SearchStart == [best |-> kOffsetNotAssigned, fit |-> kOffsetNotAssigned,
                current |-> 0, ok |-> TRUE]

\* One turn of the loop for the active alloc a, whose usage interval
\* intersects the one of the request.
SearchGap(s, a, size) ==
  LET aligned == AlignTo(s.current)
      allocEnd == a.offset + a.size
      taken == /\ aligned + size <= a.offset
               /\ a.offset - aligned < s.fit
  IN  IF ~(AlignFits(s.current) /\ AddFits(aligned, size) /\ AddFits(a.offset, a.size))
      THEN [s EXCEPT !.ok = FALSE]
      ELSE [best |-> IF taken THEN aligned ELSE s.best,
            fit |-> IF taken THEN a.offset - s.current ELSE s.fit,
            current |-> IF s.current < allocEnd THEN allocEnd ELSE s.current,
            ok |-> TRUE]

\* One turn of the loop, the skip of an alloc with another usage interval
\* included. An error, or a perfect fit, has already left the loop.
SearchVisit(s, a, req) ==
  IF ~s.ok \/ s.fit = 0 \/ ~Intersects(a, req) THEN s ELSE SearchGap(s, a, req.size)

\* The whole loop over active_allocs_ in the order of the vector: the alloc
\* of the highest offset comes last.
LastInOrder(A) == CHOOSE a \in A : \A b \in A : b.offset <= a.offset

Search(arena, req) ==
  MapThenFoldSet(LAMBDA a, s : SearchVisit(s, a, req), SearchStart,
                 LAMBDA a : a, LastInOrder, arena.active)

\* After the loop: the offset of the new block, and whether it, and the end
\* of the block, could be computed.
ChosenOffsetUnaligned(s) ==   \* mutant
  IF s.best = kOffsetNotAssigned THEN s.current ELSE s.best

ChosenOffset(s) == IF s.best = kOffsetNotAssigned THEN AlignTo(s.current) ELSE s.best

SearchSucceeds(s, size) ==
  /\ s.ok
  /\ s.best = kOffsetNotAssigned => AlignFits(s.current)
  /\ AddFits(ChosenOffset(s), size)

InsertForgetsHwm(arena, alloc) == [arena EXCEPT !.active = @ \union {alloc}]   \* mutant

\* The block is inserted and the high water mark covers it.
Insert(arena, alloc) ==
  [arena EXCEPT !.active = @ \union {alloc},
                !.hwm = IF @ < alloc.offset + alloc.size
                        THEN alloc.offset + alloc.size ELSE @]

(***************************************************************************)
(* Allocate(..., new_alloc): the arena, the alloc record after the call    *)
(* and the status. The record's tensor, interval and size are assigned     *)
(* before anything can fail, its offset only when the call succeeds.       *)
(***************************************************************************)
AllocateFound(arena, old, req, s) ==
  IF SearchSucceeds(s, req.size)
  THEN LET alloc == [req EXCEPT !.offset = ChosenOffset(s)]
       IN  [ok |-> TRUE, arena |-> Insert(arena, alloc), alloc |-> alloc]
  ELSE [ok |-> FALSE, arena |-> arena, alloc |-> [req EXCEPT !.offset = old.offset]]

Allocate(arena, old, req) ==
  IF req.size = 0
  THEN [ok |-> TRUE, arena |-> arena, alloc |-> [req EXCEPT !.offset = 0]]
  ELSE AllocateFound(arena, old, req, Search(arena, req))

(***************************************************************************)
(* The operations that forget allocs.                                      *)
(***************************************************************************)
PurgeAfter(arena, node) ==
  [arena EXCEPT !.active = {a \in @ : ~(a.first > node)}]

PurgeActiveAllocsAtNode(arena, node) ==   \* mutant
  [arena EXCEPT !.active = {a \in @ : ~(a.last <= node)}]

PurgeActiveAllocs(arena, node) ==
  [arena EXCEPT !.active = {a \in @ : ~(a.last < node)}]

CalculateActiveAllocs(arena, allocs, node) ==
  [arena EXCEPT !.active = {a \in allocs : a.first <= node /\ a.last >= node}]

ResetAllocs(arena) == [arena EXCEPT !.active = {}]

ClearPlan(arena) ==
  [arena EXCEPT !.committed = FALSE, !.hwm = 0, !.active = {}]

(***************************************************************************)
(* The underlying buffer: ResizableAlignedBuffer::Resize never shrinks it  *)
(* and, when the memory cannot be had, leaves it as it is. A buffer that   *)
(* grows is a new one (AlignedRealloc allocates, copies, frees).           *)
(***************************************************************************)
Reallocates(arena) == arena.hwm > arena.bufsize

Commit(arena, mallocOk) ==
  IF Reallocates(arena) /\ ~mallocOk
  THEN [arena EXCEPT !.committed = FALSE]
  ELSE [arena EXCEPT !.committed = TRUE,
                     !.bufsize = IF @ < arena.hwm THEN arena.hwm ELSE @]

\* ResolveAlloc succeeds: the block lies within the committed buffer.
ResolveAllocOk(arena, alloc) ==
  /\ arena.committed
  /\ AddFits(alloc.offset, alloc.size)
  /\ arena.bufsize >= alloc.offset + alloc.size

ReleaseBuffer(arena) == [arena EXCEPT !.committed = FALSE, !.bufsize = 0]
=============================================================================
