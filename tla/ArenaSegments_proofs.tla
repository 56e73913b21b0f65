------------------------ MODULE ArenaSegments_proofs ------------------------
(***************************************************************************)
(* Proofs about the memory arena for any number of tensors and nodes, any  *)
(* sizes, alignment and width of size_t.                                   *)
(***************************************************************************)
EXTENDS ArenaSegments, Extrema, FiniteSetTheorems

(***************************************************************************)
(* The inductive invariant. PlanDisjoint says nothing of active_allocs_    *)
(* and nothing of the loop, so it does not survive a step by itself.       *)
(***************************************************************************)

\* Blocks that ended before this node are of no concern to the next Allocate.
Floor == IF status \in {"calculate", "search"} THEN segment[1] ELSE lastActive

\* The arena still knows every block of the plan that a later one could meet.
ActiveCoversPlan ==
  \A t \in Tensors :
    allocs[t].size > 0 => allocs[t] \in arena.active \/ allocs[t].last < Floor

HighWaterMarkCoversPlan ==
  \A t \in Tensors : allocs[t].offset + allocs[t].size <= arena.hwm

PlanSound ==
  status # "failed" => ActiveCoversPlan /\ HighWaterMarkCoversPlan

CommittedFits ==
  status = "idle" /\ arena.committed => arena.bufsize >= arena.hwm

SegmentOrdered ==
  status \in {"calculate", "search", "planned"} =>
    segment \in Nodes \X Nodes /\ segment[1] <= segment[2]

PlannedActive == status = "planned" => lastActive = segment[2]

\* The loop of Allocate: the allocs visited so far end before current, those
\* to come start no earlier than the visited ones, and the best offset so
\* far is clear of every alloc, visited or not.
VisitedBelowCurrent ==
  \A a \in arena.active \ rest :
    Intersects(a, req) => a.offset + a.size <= search.current

VisitedBeforeRest ==
  \A a \in arena.active \ rest, b \in rest : a.offset <= b.offset

BestIsFree ==
  search.best # kOffsetNotAssigned =>
    \A a \in arena.active :
      Intersects(a, req) => \/ search.best + req.size <= a.offset
                            \/ a.offset + a.size <= search.best

BestIsAligned ==
  search.best # kOffsetNotAssigned => search.best % Alignment = 0

RequestOK ==
  /\ req \in Alloc
  /\ req.size > 0
  /\ segment[1] <= req.first

SearchInv ==
  status = "search" =>
    /\ RequestOK
    /\ search.ok => /\ VisitedBelowCurrent
                    /\ VisitedBeforeRest
                    /\ BestIsFree
                    /\ BestIsAligned
                    /\ search.fit = 0 => search.best # kOffsetNotAssigned

RestOnlyInSearch == status # "search" => rest = {}

IInv ==
  /\ TypeOK
  /\ PlanSound
  /\ PlanDisjoint
  /\ AllocsAligned
  /\ CommittedFits
  /\ SegmentOrdered
  /\ PlannedActive
  /\ SearchInv
  /\ RestOnlyInSearch

-----------------------------------------------------------------------------
(***************************************************************************)
(* Facts about the arithmetic and the search.                              *)
(***************************************************************************)

\* CheckedAlignTo rounds up: it returns nothing below its argument, and a
\* size_t whenever it reports no overflow.
LEMMA AlignToRoundsUp ==
  ASSUME NEW x \in Size
  PROVE  /\ AlignTo(x) \in Nat
         /\ AlignTo(x) >= x
         /\ AlignFits(x) => AlignTo(x) \in Size
<1>1. x % Alignment \in 0 .. Alignment - 1
  BY AlignmentAssumption DEF Size
<1> QED
  BY <1>1, AlignmentAssumption, SizeMaxAssumption DEF AlignTo, AlignFits, AddFits, Size

\* A product leaves no remainder on division by a factor.
LEMMA MultipleHasNoRemainder ==
  ASSUME NEW a \in Nat \ {0}, NEW k \in Nat
  PROVE  (a * k) % a = 0
<1> DEFINE r == (a * k) % a
           q == (a * k) \div a
<1>1. a * k \in Nat
  OBVIOUS
<1>2. r \in 0 .. a - 1 /\ q \in Int /\ a * k = a * q + r
  BY <1>1
<1>3. k - q \in Int /\ a * (k - q) = r
  BY <1>2
<1>4. k - q >= 1 => a * (k - q) >= a
  BY <1>3
<1>5. k - q <= -1 => a * (k - q) < 0
  BY <1>3
<1>6. k - q = 0
  BY <1>2, <1>3, <1>4, <1>5
<1> QED BY <1>3, <1>6

\* CheckedAlignTo returns a multiple of the alignment.
LEMMA AlignToAligns ==
  ASSUME NEW x \in Size
  PROVE  AlignTo(x) % Alignment = 0
<1> DEFINE r == x % Alignment
           q == x \div Alignment
<1>1. r \in 0 .. Alignment - 1 /\ q \in Nat /\ x = Alignment * q + r
  BY AlignmentAssumption DEF Size
<1>2. CASE r = 0
  BY <1>2 DEF AlignTo
<1>3. CASE r # 0
  <2>1. AlignTo(x) = Alignment * (q + 1)
    BY <1>1, <1>3, AlignmentAssumption DEF AlignTo
  <2>2. q + 1 \in Nat
    BY <1>1
  <2>3. (Alignment * (q + 1)) % Alignment = 0
    <3> HIDE DEF q
    <3> QED BY <2>2, AlignmentAssumption, MultipleHasNoRemainder
  <2> QED BY <2>1, <2>3
<1> QED BY <1>2, <1>3

SearchState == [best : Size, fit : Size, current : Size, ok : BOOLEAN]

\* What one turn of the loop does: an alloc that is never needed together
\* with the request is skipped; otherwise current moves past it, and an
\* offset is taken only if the block fits below it.
LEMMA SearchVisitSound ==
  ASSUME NEW s \in SearchState, NEW a \in Alloc, NEW r \in Alloc,
         r.size > 0, s.ok, s.fit # 0,
         NEW v, v = SearchVisit(s, a, r)
  PROVE  /\ v \in SearchState
         /\ ~Intersects(a, r) => v = s
         /\ v.ok /\ Intersects(a, r) =>
              /\ v.current >= s.current
              /\ v.current >= a.offset + a.size
              /\ \/ v.best = s.best /\ v.fit = s.fit
                 \/ /\ v.best # kOffsetNotAssigned
                    /\ v.best >= s.current
                    /\ v.best + r.size <= a.offset
                    /\ v.best % Alignment = 0
<1>1. CASE ~Intersects(a, r)
  BY <1>1 DEF SearchVisit
<1>2. CASE Intersects(a, r)
  <2> DEFINE al == AlignTo(s.current)
  <2>1. v = SearchGap(s, a, r.size)
    BY <1>2 DEF SearchVisit
  <2>2. /\ s.current \in Size /\ s.best \in Size /\ s.fit \in Size
        /\ a.offset \in Size /\ a.size \in Size /\ r.size \in Size
    BY DEF SearchState, Alloc
  <2>3. /\ al \in Nat
        /\ al >= s.current
        /\ AlignFits(s.current) => al \in Size
        /\ al % Alignment = 0
    BY <2>2, AlignToRoundsUp, AlignToAligns
  <2> HIDE DEF al
  <2>4. CASE ~(AlignFits(s.current) /\ AddFits(al, r.size) /\ AddFits(a.offset, a.size))
    <3>1. v = [s EXCEPT !.ok = FALSE]
      BY <2>1, <2>4 DEF SearchGap, al
    <3>2. v \in SearchState /\ ~v.ok
      BY <3>1 DEF SearchState
    <3> QED BY <1>2, <3>2
  <2>5. CASE AlignFits(s.current) /\ AddFits(al, r.size) /\ AddFits(a.offset, a.size)
    <3> DEFINE taken == al + r.size <= a.offset /\ a.offset - al < s.fit
               end == a.offset + a.size
    <3>1. v = [best |-> IF taken THEN al ELSE s.best,
               fit |-> IF taken THEN a.offset - s.current ELSE s.fit,
               current |-> IF s.current < end THEN end ELSE s.current,
               ok |-> TRUE]
      BY <2>1, <2>5 DEF SearchGap, al
    <3>2. al \in Size /\ end \in Size
      BY <2>2, <2>3, <2>5, SizeMaxAssumption DEF AddFits, Size
    <3>3. taken => al # kOffsetNotAssigned /\ a.offset - s.current \in Size
      BY <2>2, <2>3, <3>2, SizeMaxAssumption DEF kOffsetNotAssigned, Size
    <3>4. v.current >= s.current /\ v.current >= end /\ v.current \in Size
      BY <3>1, <3>2, <2>2 DEF Size
    <3>5. v \in SearchState
      BY <3>1, <3>2, <3>3, <2>2 DEF SearchState
    <3>6. CASE taken
      BY <1>2, <3>1, <3>3, <3>4, <3>5, <3>6, <2>3
    <3>7. CASE ~taken
      BY <1>2, <3>1, <3>4, <3>5, <3>7
    <3> QED BY <3>6, <3>7
  <2> QED BY <2>4, <2>5
<1> QED BY <1>1, <1>2

\* After the loop the offset clear of every alloc is found: the best one,
\* or the end of what the loop has seen.
LEMMA ChosenOffsetFree ==
  ASSUME IInv, status = "search", SearchEnded, SearchSucceeds(search, req.size)
  PROVE  /\ ChosenOffset(search) \in Size
         /\ ChosenOffset(search) + req.size \in Size
         /\ ChosenOffset(search) % Alignment = 0
         /\ \A a \in arena.active :
              Intersects(a, req) =>
                \/ ChosenOffset(search) + req.size <= a.offset
                \/ a.offset + a.size <= ChosenOffset(search)
<1>1. /\ search \in SearchState
      /\ arena.active \subseteq Alloc
      /\ req \in Alloc
      /\ search.ok
      /\ VisitedBelowCurrent /\ BestIsFree /\ BestIsAligned
      /\ search.fit = 0 => search.best # kOffsetNotAssigned
  BY DEF IInv, TypeOK, SearchInv, RequestOK, SearchSucceeds, SearchState
<1>2. /\ search.current \in Size /\ search.best \in Size /\ req.size \in Size
  BY <1>1 DEF SearchState, Alloc
<1>3. CASE search.best # kOffsetNotAssigned
  BY <1>1, <1>2, <1>3, SizeMaxAssumption
    DEF ChosenOffset, SearchSucceeds, AddFits, BestIsFree, BestIsAligned, Size
<1>4. CASE search.best = kOffsetNotAssigned
  <2>1. rest = {}
    BY <1>1, <1>4 DEF SearchEnded
  <2>2. /\ AlignTo(search.current) \in Size
        /\ AlignTo(search.current) >= search.current
        /\ AlignTo(search.current) % Alignment = 0
        /\ ChosenOffset(search) = AlignTo(search.current)
    BY <1>2, <1>4, AlignToRoundsUp, AlignToAligns DEF SearchSucceeds, ChosenOffset
  <2>3. \A a \in arena.active : Intersects(a, req) => a.offset + a.size <= search.current
    BY <1>1, <2>1 DEF VisitedBelowCurrent
  <2>4. ChosenOffset(search) + req.size \in Size
    BY <1>2, <2>2, SizeMaxAssumption DEF SearchSucceeds, AddFits, Size
  <2>5. \A a \in arena.active : a.offset \in Nat /\ a.size \in Nat
    BY <1>1 DEF Alloc, Size
  <2> QED BY <1>2, <2>2, <2>3, <2>4, <2>5 DEF Size
<1> QED BY <1>3, <1>4

-----------------------------------------------------------------------------
(***************************************************************************)
(* The invariant is inductive.                                             *)
(***************************************************************************)

\* The invariant holds in the initial state.
LEMMA InitIInv == Init => IInv
<1> SUFFICES ASSUME Init PROVE IInv
  OBVIOUS
<1> USE SizeMaxAssumption, AlignmentAssumption, NotAssignedAssumption DEF Init
<1>1. TypeOK
  BY DEF TypeOK, EmptyArena, NoSegment, SearchStart, kOffsetNotAssigned, Size, Status,
         kLastActiveNodeUndefined, NoRequest
<1>2. PlanSound /\ PlanDisjoint
  BY DEF PlanSound, ActiveCoversPlan, HighWaterMarkCoversPlan, PlanDisjoint, NoAlloc, EmptyArena
<1>3. AllocsAligned
  BY DEF AllocsAligned, NoAlloc
<1>4. CommittedFits /\ SegmentOrdered /\ PlannedActive /\ SearchInv /\ RestOnlyInSearch
  BY DEF CommittedFits, SegmentOrdered, PlannedActive, SearchInv, RestOnlyInSearch, EmptyArena
<1> QED BY <1>1, <1>2, <1>3, <1>4 DEF IInv

\* The parts of the invariant that speak of a running search only.
LEMMA NoSearch ==
  ASSUME status' # "search", rest' = {}
  PROVE  SearchInv' /\ RestOnlyInSearch'
BY DEF SearchInv, RestOnlyInSearch

\* Types of the fields the steps below compute with.
LEMMA FieldTypes ==
  ASSUME TypeOK
  PROVE  /\ \A a \in Alloc : /\ a.offset \in Size /\ a.size \in Size
                             /\ a.first \in Nodes
                             /\ a.last \in Nodes \union {kNodeNotAssigned}
         /\ \A t \in Tensors : /\ allocs[t] \in Alloc \union {NoAlloc}
                               /\ allocs[t].offset \in Size /\ allocs[t].size \in Size
                               /\ allocs[t].first \in Int /\ allocs[t].last \in Int
         /\ arena.active \subseteq Alloc
         /\ arena.hwm \in Size /\ arena.bufsize \in Size
         /\ arena.committed \in BOOLEAN
         /\ lastActive \in Nat
<1>1. \A a \in Alloc \union {NoAlloc} : /\ a.offset \in Size /\ a.size \in Size
                                        /\ a.first \in Int /\ a.last \in Int
  BY NumNodesAssumption, NotAssignedAssumption, SizeMaxAssumption DEF Alloc, NoAlloc, Nodes, Size
<1>2. \A t \in Tensors : allocs[t] \in Alloc \union {NoAlloc}
  BY DEF TypeOK
<1>3. lastActive \in Nat
  BY NumNodesAssumption, NotAssignedAssumption DEF TypeOK, Nodes, kLastActiveNodeUndefined
<1>4. \A a \in Alloc : /\ a.offset \in Size /\ a.size \in Size /\ a.first \in Nodes
                       /\ a.last \in Nodes \union {kNodeNotAssigned}
  BY DEF Alloc
<1>5. /\ arena.active \subseteq Alloc
      /\ arena.hwm \in Size /\ arena.bufsize \in Size
      /\ arena.committed \in BOOLEAN
  BY DEF TypeOK
<1> QED BY <1>1, <1>2, <1>3, <1>4, <1>5

\* ClearPlan leaves an empty plan.
LEMMA ResetAllocationsKeeps ==
  ASSUME IInv, ResetAllocations PROVE IInv'
<1> USE SizeMaxAssumption, AlignmentAssumption DEF ResetAllocations
<1>1. rest = {} /\ status' = "idle" /\ UNCHANGED <<segment, req, rest, search>>
  BY DEF IInv, RestOnlyInSearch
<1>2. TypeOK'
  <2>0. 0 \in Size
    BY DEF Size
  <2>1. arena' \in [active : SUBSET Alloc, hwm : Size, committed : BOOLEAN, bufsize : Size]
    BY <2>0 DEF IInv, TypeOK, ClearPlan
  <2>2. allocs' \in [Tensors -> Alloc \union {NoAlloc}]
    OBVIOUS
  <2> QED BY <1>1, <2>1, <2>2 DEF IInv, TypeOK, Status
<1>3. PlanSound' /\ PlanDisjoint'
  BY DEF PlanSound, ActiveCoversPlan, HighWaterMarkCoversPlan, PlanDisjoint, NoAlloc, ClearPlan,
         IInv, TypeOK
<1>4. AllocsAligned'
  BY DEF AllocsAligned, NoAlloc
<1>5. CommittedFits' /\ SegmentOrdered' /\ PlannedActive'
  BY <1>1 DEF CommittedFits, SegmentOrdered, PlannedActive, ClearPlan, IInv, TypeOK
<1>6. SearchInv' /\ RestOnlyInSearch'
  BY <1>1, NoSearch
<1> QED BY <1>2, <1>3, <1>4, <1>5, <1>6 DEF IInv

\* What stays planned is active, or ended before node: either the active
\* allocs are recalculated, or the segments so far ended at or before node.
LEMMA ResetAllocationsAfterKeeps ==
  ASSUME IInv, NEW node \in Nodes, ResetAllocationsAfter(node) PROVE IInv'
<1> USE SizeMaxAssumption, AlignmentAssumption, NumNodesAssumption DEF ResetAllocationsAfter
<1>1. /\ rest = {} /\ status = "idle" /\ status' = "idle" /\ TypeOK
      /\ UNCHANGED <<segment, status, req, rest, search>>
  BY DEF IInv, RestOnlyInSearch
<1>2. \A t \in Tensors :
        /\ allocs'[t] \in {allocs[t], NoAlloc}
        /\ allocs'[t].size > 0 => allocs'[t] = allocs[t] /\ ~(allocs[t].first > node)
  BY <1>1, FieldTypes DEF NoAlloc
<1>3. /\ arena'.hwm = arena.hwm /\ arena'.committed = arena.committed
      /\ arena'.bufsize = arena.bufsize
  BY <1>1 DEF CalculateActiveAllocs, PurgeAfter, TypeOK
<1>4. /\ lastActive > node =>
           arena'.active = {a \in {allocs'[t] : t \in Tensors} : a.first <= node /\ a.last >= node}
      /\ ~(lastActive > node) => arena'.active = {a \in arena.active : ~(a.first > node)}
  BY <1>1 DEF CalculateActiveAllocs, PurgeAfter, TypeOK
<1>5. TypeOK'
  <2>1. allocs' \in [Tensors -> Alloc \union {NoAlloc}]
    BY <1>1, <1>2, FieldTypes
  <2>2. arena'.active \subseteq Alloc
    <3>1. CASE lastActive > node
      <4>1. \A t \in Tensors : allocs'[t].last >= node => allocs'[t] \in Alloc
        BY <2>1 DEF NoAlloc, Nodes
      <4> QED BY <3>1, <4>1, <1>4
    <3>2. CASE ~(lastActive > node)
      BY <3>2, <1>1, <1>4, FieldTypes
    <3> QED BY <3>1, <3>2
  <2>3. arena' \in [active : SUBSET Alloc, hwm : Size, committed : BOOLEAN, bufsize : Size]
    BY <2>2, <1>1, <1>3 DEF TypeOK, CalculateActiveAllocs, PurgeAfter
  <2> QED BY <2>1, <2>3, <1>1 DEF TypeOK, kLastActiveNodeUndefined
<1>6. PlanSound'
  <2>1. ASSUME NEW t \in Tensors, allocs'[t].size > 0
        PROVE  allocs'[t] \in arena'.active \/ allocs'[t].last < node
    <3>1. /\ allocs'[t] = allocs[t] /\ allocs[t].first <= node
          /\ allocs[t].first \in Int /\ allocs[t].last \in Int /\ lastActive \in Nat
          /\ node \in Int
      BY <1>1, <1>2, <2>1, FieldTypes DEF Nodes
    <3>2. CASE lastActive > node
      BY <3>1, <3>2, <1>4
    <3>3. CASE ~(lastActive > node)
      <4>1. allocs[t] \in arena.active \/ allocs[t].last < lastActive
        BY <1>1, <2>1, <3>1 DEF IInv, PlanSound, ActiveCoversPlan, Floor
      <4> QED BY <3>1, <3>3, <4>1, <1>4
    <3> QED BY <3>2, <3>3
  <2>2. HighWaterMarkCoversPlan'
    <3> SUFFICES ASSUME NEW t \in Tensors
                 PROVE  allocs'[t].offset + allocs'[t].size <= arena'.hwm
      BY DEF HighWaterMarkCoversPlan
    <3>1. allocs[t].offset + allocs[t].size <= arena.hwm /\ arena.hwm \in Size
      BY <1>1, FieldTypes DEF IInv, PlanSound, HighWaterMarkCoversPlan
    <3> QED BY <3>1, <1>2, <1>3 DEF NoAlloc, Size
  <2> QED BY <1>1, <2>1, <2>2 DEF PlanSound, ActiveCoversPlan, Floor
<1>7. PlanDisjoint'
  BY <1>1, <1>2 DEF PlanDisjoint, IInv
<1>8. AllocsAligned'
  BY <1>1, <1>2 DEF AllocsAligned, IInv, NoAlloc
<1>9. CommittedFits' /\ SegmentOrdered' /\ PlannedActive'
  BY <1>1, <1>3 DEF IInv, CommittedFits, SegmentOrdered, PlannedActive
<1>10. SearchInv' /\ RestOnlyInSearch'
  BY <1>1, NoSearch
<1> QED BY <1>5, <1>6, <1>7, <1>8, <1>9, <1>10 DEF IInv

\* A segment that goes on forgets only blocks that ended before it; one that
\* goes back starts from an empty plan.
LEMMA BeginSegmentKeeps ==
  ASSUME IInv, NEW first \in Nodes, NEW last \in Nodes, BeginSegment(first, last) PROVE IInv'
<1> USE NumNodesAssumption DEF BeginSegment
<1>1. /\ rest = {} /\ status = "idle" /\ status' = "calculate" /\ TypeOK
      /\ UNCHANGED <<allocs, req, rest, search>>
      /\ segment' = <<first, last>> /\ first <= last
  BY DEF IInv, RestOnlyInSearch
<1>2. /\ arena'.hwm = arena.hwm
      /\ first < lastActive => arena'.active = {} /\ lastActive' = first
      /\ ~(first < lastActive) =>
           arena'.active = {a \in arena.active : ~(a.last < first)} /\ lastActive' = lastActive
  BY <1>1 DEF ResetAllocs, PurgeActiveAllocs, TypeOK
<1>3. TypeOK'
  <2>1. arena' \in [active : SUBSET Alloc, hwm : Size, committed : BOOLEAN, bufsize : Size]
    BY <1>1 DEF ResetAllocs, PurgeActiveAllocs, TypeOK
  <2> QED BY <1>1, <1>2, <2>1 DEF TypeOK, Status
<1>4. PlanSound'
  <2>1. ASSUME NEW t \in Tensors, allocs'[t].size > 0
        PROVE  allocs'[t] \in arena'.active \/ allocs'[t].last < first
    <3>1. /\ allocs[t].last \in Int /\ lastActive \in Nat /\ first \in Int
          /\ allocs[t].size \in Size
      BY <1>1, FieldTypes DEF Nodes
    <3>2. ~(first < lastActive)
      BY <1>1, <2>1, <3>1 DEF Size
    <3>3. allocs[t] \in arena.active \/ allocs[t].last < lastActive
      BY <1>1, <2>1 DEF IInv, PlanSound, ActiveCoversPlan, Floor
    <3> QED BY <1>1, <1>2, <3>1, <3>2, <3>3
  <2>2. HighWaterMarkCoversPlan'
    BY <1>1, <1>2 DEF IInv, PlanSound, HighWaterMarkCoversPlan
  <2>3. Floor' = first
    BY <1>1 DEF Floor
  <2> QED BY <2>1, <2>2, <2>3 DEF PlanSound, ActiveCoversPlan
<1>5. PlanDisjoint' /\ AllocsAligned'
  BY <1>1 DEF IInv, PlanDisjoint, AllocsAligned
<1>6. CommittedFits' /\ SegmentOrdered' /\ PlannedActive'
  BY <1>1 DEF CommittedFits, SegmentOrdered, PlannedActive
<1>7. SearchInv' /\ RestOnlyInSearch'
  BY <1>1, NoSearch
<1> QED BY <1>3, <1>4, <1>5, <1>6, <1>7 DEF IInv

\* A segment without work tells the arena nothing, and may do so: the allocs
\* it leaves active only keep later blocks further away.
LEMMA EmptySegmentKeeps ==
  ASSUME IInv, NEW first \in Nodes, NEW last \in Nodes, EmptySegment(first, last) PROVE IInv'
<1> USE NumNodesAssumption DEF EmptySegment
<1>1. /\ rest = {} /\ status = "idle" /\ status' = "planned" /\ TypeOK
      /\ UNCHANGED <<arena, allocs, req, rest, search>>
      /\ segment' = <<first, last>> /\ first <= last /\ lastActive' = last
  BY DEF IInv, RestOnlyInSearch
<1>2. TypeOK'
  BY <1>1 DEF TypeOK, Status
<1>3. PlanSound'
  <2>1. ASSUME NEW t \in Tensors, allocs'[t].size > 0
        PROVE  allocs'[t] \in arena'.active \/ allocs'[t].last < last
    <3>1. /\ allocs[t].last \in Int /\ lastActive \in Nat /\ first \in Int /\ last \in Int
          /\ allocs[t].size \in Size
      BY <1>1, FieldTypes DEF Nodes
    <3>2. ~(first < lastActive)
      BY <1>1, <2>1, <3>1 DEF Size
    <3>3. allocs[t] \in arena.active \/ allocs[t].last < lastActive
      BY <1>1, <2>1 DEF IInv, PlanSound, ActiveCoversPlan, Floor
    <3> QED BY <1>1, <3>1, <3>2, <3>3
  <2>2. HighWaterMarkCoversPlan'
    BY <1>1 DEF IInv, PlanSound, HighWaterMarkCoversPlan
  <2>3. Floor' = last
    BY <1>1 DEF Floor
  <2> QED BY <2>1, <2>2, <2>3 DEF PlanSound, ActiveCoversPlan
<1>4. PlanDisjoint' /\ AllocsAligned'
  BY <1>1 DEF IInv, PlanDisjoint, AllocsAligned
<1>5. CommittedFits' /\ SegmentOrdered' /\ PlannedActive'
  BY <1>1 DEF CommittedFits, SegmentOrdered, PlannedActive
<1>6. SearchInv' /\ RestOnlyInSearch'
  BY <1>1, NoSearch
<1> QED BY <1>2, <1>3, <1>4, <1>5, <1>6 DEF IInv

\* A search starts with every active alloc still to visit.
LEMMA BeginAllocateKeeps ==
  ASSUME IInv, NEW r \in Requests, BeginAllocate(r) PROVE IInv'
<1> USE SizeMaxAssumption, SizesAssumption DEF BeginAllocate
<1>1. /\ TypeOK /\ status = "calculate" /\ rest = {}
      /\ UNCHANGED <<arena, lastActive, segment>>
      /\ segment \in Nodes \X Nodes /\ segment[1] <= segment[2]
  BY DEF IInv, RestOnlyInSearch, SegmentOrdered
<1>2. r \in Alloc /\ r.offset = 0 /\ r.size \in Nat
  <2>1. 0 \in Size
    BY DEF Size
  <2>2. r \in Alloc
    BY <2>1 DEF Requests, Alloc
  <2> QED BY <2>2 DEF Requests, Alloc, Size
<1>3. /\ status' = "search" /\ req' = r /\ rest' = arena.active /\ search' = SearchStart
      /\ UNCHANGED <<arena, lastActive, segment, allocs>>
  OBVIOUS
<1>4. TypeOK'
  BY <1>1, <1>2, <1>3 DEF TypeOK, SearchStart, kOffsetNotAssigned, Size, Status
<1>5. PlanSound' /\ PlanDisjoint' /\ AllocsAligned'
  BY <1>1, <1>3 DEF IInv, PlanSound, ActiveCoversPlan, Floor, HighWaterMarkCoversPlan,
                    PlanDisjoint, AllocsAligned
<1>6. CommittedFits' /\ SegmentOrdered' /\ PlannedActive' /\ RestOnlyInSearch'
  BY <1>1, <1>3 DEF IInv, CommittedFits, SegmentOrdered, PlannedActive, RestOnlyInSearch
<1>7. SearchInv'
  <2>1. segment[1] <= r.first
    BY <1>1, <1>2 DEF Alloc, Nodes
  <2>2. RequestOK'
    BY <1>1, <1>2, <1>3, <2>1 DEF RequestOK
  <2>3. VisitedBelowCurrent' /\ VisitedBeforeRest'
    BY <1>3 DEF VisitedBelowCurrent, VisitedBeforeRest
  <2>4. /\ BestIsFree' /\ BestIsAligned'
        /\ search'.fit # 0
    BY <1>3 DEF BestIsFree, BestIsAligned, SearchStart, kOffsetNotAssigned
  <2> QED BY <2>2, <2>3, <2>4 DEF SearchInv
<1> QED BY <1>4, <1>5, <1>6, <1>7 DEF IInv

\* One turn of the loop keeps the best offset clear of every alloc: the ones
\* visited end below it, the ones to come start above the gap.
LEMMA SearchStepKeeps ==
  ASSUME IInv, SearchStep PROVE IInv'
<1>1. PICK a \in rest : /\ NextInOrder(a)
                        /\ search' = SearchVisit(search, a, req)
                        /\ rest' = rest \ {a}
  BY DEF SearchStep
<1>2. /\ TypeOK /\ status = "search"
      /\ UNCHANGED <<arena, allocs, lastActive, segment, status, req>>
      /\ search.ok /\ search.fit # 0
  BY DEF IInv, SearchStep, SearchEnded
<1>3. /\ RequestOK /\ VisitedBelowCurrent /\ VisitedBeforeRest /\ BestIsFree /\ BestIsAligned
      /\ req \in Alloc /\ req.size > 0
  BY <1>2 DEF IInv, SearchInv, RequestOK
<1>4. /\ search \in SearchState /\ arena.active \subseteq Alloc /\ rest \subseteq arena.active
      /\ a \in Alloc /\ a \in arena.active
  BY <1>2 DEF TypeOK, SearchState
<1>5. /\ search' \in SearchState
      /\ ~Intersects(a, req) => search' = search
      /\ search'.ok /\ Intersects(a, req) =>
           /\ search'.current >= search.current
           /\ search'.current >= a.offset + a.size
           /\ \/ search'.best = search.best /\ search'.fit = search.fit
              \/ /\ search'.best # kOffsetNotAssigned
                 /\ search'.best >= search.current
                 /\ search'.best + req.size <= a.offset
                 /\ search'.best % Alignment = 0
  BY <1>1, <1>2, <1>3, <1>4, SearchVisitSound
<1>6. TypeOK'
  BY <1>1, <1>2, <1>5 DEF TypeOK, SearchState
<1>7. PlanSound' /\ PlanDisjoint' /\ AllocsAligned'
  BY <1>2 DEF IInv, PlanSound, ActiveCoversPlan, Floor, HighWaterMarkCoversPlan,
              PlanDisjoint, AllocsAligned
<1>8. CommittedFits' /\ SegmentOrdered' /\ PlannedActive' /\ RestOnlyInSearch'
  BY <1>2 DEF IInv, CommittedFits, SegmentOrdered, PlannedActive, RestOnlyInSearch
<1>9. SearchInv'
  <2> SUFFICES ASSUME search'.ok
               PROVE  /\ VisitedBelowCurrent' /\ VisitedBeforeRest'
                      /\ BestIsFree' /\ BestIsAligned'
                      /\ search'.fit = 0 => search'.best # kOffsetNotAssigned
    BY <1>2, <1>3 DEF SearchInv, RequestOK
  <2>1. \A b \in Alloc : b.offset \in Nat /\ b.size \in Nat
    BY DEF Alloc, Size
  <2>2. /\ search.current \in Nat /\ search'.current \in Nat
        /\ search.best \in Nat /\ search'.best \in Nat /\ req.size \in Nat
    BY <1>3, <1>4, <1>5, <2>1 DEF SearchState, Size
  <2>3. arena'.active \ rest' = (arena.active \ rest) \union {a}
    BY <1>1, <1>2, <1>4
  <2>4. \A b \in rest : a.offset <= b.offset
    BY <1>1 DEF NextInOrder
  <2>5. VisitedBeforeRest'
    BY <1>1, <1>2, <1>3, <2>3, <2>4 DEF VisitedBeforeRest
  <2>6. CASE ~Intersects(a, req)
    <3>1. search' = search
      BY <1>5, <2>6
    <3>2. VisitedBelowCurrent'
      BY <1>2, <1>3, <2>3, <2>6, <3>1 DEF VisitedBelowCurrent
    <3>3. BestIsFree' /\ BestIsAligned' /\ search'.fit # 0
      BY <1>2, <1>3, <3>1 DEF BestIsFree, BestIsAligned
    <3> QED BY <2>5, <3>2, <3>3
  <2>7. CASE Intersects(a, req)
    <3>1. VisitedBelowCurrent'
      <4> SUFFICES ASSUME NEW b \in (arena.active \ rest) \union {a}, Intersects(b, req)
                   PROVE  b.offset + b.size <= search'.current
        BY <1>2, <2>3 DEF VisitedBelowCurrent
      <4>1. CASE b = a
        BY <1>5, <2>7, <4>1
      <4>2. CASE b # a
        <5>1. b.offset + b.size <= search.current /\ search.current <= search'.current
          BY <1>3, <1>5, <2>2, <2>7, <4>2 DEF VisitedBelowCurrent
        <5> QED BY <1>4, <2>1, <2>2, <5>1
      <4> QED BY <4>1, <4>2
    <3>2. CASE search'.best = search.best /\ search'.fit = search.fit
      <4>1. BestIsFree' /\ BestIsAligned' /\ search'.fit # 0
        BY <1>2, <1>3, <3>2 DEF BestIsFree, BestIsAligned
      <4> QED BY <2>5, <3>1, <4>1
    <3>3. CASE ~(search'.best = search.best /\ search'.fit = search.fit)
      <4>1. /\ search'.best # kOffsetNotAssigned
            /\ search'.best >= search.current
            /\ search'.best + req.size <= a.offset
            /\ search'.best % Alignment = 0
        BY <1>5, <2>7, <3>3
      <4>2. BestIsFree'
        <5> SUFFICES ASSUME NEW b \in arena.active, Intersects(b, req)
                     PROVE  \/ search'.best + req.size <= b.offset
                            \/ b.offset + b.size <= search'.best
          BY <1>2 DEF BestIsFree
        <5>1. CASE b \in rest
          BY <5>1, <1>4, <2>1, <2>2, <2>4, <4>1
        <5>2. CASE b \notin rest
          <6>1. b.offset + b.size <= search.current
            BY <1>3, <5>2 DEF VisitedBelowCurrent
          <6> QED BY <6>1, <1>4, <2>1, <2>2, <4>1
        <5> QED BY <5>1, <5>2
      <4>3. BestIsAligned'
        BY <4>1 DEF BestIsAligned
      <4> QED BY <2>5, <3>1, <4>1, <4>2, <4>3
    <3> QED BY <3>2, <3>3
  <2> QED BY <2>6, <2>7
<1> QED BY <1>6, <1>7, <1>8, <1>9 DEF IInv

\* The new block meets no block of the plan: those that are active the
\* search has avoided, the others ended before the segment began.
LEMMA NewBlockApart ==
  ASSUME IInv, AllocateReturns
  PROVE  \A u \in Tensors : /\ allocs[u].size > 0
                            /\ Intersects(Found, allocs[u])
                            => Disjoint(Found, allocs[u])
<1> SUFFICES ASSUME NEW u \in Tensors, allocs[u].size > 0, Intersects(Found, allocs[u])
             PROVE  Disjoint(Found, allocs[u])
  OBVIOUS
<1>1. /\ TypeOK /\ status = "search" /\ SearchEnded /\ SearchSucceeds(search, req.size)
      /\ req \in Alloc /\ segment[1] <= req.first
      /\ segment \in Nodes \X Nodes
  BY DEF IInv, AllocateReturns, SearchInv, RequestOK, SegmentOrdered
<1>2. /\ Found.first = req.first /\ Found.last = req.last /\ Found.size = req.size
      /\ Found.offset = ChosenOffset(search)
      /\ req.first \in Int /\ req.last \in Int /\ segment[1] \in Int
  BY <1>1, NumNodesAssumption, NotAssignedAssumption DEF Found, Alloc, Nodes
<1>3. allocs[u].first \in Int /\ allocs[u].last \in Int
  BY <1>1, FieldTypes
<1>4. allocs[u] \in arena.active
  <2>1. allocs[u] \in arena.active \/ allocs[u].last < segment[1]
    BY <1>1 DEF IInv, PlanSound, ActiveCoversPlan, Floor
  <2>2. ~(allocs[u].last < req.first)
    BY <1>2, <1>3 DEF Intersects
  <2> QED BY <1>1, <1>2, <1>3, <2>1, <2>2
<1>5. Intersects(allocs[u], req)
  BY <1>2, <1>3 DEF Intersects
<1>6. \/ ChosenOffset(search) + req.size <= allocs[u].offset
      \/ allocs[u].offset + allocs[u].size <= ChosenOffset(search)
  BY <1>1, <1>4, <1>5, ChosenOffsetFree
<1> QED BY <1>2, <1>6 DEF Disjoint

\* The block that Allocate returns joins the plan and the active allocs.
LEMMA AllocateReturnsKeeps ==
  ASSUME IInv, AllocateReturns PROVE IInv'
<1> USE SizeMaxAssumption, AlignmentAssumption DEF AllocateReturns
<1>1. /\ TypeOK /\ status = "search" /\ status' = "calculate"
      /\ SearchEnded /\ SearchSucceeds(search, req.size)
      /\ req \in Alloc /\ req.tensor \in Tensors
      /\ UNCHANGED <<lastActive, segment>>
      /\ rest' = {} /\ search' = SearchStart /\ req' = NoRequest
  BY DEF IInv, SearchInv, RequestOK, Alloc
<1>2. /\ ChosenOffset(search) \in Size
      /\ ChosenOffset(search) + req.size \in Size
      /\ ChosenOffset(search) % Alignment = 0
  BY <1>1, ChosenOffsetFree
<1>3. /\ Found \in Alloc /\ Found.offset = ChosenOffset(search) /\ Found.size = req.size
      /\ Found.offset + Found.size \in Size
  BY <1>1, <1>2 DEF Found, Alloc
<1>4. \A t \in Tensors : allocs'[t] = IF t = req.tensor THEN Found ELSE allocs[t]
  BY <1>1 DEF TypeOK
<1>5. /\ arena'.active = arena.active \union {Found}
      /\ arena'.hwm = IF arena.hwm < Found.offset + Found.size
                      THEN Found.offset + Found.size ELSE arena.hwm
      /\ arena' \in [active : SUBSET Alloc, hwm : Size, committed : BOOLEAN, bufsize : Size]
  <2> HIDE DEF Found
  <2>1. arena \in [active : SUBSET Alloc, hwm : Size, committed : BOOLEAN, bufsize : Size]
    BY <1>1 DEF TypeOK
  <2> QED BY <1>3, <2>1 DEF Insert
<1> HIDE DEF Found
<1>6. TypeOK'
  <2>1. allocs' \in [Tensors -> Alloc \union {NoAlloc}]
    BY <1>1, <1>3 DEF TypeOK
  <2>2. search' \in [best : Size, fit : Size, current : Size, ok : BOOLEAN]
    BY <1>1 DEF SearchStart, kOffsetNotAssigned, Size
  <2> QED BY <1>1, <1>5, <2>1, <2>2 DEF TypeOK, Status
<1>7. PlanSound'
  <2>1. ActiveCoversPlan'
    <3> SUFFICES ASSUME NEW t \in Tensors, allocs'[t].size > 0
                 PROVE  allocs'[t] \in arena'.active \/ allocs'[t].last < segment[1]
      BY <1>1 DEF ActiveCoversPlan, Floor
    <3>1. CASE t = req.tensor
      BY <3>1, <1>4, <1>5
    <3>2. CASE t # req.tensor
      BY <3>2, <1>1, <1>4, <1>5 DEF IInv, PlanSound, ActiveCoversPlan, Floor
    <3> QED BY <3>1, <3>2
  <2>2. HighWaterMarkCoversPlan'
    <3> SUFFICES ASSUME NEW t \in Tensors
                 PROVE  allocs'[t].offset + allocs'[t].size <= arena'.hwm
      BY DEF HighWaterMarkCoversPlan
    <3>1. arena.hwm \in Nat /\ arena'.hwm \in Nat /\ arena'.hwm >= arena.hwm
          /\ arena'.hwm >= Found.offset + Found.size
      BY <1>1, <1>3, <1>5, FieldTypes DEF Size
    <3>2. /\ allocs[t].offset + allocs[t].size <= arena.hwm
          /\ allocs[t].offset \in Nat /\ allocs[t].size \in Nat
      BY <1>1, FieldTypes DEF IInv, PlanSound, HighWaterMarkCoversPlan, Size
    <3>3. CASE t = req.tensor
      BY <3>1, <3>3, <1>4
    <3>4. CASE t # req.tensor
      BY <3>1, <3>2, <3>4, <1>4
    <3> QED BY <3>3, <3>4
  <2> QED BY <2>1, <2>2 DEF PlanSound
<1>8. PlanDisjoint'
  <2> SUFFICES ASSUME NEW t \in Tensors, NEW u \in Tensors, t # u,
                      allocs'[t].size > 0, allocs'[u].size > 0,
                      Intersects(allocs'[t], allocs'[u])
               PROVE  Disjoint(allocs'[t], allocs'[u])
    BY DEF PlanDisjoint
  <2>1. CASE t = req.tensor
    <3>1. allocs'[t] = Found /\ allocs'[u] = allocs[u]
      BY <2>1, <1>4
    <3> QED BY <3>1, NewBlockApart
  <2>2. CASE u = req.tensor
    <3>1. allocs'[u] = Found /\ allocs'[t] = allocs[t]
      BY <2>2, <1>4
    <3>2. Intersects(Found, allocs[t])
      BY <3>1 DEF Intersects
    <3>3. Disjoint(Found, allocs[t])
      BY <3>1, <3>2, NewBlockApart
    <3> QED BY <3>1, <3>3 DEF Disjoint
  <2>3. CASE t # req.tensor /\ u # req.tensor
    BY <2>3, <1>1, <1>4 DEF IInv, PlanDisjoint
  <2> QED BY <2>1, <2>2, <2>3
<1>9. AllocsAligned'
  BY <1>1, <1>2, <1>3, <1>4 DEF IInv, AllocsAligned
<1>10. CommittedFits' /\ SegmentOrdered' /\ PlannedActive'
  BY <1>1 DEF IInv, CommittedFits, SegmentOrdered, PlannedActive
<1>11. SearchInv' /\ RestOnlyInSearch'
  BY <1>1, NoSearch
<1> QED BY <1>6, <1>7, <1>8, <1>9, <1>10, <1>11 DEF IInv

\* A failed Allocate leaves a record of the right type and nothing else to
\* keep until the plan is reset.
LEMMA AllocateFailsKeeps ==
  ASSUME IInv, AllocateFails PROVE IInv'
<1> USE SizeMaxAssumption DEF AllocateFails
<1>1. /\ TypeOK /\ status = "search" /\ status' = "failed"
      /\ req \in Alloc /\ req.tensor \in Tensors
      /\ UNCHANGED <<arena, lastActive>> /\ segment' = NoSegment
      /\ rest' = {} /\ search' = SearchStart /\ req' = NoRequest
  BY DEF IInv, SearchInv, RequestOK, Alloc
<1>2. [req EXCEPT !.offset = allocs[req.tensor].offset] \in Alloc
  <2>1. allocs[req.tensor].offset \in Size
    BY <1>1, FieldTypes
  <2> QED BY <1>1, <2>1 DEF Alloc
<1>3. TypeOK'
  <2>1. allocs' \in [Tensors -> Alloc \union {NoAlloc}]
    BY <1>1, <1>2 DEF TypeOK
  <2>2. search' \in [best : Size, fit : Size, current : Size, ok : BOOLEAN]
    BY <1>1 DEF SearchStart, kOffsetNotAssigned, Size
  <2> QED BY <1>1, <2>1, <2>2 DEF TypeOK, Status
<1>4. PlanSound' /\ PlanDisjoint' /\ AllocsAligned'
  BY <1>1 DEF PlanSound, PlanDisjoint, AllocsAligned
<1>5. CommittedFits' /\ SegmentOrdered' /\ PlannedActive'
  BY <1>1 DEF CommittedFits, SegmentOrdered, PlannedActive
<1>6. SearchInv' /\ RestOnlyInSearch'
  BY <1>1, NoSearch
<1> QED BY <1>3, <1>4, <1>5, <1>6 DEF IInv

\* The floor moves from the first to the last node of the segment.
LEMMA EndSegmentKeeps ==
  ASSUME IInv, EndSegment PROVE IInv'
<1> USE DEF EndSegment
<1>1. /\ TypeOK /\ status = "calculate" /\ status' = "planned" /\ rest = {}
      /\ lastActive' = segment[2]
      /\ UNCHANGED <<arena, allocs, segment, req, rest, search>>
      /\ segment \in Nodes \X Nodes /\ segment[1] <= segment[2]
      /\ segment[1] \in Int /\ segment[2] \in Int
  BY NumNodesAssumption DEF IInv, RestOnlyInSearch, SegmentOrdered, Nodes
<1>2. TypeOK'
  BY <1>1 DEF TypeOK, Status
<1>3. PlanSound'
  <2>1. ActiveCoversPlan'
    <3> SUFFICES ASSUME NEW t \in Tensors, allocs[t].size > 0
                 PROVE  allocs[t] \in arena.active \/ allocs[t].last < segment[2]
      BY <1>1 DEF ActiveCoversPlan, Floor
    <3>1. allocs[t] \in arena.active \/ allocs[t].last < segment[1]
      BY <1>1 DEF IInv, PlanSound, ActiveCoversPlan, Floor
    <3>2. allocs[t].last \in Int
      BY <1>1, FieldTypes
    <3> QED BY <1>1, <3>1, <3>2
  <2>2. HighWaterMarkCoversPlan'
    BY <1>1 DEF IInv, PlanSound, HighWaterMarkCoversPlan
  <2> QED BY <2>1, <2>2 DEF PlanSound
<1>4. PlanDisjoint' /\ AllocsAligned'
  BY <1>1 DEF IInv, PlanDisjoint, AllocsAligned
<1>5. CommittedFits' /\ SegmentOrdered' /\ PlannedActive'
  BY <1>1 DEF CommittedFits, SegmentOrdered, PlannedActive
<1>6. SearchInv' /\ RestOnlyInSearch'
  BY <1>1, NoSearch
<1> QED BY <1>2, <1>3, <1>4, <1>5, <1>6 DEF IInv

\* A Commit that succeeds makes the buffer as large as the high water mark.
LEMMA CommitFits ==
  ASSUME TypeOK, NEW mallocOk \in BOOLEAN, arena' = Commit(arena, mallocOk)
  PROVE  /\ arena' \in [active : SUBSET Alloc, hwm : Size, committed : BOOLEAN, bufsize : Size]
         /\ arena'.active = arena.active /\ arena'.hwm = arena.hwm
         /\ arena'.committed => arena'.bufsize >= arena'.hwm
         /\ arena'.bufsize >= arena.bufsize
         /\ ~arena'.committed => arena'.bufsize = arena.bufsize
<1>1. /\ arena \in [active : SUBSET Alloc, hwm : Size, committed : BOOLEAN, bufsize : Size]
      /\ arena.hwm \in Nat /\ arena.bufsize \in Nat
  BY DEF TypeOK, Size
<1>2. CASE Reallocates(arena) /\ ~mallocOk
  <2>1. arena' = [arena EXCEPT !.committed = FALSE]
    BY <1>2 DEF Commit
  <2>2. ~arena'.committed /\ arena'.bufsize = arena.bufsize
    BY <1>1, <2>1
  <2>3. arena' \in [active : SUBSET Alloc, hwm : Size, committed : BOOLEAN, bufsize : Size]
    BY <1>1, <2>1
  <2>4. arena'.active = arena.active /\ arena'.hwm = arena.hwm
    BY <1>1, <2>1
  <2>5. arena'.bufsize >= arena.bufsize
    BY <1>1, <2>2
  <2> QED BY <2>2, <2>3, <2>4, <2>5
<1>3. CASE ~(Reallocates(arena) /\ ~mallocOk)
  <2> DEFINE size == IF arena.bufsize < arena.hwm THEN arena.hwm ELSE arena.bufsize
  <2>1. arena' = [arena EXCEPT !.committed = TRUE, !.bufsize = size]
    BY <1>1, <1>3 DEF Commit
  <2>2. size \in Size /\ size >= arena.hwm /\ size >= arena.bufsize
    BY <1>1
  <2> HIDE DEF size
  <2>3. arena'.bufsize = size /\ arena'.committed /\ arena'.hwm = arena.hwm
    BY <1>1, <2>1
  <2> QED BY <1>1, <2>1, <2>2, <2>3
<1> QED BY <1>2, <1>3

\* Between calls: Commit at the end of a segment, or of AcquireNonPersistentMemory.
LEMMA CommitKeeps ==
  ASSUME IInv, NEW mallocOk \in BOOLEAN,
         CommitSegment(mallocOk) \/ AcquireNonPersistentMemory(mallocOk)
  PROVE  IInv'
<1>1. /\ TypeOK /\ status \in {"planned", "idle"} /\ status' = "idle" /\ rest = {}
      /\ arena' = Commit(arena, mallocOk)
      /\ UNCHANGED <<allocs, lastActive, req, rest, search>>
      /\ segment' \in {segment, NoSegment}
  BY DEF IInv, RestOnlyInSearch, CommitSegment, AcquireNonPersistentMemory
<1>2. /\ arena' \in [active : SUBSET Alloc, hwm : Size, committed : BOOLEAN, bufsize : Size]
      /\ arena'.active = arena.active /\ arena'.hwm = arena.hwm
      /\ arena'.committed => arena'.bufsize >= arena'.hwm
  BY <1>1, CommitFits
<1>3. TypeOK'
  BY <1>1, <1>2 DEF TypeOK, Status
<1>4. PlanSound'
  BY <1>1, <1>2 DEF IInv, PlanSound, ActiveCoversPlan, HighWaterMarkCoversPlan, Floor
<1>5. PlanDisjoint' /\ AllocsAligned'
  BY <1>1 DEF IInv, PlanDisjoint, AllocsAligned
<1>6. CommittedFits' /\ SegmentOrdered' /\ PlannedActive'
  BY <1>1, <1>2 DEF CommittedFits, SegmentOrdered, PlannedActive
<1>7. SearchInv' /\ RestOnlyInSearch'
  BY <1>1, NoSearch
<1> QED BY <1>3, <1>4, <1>5, <1>6, <1>7 DEF IInv

\* Releasing the buffer leaves the plan alone.
LEMMA ReleaseKeeps ==
  ASSUME IInv, ReleaseNonPersistentMemory PROVE IInv'
<1>1. /\ TypeOK /\ status \in {"idle", "failed"} /\ rest = {}
      /\ arena' = ReleaseBuffer(arena)
      /\ UNCHANGED <<allocs, lastActive, segment, status, req, rest, search>>
  BY DEF IInv, RestOnlyInSearch, ReleaseNonPersistentMemory
<1>2. /\ arena' \in [active : SUBSET Alloc, hwm : Size, committed : BOOLEAN, bufsize : Size]
      /\ arena'.active = arena.active /\ arena'.hwm = arena.hwm
      /\ arena'.committed = FALSE
  <2>1. 0 \in Size
    BY SizeMaxAssumption DEF Size
  <2> QED BY <1>1, <2>1 DEF TypeOK, ReleaseBuffer
<1>3. TypeOK'
  BY <1>1, <1>2 DEF TypeOK
<1>4. PlanSound'
  BY <1>1, <1>2 DEF IInv, PlanSound, ActiveCoversPlan, HighWaterMarkCoversPlan, Floor
<1>5. PlanDisjoint' /\ AllocsAligned'
  BY <1>1 DEF IInv, PlanDisjoint, AllocsAligned
<1>6. CommittedFits' /\ SegmentOrdered' /\ PlannedActive'
  BY <1>1, <1>2 DEF IInv, CommittedFits, SegmentOrdered, PlannedActive
<1>7. SearchInv' /\ RestOnlyInSearch'
  BY <1>1, NoSearch
<1> QED BY <1>3, <1>4, <1>5, <1>6, <1>7 DEF IInv

\* Every step keeps the invariant.
LEMMA NextKeeps == IInv /\ [Next]_vars => IInv'
<1> SUFFICES ASSUME IInv, [Next]_vars PROVE IInv'
  OBVIOUS
<1>1. CASE ResetAllocations
  BY <1>1, ResetAllocationsKeeps
<1>2. ASSUME NEW node \in Nodes, ResetAllocationsAfter(node) PROVE IInv'
  BY <1>2, ResetAllocationsAfterKeeps
<1>3. ASSUME NEW first \in Nodes, NEW last \in Nodes, BeginSegment(first, last) PROVE IInv'
  BY <1>3, BeginSegmentKeeps
<1>4. ASSUME NEW r \in Requests, BeginAllocate(r) PROVE IInv'
  BY <1>4, BeginAllocateKeeps
<1>5. CASE SearchStep
  BY <1>5, SearchStepKeeps
<1>6. CASE AllocateReturns
  BY <1>6, AllocateReturnsKeeps
<1>7. CASE AllocateFails
  BY <1>7, AllocateFailsKeeps
<1>8. CASE EndSegment
  BY <1>8, EndSegmentKeeps
<1>9. ASSUME NEW mallocOk \in BOOLEAN,
             CommitSegment(mallocOk) \/ AcquireNonPersistentMemory(mallocOk)
      PROVE  IInv'
  BY <1>9, CommitKeeps
<1>10. CASE ReleaseNonPersistentMemory
  BY <1>10, ReleaseKeeps
<1>11. ASSUME NEW first \in Nodes, NEW last \in Nodes, EmptySegment(first, last) PROVE IInv'
  BY <1>11, EmptySegmentKeeps
<1>12. CASE UNCHANGED vars
  BY <1>12 DEF vars, IInv, TypeOK, PlanSound, ActiveCoversPlan, HighWaterMarkCoversPlan, Floor,
       PlanDisjoint, AllocsAligned, CommittedFits, SegmentOrdered, PlannedActive, SearchInv,
       RequestOK, VisitedBelowCurrent, VisitedBeforeRest, BestIsFree, BestIsAligned,
       RestOnlyInSearch
<1> QED
  BY <1>1, <1>2, <1>3, <1>4, <1>5, <1>6, <1>7, <1>8, <1>9, <1>10, <1>11, <1>12 DEF Next

\* The inductive invariant holds of every reachable state.
LEMMA SpecIInv == Spec => []IInv
BY InitIInv, NextKeeps, PTL DEF Spec

-----------------------------------------------------------------------------
(***************************************************************************)
(* The results.                                                            *)
(***************************************************************************)

\* Type correctness of the arena and of the planner's use of it.
THEOREM TypeCorrect == Spec => []TypeOK
<1>1. IInv => TypeOK
  BY DEF IInv
<1> QED BY SpecIInv, <1>1, PTL

\* SimpleMemoryArena::Allocate never gives two tensors that are needed at
\* the same execution index a byte in common, over any number of segments,
\* resets and purges.
THEOREM NoOverlap == Spec => []PlanDisjoint
<1>1. IInv => PlanDisjoint
  BY DEF IInv
<1> QED BY SpecIInv, <1>1, PTL

\* Every offset the arena hands out is a multiple of the alignment.
THEOREM Aligned == Spec => []AllocsAligned
<1>1. IInv => AllocsAligned
  BY DEF IInv
<1> QED BY SpecIInv, <1>1, PTL

\* After a successful Commit every alloc of the plan resolves: ResolveAlloc
\* neither overflows nor finds the buffer too small.
THEOREM ResolveNeverFails == Spec => []CommittedResolves
<1>1. IInv => CommittedResolves
  <2> SUFFICES ASSUME IInv, status = "idle", arena.committed, NEW t \in Tensors
               PROVE  ResolveAllocOk(arena, allocs[t])
    BY DEF CommittedResolves
  <2>1. /\ allocs[t].offset \in Size /\ allocs[t].size \in Size
        /\ arena.hwm \in Size /\ arena.bufsize \in Size
    BY FieldTypes DEF IInv
  <2>2. allocs[t].offset + allocs[t].size <= arena.hwm /\ arena.bufsize >= arena.hwm
    BY DEF IInv, PlanSound, HighWaterMarkCoversPlan, CommittedFits
  <2> QED BY <2>1, <2>2, SizeMaxAssumption DEF ResolveAllocOk, AddFits, Size
<1> QED BY SpecIInv, <1>1, PTL

-----------------------------------------------------------------------------
(***************************************************************************)
(* The loop computes what the operator Search computes. Both are compared  *)
(* with a third loop, which never stops early and whose numbers have no    *)
(* bound: what it computes is the same in every order of offsets.          *)
(***************************************************************************)

\* One turn of that loop.
IdealGap(s, a, size) ==
  LET aligned == AlignTo(s.current)
      allocEnd == a.offset + a.size
      taken == /\ aligned + size <= a.offset
               /\ a.offset - aligned < s.fit
  IN  [best |-> IF taken THEN aligned ELSE s.best,
       fit |-> IF taken THEN a.offset - s.current ELSE s.fit,
       current |-> IF s.current < allocEnd THEN allocEnd ELSE s.current,
       ok |-> TRUE]

IdealVisit(s, a, r) == IF Intersects(a, r) THEN IdealGap(s, a, r.size) ELSE s

IdealState == [best : Nat, fit : Nat \ {0}, current : Nat, ok : {TRUE}]

\* A turn of the loop of Allocate, or of the ideal one.
Visit(exact, s, a, r) == IF exact THEN SearchVisit(s, a, r) ELSE IdealVisit(s, a, r)

\* g[s] is what the loop over s computes, for the subsets of A.
Visits(A, exact, r, g) ==
  g = [s \in SUBSET A |->
         IF s = {} THEN SearchStart
         ELSE Visit(exact, g[s \ {LastInOrder(s)}], LastInOrder(s), r)]

Ideal(A, r) == CHOOSE g : Visits(A, FALSE, r, g)

\* The last of the allocs is one of the highest offset.
LEMMA LastInOrderIs ==
  ASSUME NEW S \in SUBSET Alloc, S # {}
  PROVE  LastInOrder(S) \in S /\ \A b \in S : b.offset <= LastInOrder(S).offset
<1> DEFINE offsets == {a.offset : a \in S}
<1>1. offsets \in SUBSET (0 .. SizeMax) /\ offsets # {} /\ SizeMax \in Nat
  BY SizeMaxAssumption DEF Alloc, Size
<1>2. \E x \in offsets : \A y \in offsets : y <= x
  <2> HIDE DEF offsets
  <2> QED BY <1>1, GreatestExists
<1>3. \E a \in S : \A b \in S : b.offset <= a.offset
  BY <1>2
<1> QED BY <1>3 DEF LastInOrder

\* The loop is defined for a finite set of allocs: for the sets of up to k of
\* them, for every k.
LEMMA VisitsExists ==
  ASSUME NEW A \in SUBSET Alloc, IsFiniteSet(A), NEW exact, NEW r
  PROVE  \E g : Visits(A, exact, r, g)
<1> DEFINE Turn(g, s) == IF s = {} THEN SearchStart
                         ELSE Visit(exact, g[s \ {LastInOrder(s)}], LastInOrder(s), r)
           Upto(k, g) == \A s \in SUBSET A : Cardinality(s) <= k => g[s] = Turn(g, s)
           P(k) == \E g : Upto(k, g)
           B == {k \in Nat : ~ P(k)}
<1>1. \A s \in SUBSET A : IsFiniteSet(s) /\ Cardinality(s) \in Nat
  BY FS_Subset, FS_CardinalityType
<1>2. \A s \in SUBSET A : s # {} =>
        /\ s \ {LastInOrder(s)} \in SUBSET A
        /\ Cardinality(s \ {LastInOrder(s)}) = Cardinality(s) - 1
  BY <1>1, LastInOrderIs, FS_RemoveElement
<1>3. P(0)
  <2> DEFINE g == [s \in SUBSET A |-> SearchStart]
  <2>1. \A s \in SUBSET A : Cardinality(s) <= 0 => s = {}
    BY <1>1, FS_EmptySet
  <2>2. Upto(0, g)
    BY <2>1
  <2> QED BY <2>2
<1>4. ASSUME NEW k \in Nat, P(k) PROVE P(k + 1)
  <2>1. PICK g : Upto(k, g)
    BY <1>4
  <2> DEFINE h == [s \in SUBSET A |-> IF Cardinality(s) <= k THEN g[s] ELSE Turn(g, s)]
  <2>2. ASSUME NEW s \in SUBSET A, Cardinality(s) <= k + 1 PROVE h[s] = Turn(h, s)
    <3>1. CASE s = {}
      <4>1. Cardinality(s) = 0
        BY <3>1, FS_EmptySet
      <4>2. h[s] = g[s] /\ g[s] = SearchStart
        BY <2>1, <3>1, <4>1
      <4> QED BY <3>1, <4>2
    <3>2. CASE s # {}
      <4>1. h[s \ {LastInOrder(s)}] = g[s \ {LastInOrder(s)}]
        BY <1>1, <1>2, <2>2, <3>2
      <4>2. h[s] = Turn(g, s)
        BY <2>1
      <4> QED BY <3>2, <4>1, <4>2
    <3> QED BY <3>1, <3>2
  <2>3. Upto(k + 1, h)
    <3> HIDE DEF h, Turn
    <3> QED BY <2>2
  <2> QED BY <2>3
<1> HIDE DEF P
<1>5. \A k \in Nat : P(k)
  <2> SUFFICES ASSUME B # {} PROVE FALSE
    OBVIOUS
  <2>1. PICK m \in B : \A k \in B : m <= k
    <3>1. B \in SUBSET Nat
      OBVIOUS
    <3> QED BY <3>1, LeastExists
  <2>2. m # 0
    BY <1>3, <2>1
  <2>3. m - 1 \in Nat /\ m - 1 \notin B
    BY <2>1, <2>2
  <2>4. P(m - 1 + 1)
    BY <1>4, <2>3
  <2> QED BY <2>1, <2>4
<1>6. PICK g : Upto(Cardinality(A), g)
  BY <1>1, <1>5 DEF P
<1> DEFINE h == [s \in SUBSET A |-> g[s]]
<1>7. \A s \in SUBSET A : g[s] = Turn(g, s)
  BY <1>1, <1>6, FS_Subset
<1>8. \A s \in SUBSET A : Turn(h, s) = Turn(g, s)
  BY <1>2
<1>9. h = [s \in SUBSET A |-> Turn(h, s)]
  <2> HIDE DEF Turn
  <2> QED BY <1>7, <1>8
<1> QED BY <1>9 DEF Visits

\* CheckedAlignTo rounds up, of numbers without bound too.
LEMMA AlignToNat ==
  ASSUME NEW x \in Nat
  PROVE  AlignTo(x) \in Nat /\ AlignTo(x) >= x
<1>1. x % Alignment \in 0 .. Alignment - 1
  BY AlignmentAssumption
<1> QED BY <1>1, AlignmentAssumption DEF AlignTo

\* A turn keeps the types; it moves past the alloc, and a gap it takes is
\* larger than nothing, because the block has a byte: the loop is never left
\* for a perfect fit.
LEMMA IdealVisitTypes ==
  ASSUME NEW s \in IdealState, NEW a \in Alloc, NEW r \in Alloc, r.size > 0,
         NEW v, v = IdealVisit(s, a, r)
  PROVE  /\ v \in IdealState
         /\ Intersects(a, r) => v.current >= a.offset /\ v.current >= s.current
<1> DEFINE al == AlignTo(s.current)
<1>1. /\ s.current \in Nat /\ s.best \in Nat /\ s.fit \in Nat \ {0}
      /\ a.offset \in Nat /\ a.size \in Nat /\ r.size \in Nat
  BY DEF IdealState, Alloc, Size
<1>2. al \in Nat /\ al >= s.current
  BY <1>1, AlignToNat
<1>3. CASE ~ Intersects(a, r)
  BY <1>3 DEF IdealVisit
<1>4. CASE Intersects(a, r)
  <2> DEFINE taken == al + r.size <= a.offset /\ a.offset - al < s.fit
             end == a.offset + a.size
             best == IF taken THEN al ELSE s.best
             fit == IF taken THEN a.offset - s.current ELSE s.fit
             current == IF s.current < end THEN end ELSE s.current
  <2>1. v = [best |-> best, fit |-> fit, current |-> current, ok |-> TRUE]
    BY <1>4 DEF IdealVisit, IdealGap
  <2>2. best \in Nat /\ fit \in Nat \ {0}
    <3> HIDE DEF al
    <3> QED BY <1>1, <1>2
  <2>3. current \in Nat /\ current >= a.offset /\ current >= s.current
    BY <1>1
  <2> HIDE DEF best, fit, current
  <2> QED BY <2>1, <2>2, <2>3 DEF IdealState
<1> QED BY <1>3, <1>4

\* Two allocs of equal offset may be visited in either order: the second finds
\* no gap, and both move current past themselves.
LEMMA IdealVisitsCommute ==
  ASSUME NEW s \in IdealState, NEW a \in Alloc, NEW b \in Alloc, a.offset = b.offset,
         NEW r \in Alloc, r.size > 0
  PROVE  IdealVisit(IdealVisit(s, a, r), b, r) = IdealVisit(IdealVisit(s, b, r), a, r)
<1>1. CASE ~ Intersects(a, r) \/ ~ Intersects(b, r)
  BY <1>1 DEF IdealVisit
<1>2. CASE Intersects(a, r) /\ Intersects(b, r)
  <2> DEFINE va == IdealVisit(s, a, r)
             vb == IdealVisit(s, b, r)
             o == a.offset
             al == AlignTo(s.current)
             taken == al + r.size <= o /\ o - al < s.fit
             ea == o + a.size
             eb == o + b.size
  <2>1. /\ s.current \in Nat /\ o \in Nat /\ a.size \in Nat /\ b.size \in Nat
        /\ r.size \in Nat /\ r.size > 0
    BY DEF IdealState, Alloc, Size
  <2>2. va \in IdealState /\ vb \in IdealState /\ va.current >= o /\ vb.current >= o
    BY <1>2, IdealVisitTypes
  <2>3. /\ va.current \in Nat /\ AlignTo(va.current) \in Nat /\ AlignTo(va.current) >= va.current
        /\ vb.current \in Nat /\ AlignTo(vb.current) \in Nat /\ AlignTo(vb.current) >= vb.current
    BY <2>2, AlignToNat DEF IdealState
  <2>4. va = [best |-> IF taken THEN al ELSE s.best,
              fit |-> IF taken THEN o - s.current ELSE s.fit,
              current |-> IF s.current < ea THEN ea ELSE s.current, ok |-> TRUE]
    BY <1>2 DEF IdealVisit, IdealGap
  <2>5. vb = [best |-> IF taken THEN al ELSE s.best,
              fit |-> IF taken THEN o - s.current ELSE s.fit,
              current |-> IF s.current < eb THEN eb ELSE s.current, ok |-> TRUE]
    BY <1>2 DEF IdealVisit, IdealGap
  <2> HIDE DEF va, vb, al
  <2>6. ~ (AlignTo(va.current) + r.size <= o) /\ ~ (AlignTo(vb.current) + r.size <= o)
    BY <2>1, <2>2, <2>3
  <2>7. IdealVisit(va, b, r) = [best |-> va.best, fit |-> va.fit,
                                current |-> IF va.current < eb THEN eb ELSE va.current,
                                ok |-> TRUE]
    BY <1>2, <2>6 DEF IdealVisit, IdealGap
  <2>8. IdealVisit(vb, a, r) = [best |-> vb.best, fit |-> vb.fit,
                                current |-> IF vb.current < ea THEN ea ELSE vb.current,
                                ok |-> TRUE]
    BY <1>2, <2>6 DEF IdealVisit, IdealGap
  <2>9. va.best = vb.best /\ va.fit = vb.fit
    BY <2>4, <2>5
  <2>10. (IF va.current < eb THEN eb ELSE va.current)
         = (IF vb.current < ea THEN ea ELSE vb.current)
    <3>1. /\ va.current = IF s.current < ea THEN ea ELSE s.current
          /\ vb.current = IF s.current < eb THEN eb ELSE s.current
      BY <2>4, <2>5
    <3> QED BY <2>1, <3>1
  <2>11. IdealVisit(va, b, r) = IdealVisit(vb, a, r)
    <3> DEFINE ca == IF va.current < eb THEN eb ELSE va.current
               cb == IF vb.current < ea THEN ea ELSE vb.current
    <3>1. IdealVisit(va, b, r) = [best |-> va.best, fit |-> va.fit, current |-> ca, ok |-> TRUE]
      BY <2>7
    <3>2. IdealVisit(vb, a, r) = [best |-> vb.best, fit |-> vb.fit, current |-> cb, ok |-> TRUE]
      BY <2>8
    <3>3. ca = cb
      BY <2>10
    <3> HIDE DEF ca, cb
    <3> QED BY <2>9, <3>1, <3>2, <3>3
  <2> QED BY <2>11 DEF va, vb
<1> QED BY <1>1, <1>2

\* Where no addition overflows the turn is the ideal one; an error, once made,
\* stays.
LEMMA SearchVisitIsIdeal ==
  ASSUME NEW s, NEW a \in Alloc, NEW r,
         NEW v, v = SearchVisit(s, a, r), v.ok
  PROVE  s.ok /\ (s \in IdealState => v = IdealVisit(s, a, r))
<1>1. s.ok
  BY DEF SearchVisit
<1>2. CASE ~ Intersects(a, r)
  BY <1>1, <1>2 DEF SearchVisit, IdealVisit
<1>3. CASE Intersects(a, r)
  <2>1. CASE s \in IdealState
    <3>1. s.fit # 0
      BY <2>1 DEF IdealState
    <3>2. v = SearchGap(s, a, r.size)
      BY <1>1, <1>3, <3>1 DEF SearchVisit
    <3>3. AlignFits(s.current) /\ AddFits(AlignTo(s.current), r.size) /\ AddFits(a.offset, a.size)
      BY <2>1, <3>2 DEF SearchGap, IdealState
    <3> QED BY <1>1, <1>3, <3>2, <3>3 DEF SearchGap, IdealVisit, IdealGap
  <2> QED BY <1>1, <2>1
<1> QED BY <1>2, <1>3

\* Among subsets of a finite set there is one without a smaller one inside.
LEMMA SmallestSet ==
  ASSUME NEW A, IsFiniteSet(A), NEW B \in SUBSET (SUBSET A), B # {}
  PROVE  \E V \in B : \A U \in SUBSET V : U # V => U \notin B
<1> DEFINE sizes == {Cardinality(V) : V \in B}
<1>1. \A V \in SUBSET A : IsFiniteSet(V) /\ Cardinality(V) \in Nat
  BY FS_Subset, FS_CardinalityType
<1>2. \E x \in sizes : \A y \in sizes : x <= y
  <2>1. sizes \in SUBSET Nat /\ sizes # {}
    BY <1>1
  <2> HIDE DEF sizes
  <2> QED BY <2>1, LeastExists
<1>3. PICK V \in B : \A U \in B : Cardinality(V) <= Cardinality(U)
  BY <1>2
<1>4. ASSUME NEW U \in SUBSET V, U # V, U \in B PROVE FALSE
  <2>1. IsFiniteSet(V) /\ Cardinality(U) \in Nat /\ Cardinality(V) \in Nat
    BY <1>1, <1>4
  <2>2. Cardinality(U) <= Cardinality(V) /\ Cardinality(U) # Cardinality(V)
    BY <1>4, <2>1, FS_Subset
  <2> QED BY <1>3, <1>4, <2>1, <2>2
<1> QED BY <1>3, <1>4

\* What the ideal loop computes has its types.
LEMMA IdealTypes ==
  ASSUME NEW A \in SUBSET Alloc, IsFiniteSet(A), NEW r \in Alloc, r.size > 0,
         NEW g, Visits(A, FALSE, r, g)
  PROVE  \A V \in SUBSET A : g[V] \in IdealState
<1> DEFINE B == {V \in SUBSET A : g[V] \notin IdealState}
<1>1. SUFFICES ASSUME B # {} PROVE FALSE
  OBVIOUS
<1>2. PICK V \in B : \A U \in SUBSET V : U # V => U \notin B
  <2>1. B \in SUBSET (SUBSET A)
    OBVIOUS
  <2> HIDE DEF B
  <2> QED BY <1>1, <2>1, SmallestSet
<1>3. g[V] = IF V = {} THEN SearchStart
             ELSE IdealVisit(g[V \ {LastInOrder(V)}], LastInOrder(V), r)
  BY <1>2 DEF Visits, Visit
<1>4. CASE V = {}
  <2>1. SearchStart \in IdealState
    BY SizeMaxAssumption DEF SearchStart, IdealState, kOffsetNotAssigned
  <2> QED BY <1>2, <1>3, <1>4, <2>1
<1>5. CASE V # {}
  <2> DEFINE x == LastInOrder(V)
  <2>1. x \in V /\ x \in Alloc /\ V \ {x} \in SUBSET V /\ V \ {x} # V
    BY <1>2, <1>5, LastInOrderIs
  <2>2. g[V \ {x}] \in IdealState
    BY <1>2, <2>1
  <2>3. g[V] = IdealVisit(g[V \ {x}], x, r)
    BY <1>3, <1>5
  <2>4. g[V] \in IdealState
    <3> HIDE DEF x
    <3> QED BY <2>1, <2>2, <2>3, IdealVisitTypes
  <2> QED BY <1>2, <2>4
<1> QED BY <1>4, <1>5

Highest(V, a) == a \in V /\ \A b \in V : b.offset <= a.offset

AnyLast(A, r, g) ==
  \A V \in SUBSET A : \A a \in V :
    Highest(V, a) => g[V] = IdealVisit(g[V \ {a}], a, r)

\* Whichever alloc of the highest offset comes last, the ideal loop computes
\* the same.
LEMMA IdealAnyLast ==
  ASSUME NEW A \in SUBSET Alloc, IsFiniteSet(A), NEW r \in Alloc, r.size > 0,
         NEW g, Visits(A, FALSE, r, g)
  PROVE  AnyLast(A, r, g)
<1> USE DEF Highest, AnyLast
<1> DEFINE B == {V \in SUBSET A : \E a \in V : /\ Highest(V, a)
                                               /\ g[V] # IdealVisit(g[V \ {a}], a, r)}
<1>1. SUFFICES ASSUME B # {} PROVE FALSE
  OBVIOUS
<1>2. PICK V \in B : \A U \in SUBSET V : U # V => U \notin B
  <2>1. B \in SUBSET (SUBSET A)
    OBVIOUS
  <2> HIDE DEF B
  <2> QED BY <1>1, <2>1, SmallestSet
<1>3. PICK a \in V : Highest(V, a) /\ g[V] # IdealVisit(g[V \ {a}], a, r)
  BY <1>2
<1> DEFINE x == LastInOrder(V)
<1>4. /\ x \in V /\ x \in Alloc /\ a \in Alloc /\ Highest(V, x)
      /\ V \in SUBSET A /\ V # {}
  BY <1>2, <1>3, LastInOrderIs
<1>5. g[V] = IdealVisit(g[V \ {x}], x, r)
  BY <1>4 DEF Visits, Visit
<1> HIDE DEF x
<1>6. a # x
  BY <1>3, <1>5
<1>7. a.offset = x.offset
  BY <1>3, <1>4 DEF Alloc, Size
<1>8. g[V \ {x}] = IdealVisit(g[(V \ {x}) \ {a}], a, r)
  <2>1. V \ {x} \in SUBSET V /\ V \ {x} # V /\ Highest(V \ {x}, a) /\ V \ {x} \in SUBSET A
    BY <1>3, <1>4, <1>6
  <2>2. V \ {x} \notin B
    BY <1>2, <2>1
  <2> QED BY <2>1, <2>2
<1>9. g[V \ {a}] = IdealVisit(g[(V \ {a}) \ {x}], x, r)
  <2>1. V \ {a} \in SUBSET V /\ V \ {a} # V /\ Highest(V \ {a}, x) /\ V \ {a} \in SUBSET A
    BY <1>3, <1>4, <1>6
  <2>2. V \ {a} \notin B
    BY <1>2, <2>1
  <2> QED BY <2>1, <2>2
<1>10. /\ (V \ {x}) \ {a} = (V \ {a}) \ {x}
       /\ g[(V \ {a}) \ {x}] \in IdealState
  BY <1>4, IdealTypes
<1>11. IdealVisit(IdealVisit(g[(V \ {a}) \ {x}], a, r), x, r)
       = IdealVisit(IdealVisit(g[(V \ {a}) \ {x}], x, r), a, r)
  BY <1>4, <1>7, <1>10, IdealVisitsCommute
<1> QED BY <1>3, <1>5, <1>8, <1>9, <1>10, <1>11

\* What Search computes, if no addition overflows, is what the ideal loop does.
LEMMA SearchIsIdeal ==
  ASSUME NEW ar, NEW A \in SUBSET Alloc, ar.active = A, IsFiniteSet(A),
         NEW r \in Alloc, r.size > 0, NEW g, Visits(A, FALSE, r, g),
         Search(ar, r).ok
  PROVE  Search(ar, r) = g[A]
<1> DEFINE h == CHOOSE iter : iter = [s \in SUBSET A |->
                  IF s = {} THEN SearchStart
                  ELSE SearchVisit(iter[s \ {LastInOrder(s)}], LastInOrder(s), r)]
<1>1. Search(ar, r) = h[A]
  BY DEF Search, MapThenFoldSet
<1>2. \E iter : iter = [s \in SUBSET A |->
                  IF s = {} THEN SearchStart
                  ELSE SearchVisit(iter[s \ {LastInOrder(s)}], LastInOrder(s), r)]
  <2>1. PICK iter : Visits(A, TRUE, r, iter)
    BY VisitsExists
  <2> QED BY <2>1 DEF Visits, Visit
<1>3. h = [s \in SUBSET A |->
             IF s = {} THEN SearchStart
             ELSE SearchVisit(h[s \ {LastInOrder(s)}], LastInOrder(s), r)]
  BY <1>2
<1> HIDE DEF h
<1> DEFINE B == {V \in SUBSET A : h[V].ok /\ h[V] # g[V]}
<1>4. SUFFICES ASSUME B # {} PROVE FALSE
  <2>1. A \notin B
    BY <1>4
  <2> QED BY <1>1, <2>1
<1>5. PICK V \in B : \A U \in SUBSET V : U # V => U \notin B
  <2>1. B \in SUBSET (SUBSET A)
    OBVIOUS
  <2> HIDE DEF B
  <2> QED BY <1>4, <2>1, SmallestSet
<1>6. V \in SUBSET A /\ h[V].ok /\ h[V] # g[V]
  BY <1>5
<1>7. g[V] = IF V = {} THEN SearchStart
             ELSE IdealVisit(g[V \ {LastInOrder(V)}], LastInOrder(V), r)
  BY <1>6 DEF Visits, Visit
<1>8. V # {}
  BY <1>3, <1>6, <1>7
<1> DEFINE x == LastInOrder(V)
<1>9. x \in Alloc /\ V \ {x} \in SUBSET V /\ V \ {x} # V /\ V \ {x} \in SUBSET A
  BY <1>6, <1>8, LastInOrderIs
<1>10. h[V] = SearchVisit(h[V \ {x}], x, r) /\ g[V] = IdealVisit(g[V \ {x}], x, r)
  BY <1>3, <1>6, <1>7, <1>8
<1>11. V \ {x} \notin B
  BY <1>5, <1>9
<1> HIDE DEF x
<1>12. g[V \ {x}] \in IdealState
  BY <1>9, IdealTypes
<1>13. h[V \ {x}].ok
  BY <1>6, <1>9, <1>10, SearchVisitIsIdeal
<1>14. h[V \ {x}] = g[V \ {x}]
  BY <1>9, <1>11, <1>13
<1>15. h[V] = IdealVisit(g[V \ {x}], x, r)
  BY <1>6, <1>9, <1>10, <1>12, <1>14, SearchVisitIsIdeal
<1> QED BY <1>6, <1>10, <1>15

\* The part of the invariant that is about this: the loop has computed of the
\* allocs it has visited what the ideal loop computes of them.
FiniteActive == IsFiniteSet(arena.active)

LoopIsIdeal ==
  status = "search" /\ search.ok =>
    search = Ideal(arena.active, req)[arena.active \ rest]

LoopInv == FiniteActive /\ LoopIsIdeal

\* CalculateActiveAllocs finds its allocs among those of the tensors.
LEMMA FiniteAllocs ==
  ASSUME NEW f, NEW S, S \subseteq {f[t] : t \in Tensors}
  PROVE  IsFiniteSet(S)
<1> DEFINE T == {f[t] : t \in Tensors}
           h == [t \in Tensors |-> f[t]]
<1>1. h \in Surjection(Tensors, T)
  BY DEF Surjection
<1> HIDE DEF h
<1>2. IsFiniteSet(T)
  BY <1>1, TensorsAssumption, FS_Surjection
<1> QED BY <1>2, FS_Subset

\* Every step of the loop keeps it: SearchStep visits one more alloc of the
\* highest offset so far.
LEMMA LoopStepKeeps ==
  ASSUME IInv, LoopInv, SearchStep PROVE LoopInv'
<1>1. PICK a \in rest : /\ NextInOrder(a)
                        /\ search' = SearchVisit(search, a, req)
                        /\ rest' = rest \ {a}
  BY DEF SearchStep
<1>2. /\ TypeOK /\ status = "search"
      /\ UNCHANGED <<arena, allocs, lastActive, segment, status, req>>
      /\ search.ok /\ search.fit # 0
  BY DEF IInv, SearchStep, SearchEnded
<1>3. VisitedBeforeRest /\ req \in Alloc /\ req.size > 0
  BY <1>2 DEF IInv, SearchInv, RequestOK
<1> DEFINE A == arena.active
           g == Ideal(A, req)
           V == A \ rest
           W == A \ rest'
<1>4. A \in SUBSET Alloc /\ IsFiniteSet(A) /\ rest \subseteq A
  BY <1>2 DEF LoopInv, FiniteActive, TypeOK
<1>5. a \in W /\ W \in SUBSET A /\ W \ {a} = V /\ a \in Alloc
  BY <1>1, <1>4
<1>6. Highest(W, a)
  BY <1>1, <1>3, <1>4, <1>5 DEF VisitedBeforeRest, Highest, Alloc, Size
<1>7. Visits(A, FALSE, req, g)
  BY <1>4, VisitsExists DEF Ideal
<1>8. search = g[V]
  BY <1>2 DEF LoopInv, LoopIsIdeal
<1> HIDE DEF g, V, W, A
<1>9. V \in SUBSET A
  BY DEF V
<1>10. g[V] \in IdealState
  BY <1>3, <1>4, <1>7, <1>9, IdealTypes
<1>11. search'.ok => search' = IdealVisit(g[V], a, req)
  BY <1>1, <1>5, <1>8, <1>10, SearchVisitIsIdeal
<1>12. g[W] = IdealVisit(g[V], a, req)
  <2>1. AnyLast(A, req, g)
    BY <1>3, <1>4, <1>7, IdealAnyLast
  <2>2. g[W] = IdealVisit(g[W \ {a}], a, req)
    BY <1>5, <1>6, <2>1 DEF AnyLast
  <2> QED BY <1>5, <2>2
<1>13. search'.ok => search' = g[W]
  BY <1>11, <1>12
<1> QED BY <1>2, <1>4, <1>13 DEF LoopInv, LoopIsIdeal, FiniteActive, g, W, A

\* So does every other step.
LEMMA LoopInvKeeps == IInv /\ LoopInv /\ [Next]_vars => LoopInv'
<1> SUFFICES ASSUME IInv, LoopInv, [Next]_vars PROVE LoopInv'
  OBVIOUS
<1>0. TypeOK
  BY DEF IInv
<1>1. CASE ResetAllocations
  <2>1. arena'.active = {} /\ status' = "idle"
    BY <1>0, <1>1 DEF ResetAllocations, ClearPlan, TypeOK
  <2> QED BY <2>1, FS_EmptySet DEF LoopInv, FiniteActive, LoopIsIdeal
<1>2. ASSUME NEW node \in Nodes, ResetAllocationsAfter(node) PROVE LoopInv'
  <2>1. status' = "idle"
    BY <1>2 DEF ResetAllocationsAfter
  <2>2. \/ arena'.active \subseteq {allocs'[t] : t \in Tensors}
        \/ arena'.active \subseteq arena.active
    BY <1>0, <1>2 DEF ResetAllocationsAfter, CalculateActiveAllocs, PurgeAfter, TypeOK
  <2>3. CASE arena'.active \subseteq {allocs'[t] : t \in Tensors}
    BY <2>1, <2>3, FiniteAllocs DEF LoopInv, FiniteActive, LoopIsIdeal
  <2>4. CASE arena'.active \subseteq arena.active
    BY <2>1, <2>4, FS_Subset DEF LoopInv, FiniteActive, LoopIsIdeal
  <2> QED BY <2>2, <2>3, <2>4
<1>3. ASSUME NEW first \in Nodes, NEW last \in Nodes, BeginSegment(first, last) PROVE LoopInv'
  <2>1. status' = "calculate" /\ arena'.active \subseteq arena.active
    BY <1>0, <1>3 DEF BeginSegment, ResetAllocs, PurgeActiveAllocs, TypeOK
  <2> QED BY <2>1, FS_Subset DEF LoopInv, FiniteActive, LoopIsIdeal
<1>4. ASSUME NEW r \in Requests, BeginAllocate(r) PROVE LoopInv'
  <2>1. /\ status' = "search" /\ rest' = arena.active /\ search' = SearchStart /\ arena' = arena
    BY <1>4 DEF BeginAllocate
  <2>2. arena.active \in SUBSET Alloc /\ IsFiniteSet(arena.active)
    BY <1>0 DEF TypeOK, LoopInv, FiniteActive
  <2> DEFINE g == Ideal(arena.active, req')
  <2>3. Visits(arena.active, FALSE, req', g)
    BY <2>2, VisitsExists DEF Ideal
  <2>4. g[{}] = SearchStart
    <3>1. {} \in SUBSET (arena.active)
      OBVIOUS
    <3> HIDE DEF g
    <3> QED BY <2>3, <3>1 DEF Visits
  <2>5. arena'.active \ rest' = {}
    BY <2>1
  <2> QED BY <2>1, <2>2, <2>4, <2>5 DEF LoopInv, FiniteActive, LoopIsIdeal
<1>5. CASE SearchStep
  BY <1>5, LoopStepKeeps
<1>6. CASE AllocateReturns
  <2>1. status' = "calculate" /\ arena'.active = arena.active \union {Found}
    BY <1>0, <1>6 DEF AllocateReturns, Insert, TypeOK
  <2>2. IsFiniteSet(arena'.active)
    BY <2>1, FS_AddElement DEF LoopInv, FiniteActive
  <2> QED BY <2>1, <2>2 DEF LoopInv, FiniteActive, LoopIsIdeal
<1>7. CASE AllocateFails
  BY <1>7 DEF AllocateFails, LoopInv, FiniteActive, LoopIsIdeal
<1>8. CASE EndSegment
  BY <1>8 DEF EndSegment, LoopInv, FiniteActive, LoopIsIdeal
<1>9. ASSUME NEW mallocOk \in BOOLEAN,
             CommitSegment(mallocOk) \/ AcquireNonPersistentMemory(mallocOk)
      PROVE  LoopInv'
  <2>1. status' = "idle" /\ arena'.active = arena.active
    BY <1>0, <1>9 DEF CommitSegment, AcquireNonPersistentMemory, Commit, TypeOK
  <2> QED BY <2>1 DEF LoopInv, FiniteActive, LoopIsIdeal
<1>10. CASE ReleaseNonPersistentMemory
  <2>1. status' # "search" /\ arena'.active = arena.active
    BY <1>0, <1>10 DEF ReleaseNonPersistentMemory, ReleaseBuffer, TypeOK
  <2> QED BY <2>1 DEF LoopInv, FiniteActive, LoopIsIdeal
<1>11. ASSUME NEW first \in Nodes, NEW last \in Nodes, EmptySegment(first, last) PROVE LoopInv'
  BY <1>11 DEF EmptySegment, LoopInv, FiniteActive, LoopIsIdeal
<1>12. CASE UNCHANGED vars
  BY <1>12 DEF vars, LoopInv, FiniteActive, LoopIsIdeal
<1> QED
  BY <1>1, <1>2, <1>3, <1>4, <1>5, <1>6, <1>7, <1>8, <1>9, <1>10, <1>11, <1>12 DEF Next

\* The loop of Allocate chooses the offset that the operator Search computes:
\* in which order it visits the allocs of one offset makes no difference.
THEOREM LoopAlwaysComputesSearch == Spec => []LoopComputesSearch
<1>1. Init => LoopInv
  BY FS_EmptySet DEF Init, LoopInv, FiniteActive, LoopIsIdeal, EmptyArena
<1>2. ASSUME IInv, LoopInv, status = "search", SearchEnded, search.ok, Search(arena, req).ok
      PROVE  search = Search(arena, req)
  <2> DEFINE A == arena.active
             g == Ideal(A, req)
  <2>1. A \in SUBSET Alloc /\ IsFiniteSet(A) /\ req \in Alloc /\ req.size > 0
    BY <1>2 DEF IInv, TypeOK, SearchInv, RequestOK, LoopInv, FiniteActive
  <2>2. Visits(A, FALSE, req, g)
    BY <2>1, VisitsExists DEF Ideal
  <2>3. search = g[A \ rest]
    BY <1>2 DEF LoopInv, LoopIsIdeal
  <2> HIDE DEF g, A
  <2>4. search.fit # 0
    <3>1. g[A \ rest] \in IdealState
      BY <2>1, <2>2, IdealTypes
    <3> QED BY <2>3, <3>1 DEF IdealState
  <2>5. rest = {}
    BY <1>2, <2>4 DEF SearchEnded
  <2>6. Search(arena, req) = g[A]
    BY <1>2, <2>1, <2>2, SearchIsIdeal DEF A
  <2> QED BY <2>3, <2>5, <2>6
<1>3. IInv /\ LoopInv => LoopComputesSearch
  BY <1>2 DEF LoopComputesSearch
<1> QED BY InitIInv, NextKeeps, LoopInvKeeps, <1>1, <1>3, PTL DEF Spec

-----------------------------------------------------------------------------
(***************************************************************************)
(* The arena implements its contract.                                      *)
(***************************************************************************)

\* The value that stands for the contract's blocks.
Blocks == IF status = "failed" THEN [t \in Tensors |-> NoAlloc] ELSE allocs

\* The initial state is one of the contract.
LEMMA ContractInit == Init => Contract!Init
BY DEF Init, Contract!Init, EmptyArena

\* Resets drop blocks.
LEMMA ResetIsDrop ==
  ASSUME IInv, IInv', ResetAllocations \/ \E node \in Nodes : ResetAllocationsAfter(node)
  PROVE  Contract!Drop
<1>1. Blocks' \in [Tensors -> Alloc \union {NoAlloc}]
  BY DEF IInv, TypeOK, Blocks
<1>2. TypeOK
  BY DEF IInv
<1>3. CASE ResetAllocations
  <2>1. \A t \in Tensors : Blocks'[t] = NoAlloc
    BY <1>3 DEF ResetAllocations, Blocks
  <2>2. arena'.bufsize = arena.bufsize /\ ~arena'.committed
    BY <1>2, <1>3 DEF ResetAllocations, ClearPlan, TypeOK
  <2> QED BY <1>1, <2>1, <2>2 DEF Contract!Drop, Blocks
<1>4. ASSUME NEW node \in Nodes, ResetAllocationsAfter(node) PROVE Contract!Drop
  <2>1. \A t \in Tensors : Blocks'[t] \in {Blocks[t], NoAlloc}
    BY <1>4 DEF ResetAllocationsAfter, Blocks
  <2>2. /\ arena'.bufsize = arena.bufsize /\ (arena'.committed <=> arena.committed)
        /\ status' = status
    BY <1>2, <1>4 DEF ResetAllocationsAfter, CalculateActiveAllocs, PurgeAfter, TypeOK
  <2> QED BY <1>1, <2>1, <2>2 DEF Contract!Drop, Blocks
<1> QED BY <1>3, <1>4

\* Allocate places a block, an empty one included.
LEMMA AllocateIsPlace ==
  ASSUME IInv, IInv', AllocateReturns
  PROVE  \E t \in Tensors : Contract!Place(t)
<1>1. Blocks' \in [Tensors -> Alloc \union {NoAlloc}] /\ TypeOK
  BY DEF IInv, TypeOK, Blocks
<1> DEFINE t == req.tensor
<1>2. /\ t \in Tensors /\ status = "search" /\ status' = "calculate"
      /\ allocs' = [allocs EXCEPT ![t] = Found]
  BY DEF AllocateReturns, IInv, SearchInv, RequestOK, Alloc
<1>3. arena'.bufsize = arena.bufsize
  BY <1>1, <1>2 DEF AllocateReturns, Insert, TypeOK
<1> HIDE DEF t
<1>4. allocs'[t] = Found /\ \A u \in Tensors \ {t} : allocs'[u] = allocs[u]
  BY <1>1, <1>2 DEF TypeOK
<1>5. ASSUME NEW u \in Tensors \ {t}, allocs'[t].size > 0, allocs[u].size > 0,
             allocs'[t].first <= allocs[u].last, allocs[u].first <= allocs'[t].last
      PROVE  \/ allocs'[t].offset + allocs'[t].size <= allocs[u].offset
             \/ allocs[u].offset + allocs[u].size <= allocs'[t].offset
  <2>1. allocs[u].first \in Int /\ allocs[u].last \in Int
    BY <1>1, FieldTypes
  <2>2. Found.first \in Int /\ Found.last \in Int
    BY NumNodesAssumption, NotAssignedAssumption
      DEF Found, AllocateReturns, IInv, SearchInv, RequestOK, Alloc, Nodes
  <2>3. Intersects(Found, allocs[u])
    BY <1>4, <1>5, <2>1, <2>2 DEF Intersects
  <2> QED BY <1>4, <1>5, <2>3, NewBlockApart DEF Disjoint
<1>6. Contract!Place(t)
  BY <1>1, <1>2, <1>3, <1>4, <1>5
    DEF Contract!Place, Contract!NeededTogether, Contract!Apart, Blocks
<1> QED BY <1>2, <1>6

\* A Commit makes the blocks ready, or says that they are not.
LEMMA CommitIsMakeReady ==
  ASSUME IInv, IInv', NEW mallocOk \in BOOLEAN,
         CommitSegment(mallocOk) \/ AcquireNonPersistentMemory(mallocOk)
  PROVE  Contract!MakeReady \/ Contract!NotReady
<1>1. /\ TypeOK /\ TypeOK' /\ status \in {"planned", "idle"} /\ status' = "idle"
      /\ arena' = Commit(arena, mallocOk) /\ allocs' = allocs
  BY DEF IInv, CommitSegment, AcquireNonPersistentMemory
<1>2. /\ arena'.bufsize >= arena.bufsize
      /\ ~arena'.committed => arena'.bufsize = arena.bufsize
  BY <1>1, CommitFits
<1>3. arena'.bufsize \in Nat /\ arena'.committed \in BOOLEAN
  BY <1>1 DEF TypeOK, Size
<1>4. CASE arena'.committed
  <2>1. \A t \in Tensors : allocs[t].offset + allocs[t].size <= arena'.bufsize
    <3> SUFFICES ASSUME NEW t \in Tensors
                 PROVE  allocs[t].offset + allocs[t].size <= arena'.bufsize
      OBVIOUS
    <3>1. allocs'[t].offset + allocs'[t].size <= arena'.hwm /\ arena'.hwm <= arena'.bufsize
      BY <1>1, <1>4 DEF IInv, PlanSound, HighWaterMarkCoversPlan, CommittedFits
    <3>2. allocs[t].offset \in Nat /\ allocs[t].size \in Nat /\ arena'.hwm \in Nat
      BY <1>1, FieldTypes DEF Size, TypeOK
    <3> QED BY <1>1, <1>3, <3>1, <3>2
  <2>2. Contract!MakeReady
    BY <1>1, <1>2, <1>3, <1>4, <2>1 DEF Contract!MakeReady
  <2> QED BY <2>2
<1>5. CASE ~arena'.committed
  BY <1>1, <1>2, <1>5 DEF Contract!NotReady
<1> QED BY <1>3, <1>4, <1>5

\* Every step of the arena is a step of its contract, or changes nothing
\* that the contract speaks of.
LEMMA ContractNext == IInv /\ IInv' /\ [Next]_vars => [Contract!Next]_(Contract!vars)
<1> SUFFICES ASSUME IInv, IInv', [Next]_vars
             PROVE  Contract!Next \/ UNCHANGED Contract!vars
  OBVIOUS
<1> USE DEF Contract!Next, Contract!vars
<1>1. CASE ResetAllocations \/ \E node \in Nodes : ResetAllocationsAfter(node)
  BY <1>1, ResetIsDrop
<1>2. ASSUME NEW first \in Nodes, NEW last \in Nodes, BeginSegment(first, last)
      PROVE  Contract!NotReady
  <2>1. arena'.bufsize = arena.bufsize /\ status = "idle" /\ status' = "calculate"
        /\ allocs' = allocs
    BY <1>2 DEF BeginSegment, ResetAllocs, PurgeActiveAllocs, IInv, TypeOK
  <2> QED BY <2>1 DEF Contract!NotReady
<1>3. ASSUME NEW r \in Requests, BeginAllocate(r)
      PROVE  UNCHANGED Contract!vars
  BY <1>3 DEF BeginAllocate
<1>4. CASE SearchStep
  BY <1>4 DEF SearchStep
<1>5. CASE AllocateReturns
  BY <1>5, AllocateIsPlace
<1>6. CASE AllocateFails
  <2>1. /\ Blocks' = [t \in Tensors |-> NoAlloc] /\ status' = "failed" /\ arena' = arena
    BY <1>6 DEF AllocateFails, Blocks
  <2>2. Contract!Drop
    BY <2>1 DEF Contract!Drop, Blocks
  <2> QED BY <2>2
<1>7. CASE EndSegment
  BY <1>7 DEF EndSegment
<1>8. ASSUME NEW mallocOk \in BOOLEAN,
             CommitSegment(mallocOk) \/ AcquireNonPersistentMemory(mallocOk)
      PROVE  Contract!MakeReady \/ Contract!NotReady
  BY <1>8, CommitIsMakeReady
<1>9. CASE ReleaseNonPersistentMemory
  <2>1. arena'.bufsize = 0 /\ ~arena'.committed /\ status' = status /\ allocs' = allocs
    BY <1>9 DEF ReleaseNonPersistentMemory, ReleaseBuffer, IInv, TypeOK
  <2>2. Contract!Release
    BY <2>1 DEF Contract!Release
  <2> QED BY <2>2
<1>10. ASSUME NEW first \in Nodes, NEW last \in Nodes, EmptySegment(first, last)
       PROVE  Contract!NotReady
  BY <1>10 DEF EmptySegment, Contract!NotReady
<1>11. CASE UNCHANGED vars
  BY <1>11 DEF vars
<1> QED
  BY <1>1, <1>2, <1>3, <1>4, <1>5, <1>6, <1>7, <1>8, <1>9, <1>10, <1>11 DEF Next

\* The arena with its best-fit search and its three ways of forgetting
\* allocs implements the contract: blocks are placed apart, and a ready
\* arena holds them all.
THEOREM Refinement == Spec => ImplementsContract
<1>1. Init => Contract!Init
  BY ContractInit
<1>2. IInv /\ IInv' /\ [Next]_vars => [Contract!Next]_(Contract!vars)
  BY ContractNext
<1> QED BY SpecIInv, <1>1, <1>2, PTL DEF Spec, Contract!Spec, ImplementsContract

=============================================================================
