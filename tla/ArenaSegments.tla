--------------------------- MODULE ArenaSegments ---------------------------
(***************************************************************************)
(* The non-persistent arena as ArenaPlanner drives it: the graph is        *)
(* planned in segments of consecutive execution indices (one segment per   *)
(* call of ExecuteAllocations), a later call may forget the plan of every  *)
(* index after a node and plan on from there, and the arena is told, by    *)
(* PurgeActiveAllocs, PurgeAfter or CalculateActiveAllocs, which of its    *)
(* blocks still count. The best-fit search of Allocate is modelled turn by *)
(* turn of its loop.                                                       *)
(*                                                                         *)
(* What the tensors are and why they are allocated is left to the caller:  *)
(* any tensor may ask for any size at any index of the segment.            *)
(***************************************************************************)
EXTENDS SimpleMemoryArena

CONSTANTS Tensors,    \* the tensors of the graph
          NumNodes,   \* number of nodes of the execution plan
          Sizes       \* the sizes tensors ask for, bytes

ASSUME TensorsAssumption == IsFiniteSet(Tensors)
ASSUME NumNodesAssumption == NumNodes \in Nat /\ NumNodes <= kNodeNotAssigned
ASSUME SizesAssumption == Sizes \subseteq Size

Nodes == 0 .. NumNodes - 1
kLastActiveNodeUndefined == kNodeNotAssigned

VARIABLES arena,        \* arena_
          allocs,       \* allocs_ of the planner: what Allocate returned
          lastActive,   \* last_active_node_
          segment,      \* first and last node of the running ExecuteAllocations
          status,       \* where the planner is, see Status
          req,          \* the block the running Allocate looks for
          rest,         \* active allocs its loop has not visited yet
          search        \* local variables of its loop

vars == <<arena, allocs, lastActive, segment, status, req, rest, search>>

(***************************************************************************)
(* idle: no call runs; calculate: within CalculateAllocations, between two *)
(* Allocate calls; search: within the loop of Allocate; planned: before    *)
(* Commit; failed: an Allocate returned an error, and so did               *)
(* ExecuteAllocations, leaving the plan half made.                         *)
(***************************************************************************)
Status == {"idle", "calculate", "search", "planned", "failed"}

Alloc == [tensor : Tensors, offset : Size, size : Size, first : Nodes,
          last : Nodes \union {kNodeNotAssigned}]

Requests == {r \in [tensor : Tensors, offset : {0}, size : Sizes, first : Nodes,
                    last : Nodes \union {kNodeNotAssigned}] : r.first <= r.last}

NoRequest == NoAlloc
NoSegment == <<0, 0>>

Init ==
  /\ arena = EmptyArena
  /\ allocs = [t \in Tensors |-> NoAlloc]
  /\ lastActive = kLastActiveNodeUndefined
  /\ segment = NoSegment
  /\ status = "idle"
  /\ req = NoRequest
  /\ rest = {}
  /\ search = SearchStart

(***************************************************************************)
(* ArenaPlanner::ResetAllocations. After a failed call it is what the      *)
(* caller's next AllocateTensors begins with.                              *)
(***************************************************************************)
ResetAllocations ==
  /\ status \in {"idle", "failed"}
  /\ arena' = ClearPlan(arena)
  /\ allocs' = [t \in Tensors |-> NoAlloc]
  /\ lastActive' = kLastActiveNodeUndefined
  /\ status' = "idle"
  /\ UNCHANGED <<segment, req, rest, search>>

(***************************************************************************)
(* ArenaPlanner::ResetAllocationsAfter, and a mutant that never goes back  *)
(* to the allocs that were active at the node.                             *)
(***************************************************************************)
ResetAllocationsAfterPurgesOnly(node) ==
  /\ status = "idle"
  /\ allocs' = [t \in Tensors |->
                  IF allocs[t].first > node /\ allocs[t].size > 0
                  THEN NoAlloc ELSE allocs[t]]
  /\ arena' = PurgeAfter(arena, node)
  /\ lastActive' = node
  /\ UNCHANGED <<segment, status, req, rest, search>>

ResetAllocationsAfter(node) ==
  /\ status = "idle"
  /\ allocs' = [t \in Tensors |->
                  IF allocs[t].first > node /\ allocs[t].size > 0
                  THEN NoAlloc ELSE allocs[t]]
  /\ arena' = IF lastActive > node
              THEN CalculateActiveAllocs(arena, {allocs'[t] : t \in Tensors}, node)
              ELSE PurgeAfter(arena, node)
  /\ lastActive' = node
  /\ UNCHANGED <<segment, status, req, rest, search>>

(***************************************************************************)
(* The head of CalculateAllocations for the nodes first..last. The caller  *)
(* goes back before last_active_node_ only when nothing is planned         *)
(* (Subgraph plans on from where it stopped, or resets first).             *)
(***************************************************************************)
BeginSegment(first, last) ==
  /\ status = "idle"
  /\ first <= last
  /\ first < lastActive => \A t \in Tensors : allocs[t].size = 0
  /\ segment' = <<first, last>>
  /\ IF first < lastActive
     THEN arena' = ResetAllocs(arena) /\ lastActive' = first
     ELSE arena' = PurgeActiveAllocs(arena, first) /\ UNCHANGED lastActive
  /\ status' = "calculate"
  /\ UNCHANGED <<allocs, req, rest, search>>

\* CalculateAllocations finds nothing to allocate for the nodes first..last
\* and returns before it tells the arena anything.
EmptySegment(first, last) ==
  /\ status = "idle"
  /\ first <= last
  /\ first < lastActive => \A t \in Tensors : allocs[t].size = 0
  /\ segment' = <<first, last>>
  /\ lastActive' = last
  /\ status' = "planned"
  /\ UNCHANGED <<arena, allocs, req, rest, search>>

\* Allocate is called for a tensor of the segment that has no block, or one
\* that is smaller. A tensor two nodes of the segment list (a variable that
\* a node writes) is allocated twice: its second block replaces the first.
\* A tensor of no bytes is never among the ones to allocate.
BeginAllocate(r) ==
  /\ status = "calculate"
  /\ r.first \in segment[1] .. segment[2]
  /\ allocs[r.tensor].size <= r.size
  /\ r.size > 0
  /\ status' = "search"
  /\ req' = r
  /\ rest' = arena.active
  /\ search' = SearchStart
  /\ UNCHANGED <<arena, allocs, lastActive, segment>>

NextInAnyOrder(a) == a \in rest   \* mutant: active_allocs_ is not kept sorted

\* The alloc the loop comes to next: one of the lowest offset.
NextInOrder(a) == a \in rest /\ \A b \in rest : a.offset <= b.offset

\* The loop is left: it ran through, it broke at a perfect fit, or an
\* addition overflowed.
SearchEnded == rest = {} \/ search.fit = 0 \/ ~search.ok

SearchStep ==
  /\ status = "search"
  /\ ~SearchEnded
  /\ \E a \in rest :
       /\ NextInOrder(a)
       /\ search' = SearchVisit(search, a, req)
       /\ rest' = rest \ {a}
  /\ UNCHANGED <<arena, allocs, lastActive, segment, status, req>>

\* The block the search has found a place for.
Found == [req EXCEPT !.offset = ChosenOffset(search)]

AllocateReturns ==
  /\ status = "search"
  /\ SearchEnded
  /\ SearchSucceeds(search, req.size)
  /\ allocs' = [allocs EXCEPT ![req.tensor] = Found]
  /\ arena' = Insert(arena, Found)
  /\ status' = "calculate"
  /\ req' = NoRequest
  /\ rest' = {}
  /\ search' = SearchStart
  /\ UNCHANGED <<lastActive, segment>>

AllocateFails ==
  /\ status = "search"
  /\ SearchEnded
  /\ ~SearchSucceeds(search, req.size)
  /\ allocs' = [allocs EXCEPT ![req.tensor] =
                  [req EXCEPT !.offset = allocs[req.tensor].offset]]
  /\ status' = "failed"
  /\ req' = NoRequest
  /\ rest' = {}
  /\ search' = SearchStart
  /\ segment' = NoSegment
  /\ UNCHANGED <<arena, lastActive>>

EndSegment ==
  /\ status = "calculate"
  /\ lastActive' = segment[2]
  /\ status' = "planned"
  /\ UNCHANGED <<arena, allocs, segment, req, rest, search>>

\* The Commit of ExecuteAllocations, which ends the call either way.
CommitSegment(mallocOk) ==
  /\ status = "planned"
  /\ arena' = Commit(arena, mallocOk)
  /\ status' = "idle"
  /\ segment' = NoSegment
  /\ UNCHANGED <<allocs, lastActive, req, rest, search>>

ReleaseNonPersistentMemory ==
  /\ status \in {"idle", "failed"}
  /\ arena' = ReleaseBuffer(arena)
  /\ UNCHANGED <<allocs, lastActive, segment, status, req, rest, search>>

AcquireNonPersistentMemory(mallocOk) ==
  /\ status = "idle"
  /\ arena' = Commit(arena, mallocOk)
  /\ UNCHANGED <<allocs, lastActive, segment, status, req, rest, search>>

Next ==
  \/ ResetAllocations
  \/ \E node \in Nodes : ResetAllocationsAfter(node)
  \/ \E first, last \in Nodes : BeginSegment(first, last)
  \/ \E first, last \in Nodes : EmptySegment(first, last)
  \/ \E r \in Requests : BeginAllocate(r)
  \/ SearchStep
  \/ AllocateReturns
  \/ AllocateFails
  \/ EndSegment
  \/ \E mallocOk \in BOOLEAN : CommitSegment(mallocOk)
  \/ ReleaseNonPersistentMemory
  \/ \E mallocOk \in BOOLEAN : AcquireNonPersistentMemory(mallocOk)

Spec == Init /\ [][Next]_vars

-----------------------------------------------------------------------------
(***************************************************************************)
(* Properties                                                              *)
(***************************************************************************)

\* Every variable has its type; ArenaPlanner and SimpleMemoryArena state.
TypeOK ==
  /\ arena \in [active : SUBSET Alloc, hwm : Size, committed : BOOLEAN, bufsize : Size]
  /\ allocs \in [Tensors -> Alloc \union {NoAlloc}]
  /\ lastActive \in Nodes \union {kLastActiveNodeUndefined}
  /\ segment \in (Nodes \X Nodes) \union {NoSegment}
  /\ status \in Status
  /\ req \in Alloc \union {NoRequest}
  /\ rest \subseteq arena.active
  /\ search \in [best : Size, fit : Size, current : Size, ok : BOOLEAN]

\* Two tensors whose usage intervals share an execution index never share a
\* byte of the arena, whatever the planner purged, recalculated or reset in
\* between (SimpleMemoryArena::Allocate looks at active_allocs_ only).
PlanDisjoint ==
  status # "failed" =>
    \A t, u \in Tensors :
      /\ t # u
      /\ allocs[t].size > 0
      /\ allocs[u].size > 0
      /\ Intersects(allocs[t], allocs[u])
      => Disjoint(allocs[t], allocs[u])

\* Between calls a committed arena resolves every alloc of the plan
\* (ResolveAlloc's bounds check cannot fail in ExecuteAllocations and
\* AcquireNonPersistentMemory).
CommittedResolves ==
  status = "idle" /\ arena.committed =>
    \A t \in Tensors : ResolveAllocOk(arena, allocs[t])

\* The offset an Allocate hands out is a multiple of the alignment.
AllocsAligned ==
  status # "failed" => \A t \in Tensors : allocs[t].offset % Alignment = 0

\* The loop of Allocate, taken turn by turn and in any order of allocs of
\* equal offset, chooses the offset that the operator Search computes in one
\* go. (Near SizeMax that order can decide which of them overflows.)
LoopComputesSearch ==
  status = "search" /\ SearchEnded =>
    LET s == Search(arena, req)
    IN  search.ok /\ s.ok => ChosenOffset(search) = ChosenOffset(s)

(***************************************************************************)
(* The arena implements its contract. Between a failed Allocate and the    *)
(* reset that follows it the plan is not one the planner may use: it reads *)
(* as dropped.                                                             *)
(***************************************************************************)
Contract == INSTANCE ArenaContract WITH
  Block <- Alloc,
  NoBlock <- NoAlloc,
  blocks <- IF status = "failed" THEN [t \in Tensors |-> NoAlloc] ELSE allocs,
  capacity <- arena.bufsize,
  ready <- status = "idle" /\ arena.committed

ImplementsContract == Contract!Spec
=============================================================================
