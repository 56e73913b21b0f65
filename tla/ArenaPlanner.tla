---------------------------- MODULE ArenaPlanner ----------------------------
(***************************************************************************)
(* tflite/arena_planner.cc: which tensors need memory, from which node to  *)
(* which, which of them share a buffer, and where they are. The operators  *)
(* take the graph g, the tensors ts and the planner p and return the new   *)
(* ones; a call that allocates also takes the outcome of malloc.           *)
(*                                                                         *)
(* A graph is [nodes, inputs, outputs, variables, preserve]: nodes is a    *)
(* function from the execution index to [in, out, tmp : Seq(tensor),       *)
(* shared : set of positions of in, view : BOOLEAN], the last two being    *)
(* inplace_operator; preserve is preserve_all_tensors_.                    *)
(*                                                                         *)
(* A tensor is [bytes, dims, type, data]: type is allocation_type ("rw",   *)
(* "persistent", "dynamic"), data is data.raw: a Pointer into an arena,    *)
(* Heap, Null, or Dangling when the buffer it pointed into was freed.      *)
(*                                                                         *)
(* A planner is [allocs, lastActive, arena, persistentArena, actualId,     *)
(* allocNode, deallocNode, nodesToTensors, hasNonPersistent]; actualId is  *)
(* the map actual_tensor_id_, a function whose domain is the tensors that  *)
(* use the buffer of another one.                                          *)
(***************************************************************************)
EXTENDS SimpleMemoryArena

CONSTANT kScalarTensorBytes   \* no modified tensor this small is shared

ASSUME ScalarAssumption == kScalarTensorBytes \in Nat

kLastActiveNodeUndefined == kNodeNotAssigned

Pointer(arena, offset) == [where |-> arena, offset |-> offset]
Null == [where |-> "null", offset |-> 0]
Heap == [where |-> "heap", offset |-> 0]
Dangling == [where |-> "freed", offset |-> 0]

TensorsOf(ts) == DOMAIN ts
NodesOf(g) == DOMAIN g.nodes

\* The planner before its first call.
NewPlanner(g, ts) ==
  [allocs |-> [t \in TensorsOf(ts) |-> NoAlloc],
   lastActive |-> kLastActiveNodeUndefined,
   arena |-> EmptyArena,
   persistentArena |-> EmptyArena,
   actualId |-> << >>,
   allocNode |-> [t \in TensorsOf(ts) |-> kNodeNotAssigned],
   deallocNode |-> [t \in TensorsOf(ts) |-> kNodeNotAssigned],
   nodesToTensors |-> [i \in NodesOf(g) |-> {}],
   hasNonPersistent |-> FALSE]

ResetAllocations(p) ==
  [p EXCEPT !.arena = ClearPlan(@),
            !.persistentArena = ClearPlan(@),
            !.allocs = [t \in DOMAIN @ |-> NoAlloc],
            !.lastActive = kLastActiveNodeUndefined]

\* The data pointers of the tensors of S are assigned.
WithData(ts, S, data(_)) ==
  [t \in TensorsOf(ts) |-> IF t \in S THEN [ts[t] EXCEPT !.data = data(t)] ELSE ts[t]]

\* The tensors whose block ResetAllocationsAfter takes back.
ForgottenAfter(ts, p, node) ==
  {t \in TensorsOf(ts) : /\ p.allocs[t].first > node
                         /\ p.allocs[t].size > 0
                         /\ ts[t].type = "rw"}

ResetAllocationsAfterKeepsLast(ts, p, node) ==   \* mutant: last_active_node_ stays
  LET gone == ForgottenAfter(ts, p, node)
  IN  [ts |-> WithData(ts, gone, LAMBDA t : Null),
       p |-> [p EXCEPT !.allocs = [t \in DOMAIN @ |-> IF t \in gone THEN NoAlloc ELSE @[t]]]]

ResetAllocationsAfter(ts, p, node) ==
  LET gone == ForgottenAfter(ts, p, node)
      allocs == [t \in TensorsOf(ts) |-> IF t \in gone THEN NoAlloc ELSE p.allocs[t]]
  IN  [ts |-> WithData(ts, gone, LAMBDA t : Null),
       p |-> [p EXCEPT
                !.allocs = allocs,
                !.arena = IF p.lastActive > node
                          THEN CalculateActiveAllocs(@, {allocs[t] : t \in TensorsOf(ts)}, node)
                          ELSE PurgeAfter(@, node),
                !.lastActive = node]]

(***************************************************************************)
(* Sharing of buffers.                                                     *)
(***************************************************************************)
FindSharedTensor(actualId, t) == IF t \in DOMAIN actualId THEN actualId[t] ELSE t

One(condition) == IF condition THEN 1 ELSE 0

OuterReferencesButInputs(g, t) ==   \* mutant: graph inputs are not counted
  One(t \in g.outputs) + One(t \in g.variables)

\* References from outside the nodes: outputs, variables and graph inputs.
OuterReferences(g, t) == One(t \in g.outputs) + One(t \in g.variables) + One(t \in g.inputs)

\* The inputs of nodes (a node may read a tensor twice) that are t, as seen
\* through the map of shared tensors.
References(g, actualId, t) ==
  {use \in UNION {{i} \X DOMAIN g.nodes[i].in : i \in NodesOf(g)} :
     FindSharedTensor(actualId, g.nodes[use[1]].in[use[2]]) = t}

RefCountOutside(g, t) == OuterReferences(g, t)   \* mutant: inputs of nodes not counted

\* refcounts_: used to decide on sharing, before anything is shared.
RefCount(g, t) == OuterReferences(g, t) + Cardinality(References(g, << >>, t))

InputTensorCanBeShared(g, ts, input, output, changed) ==
  /\ changed => /\ ts[input].bytes = ts[output].bytes
                /\ ts[input].bytes > kScalarTensorBytes
                /\ RefCount(g, input) <= 1
  /\ input \notin g.inputs
  /\ output \notin g.outputs
  /\ ts[input].type \in {ts[output].type, "rw"}
  /\ ~g.preserve

\* The map with the first output of node i added, if it can use the buffer
\* of one of the node's inputs: the first one that qualifies.
ShareNode(g, ts, actualId, i) ==
  LET node == g.nodes[i]
      output == node.out[1]
      candidates == {j \in node.shared \intersect DOMAIN node.in :
                       InputTensorCanBeShared(g, ts, node.in[j], output, ~node.view)}
      root == FindSharedTensor(actualId, node.in[Min(candidates)])
  IN  IF node.out = << >> \/ candidates = {} \/ (~node.view /\ RefCount(g, root) > 1)
      THEN actualId
      ELSE [t \in DOMAIN actualId \union {output} |-> IF t = output THEN root ELSE actualId[t]]

NodeSeq(first, last) == [k \in 1 .. last - first + 1 |-> first + k - 1]

IdentifyInPlaceTensors(g, ts) ==
  FoldLeft(LAMBDA actualId, i : ShareNode(g, ts, actualId, i), << >>,
           NodeSeq(0, Cardinality(NodesOf(g)) - 1))

(***************************************************************************)
(* PlanAllocations: when each buffer is needed. A graph input or variable  *)
(* is allocated at node 0, another tensor at the node that outputs it; it  *)
(* is given back at the last node that reads it or a tensor sharing it,    *)
(* unless something outside the nodes refers to it.                        *)
(***************************************************************************)
AllocNode(g, t) ==
  LET producers == {i \in NodesOf(g) : t \in Range(g.nodes[i].out)}
  IN  CASE t \in g.inputs \union g.variables -> 0
        [] t \notin g.inputs \union g.variables /\ producers # {} -> Min(producers)
        [] OTHER -> kNodeNotAssigned

DeallocNodeIgnoresSharing(g, actualId, t) ==   \* mutant: uses of t alone
  LET uses == References(g, << >>, t)
  IN  IF \/ AllocNode(g, t) = kNodeNotAssigned
         \/ OuterReferences(g, t) > 0
         \/ uses = {}
         \/ g.preserve
      THEN kNodeNotAssigned
      ELSE Max({use[1] : use \in uses})

DeallocNode(g, actualId, t) ==
  LET uses == References(g, actualId, t)
  IN  IF \/ AllocNode(g, t) = kNodeNotAssigned
         \/ OuterReferences(g, t) > 0
         \/ uses = {}
         \/ g.preserve
      THEN kNodeNotAssigned
      ELSE Max({use[1] : use \in uses})

PlanAllocations(g, ts, p) ==
  LET actualId == IdentifyInPlaceTensors(g, ts)
  IN  [ResetAllocations(p) EXCEPT
         !.actualId = actualId,
         !.allocNode = [t \in TensorsOf(ts) |-> AllocNode(g, t)],
         !.deallocNode = [t \in TensorsOf(ts) |-> DeallocNode(g, actualId, t)],
         !.nodesToTensors =
            [i \in NodesOf(g) |->
               Range(g.nodes[i].out)
               \union (IF i = 0 THEN g.inputs \union g.variables ELSE {})]]

(***************************************************************************)
(* CalculateAllocations: the offsets of the tensors of nodes first..last.  *)
(***************************************************************************)

\* A tensor that two nodes list comes twice.
TensorsToAllocate(ts, p, first, last) ==
  {listed \in UNION {{i} \X p.nodesToTensors[i] : i \in first .. last} :
     LET t == listed[2]
     IN  \/ ts[t].type = "rw" /\ p.allocs[t].size < ts[t].bytes
         \/ ts[t].type = "persistent"}

\* The order of CreateTensorAllocationVector: tensors needed throughout, by
\* index; then larger ones first; then by the node that allocates them.
\* (What std::sort leaves open is ordered by index.)
WholeLife(p, t) == p.allocNode[t] = 0 /\ p.deallocNode[t] = kNodeNotAssigned

Before(ts, p, a, b) ==
  LET t == a[2]
      u == b[2]
  IN  \/ WholeLife(p, t) /\ ~WholeLife(p, u)
      \/ WholeLife(p, t) /\ WholeLife(p, u) /\ t < u
      \/ /\ ~WholeLife(p, t) /\ ~WholeLife(p, u)
         /\ \/ ts[t].bytes > ts[u].bytes
            \/ ts[t].bytes = ts[u].bytes /\ p.allocNode[t] < p.allocNode[u]
            \/ ts[t].bytes = ts[u].bytes /\ p.allocNode[t] = p.allocNode[u] /\ t < u
      \/ t = u /\ a[1] < b[1]

CreateTensorAllocationVector(ts, p, listed) ==
  [k \in 1 .. Cardinality(listed) |->
     CHOOSE a \in listed : Cardinality({b \in listed : Before(ts, p, b, a)}) = k - 1]

Request(t, size, first, last) ==
  [tensor |-> t, offset |-> 0, size |-> size, first |-> first, last |-> last]

\* Tensor t may go on sharing the buffer of another: both are still of one
\* size and the other one is still in the arena.
StillShared(ts, p, t) ==
  /\ t \in DOMAIN p.actualId
  /\ ts[p.actualId[t]].type = "rw"
  /\ ts[p.actualId[t]].bytes = ts[t].bytes

(***************************************************************************)
(* A call of ExecuteAllocations under way: [ok, ts, p, listed, moved], ok  *)
(* being FALSE once it has returned an error, listed tensors_allocated and *)
(* moved whether a buffer has moved.                                       *)
(***************************************************************************)
InArena(call, t, r) ==
  [call EXCEPT !.ok = r.ok, !.p.arena = r.arena, !.p.allocs[t] = r.alloc]

InPersistentArena(call, t, r) ==
  [call EXCEPT !.ok = r.ok, !.p.persistentArena = r.arena, !.p.allocs[t] = r.alloc]

AllocateOwnForItsLife(call, t) ==   \* mutant: a persistent block ends with its last use
  LET ts == call.ts
      p == call.p
      request == Request(t, ts[t].bytes, p.allocNode[t], p.deallocNode[t])
  IN  CASE ts[t].type = "rw" -> InArena(call, t, Allocate(p.arena, p.allocs[t], request))
        [] ts[t].type = "persistent" /\ p.allocs[t].size = 0 /\ ts[t].bytes > 0 ->
             InPersistentArena(call, t, Allocate(p.persistentArena, p.allocs[t], request))
        [] OTHER -> call

\* A tensor that has its own buffer, or has it from now on.
AllocateOwn(call, t) ==
  LET ts == call.ts
      p == call.p
  IN  CASE ts[t].type = "rw" ->
             InArena(call, t, Allocate(p.arena, p.allocs[t],
               Request(t, ts[t].bytes, p.allocNode[t], p.deallocNode[t])))
        [] ts[t].type = "persistent" /\ p.allocs[t].size = 0 /\ ts[t].bytes > 0 ->
             InPersistentArena(call, t, Allocate(p.persistentArena, p.allocs[t],
               Request(t, ts[t].bytes, p.allocNode[t], kNodeNotAssigned)))
        [] OTHER -> call

\* One turn of the allocation loop; a failed Allocate ends it.
AllocateTensor(call, t) ==
  IF ~call.ok \/ StillShared(call.ts, call.p, t) THEN call
  ELSE AllocateOwn([call EXCEPT !.p.actualId = Restrict(@, DOMAIN @ \ {t})], t)

\* The head: the arena is told from which node on it is asked.
StartAllocations(p, first) ==
  IF first < p.lastActive
  THEN [p EXCEPT !.arena = ResetAllocs(@), !.lastActive = first]
  ELSE [p EXCEPT !.arena = PurgeActiveAllocs(@, first)]

\* The end: the last node planned for, unless the call has returned.
EndAllocations(call, last) == IF call.ok THEN [call EXCEPT !.p.lastActive = last] ELSE call

AllocateListed(ts, p, first, last, listed) ==
  IF listed = {} THEN [ok |-> TRUE, ts |-> ts, p |-> [p EXCEPT !.lastActive = last],
                       listed |-> {}, moved |-> FALSE]
  ELSE EndAllocations(
         FoldLeft(LAMBDA call, entry : AllocateTensor(call, entry[2]),
                  [ok |-> TRUE, ts |-> ts, p |-> StartAllocations(p, first),
                   listed |-> {entry[2] : entry \in listed}, moved |-> FALSE],
                  CreateTensorAllocationVector(ts, p, listed)),
         last)

CalculateAllocations(ts, p, first, last) ==
  AllocateListed(ts, p, first, last, TensorsToAllocate(ts, p, first, last))

(***************************************************************************)
(* Addresses.                                                              *)
(***************************************************************************)

\* A buffer that moves leaves every pointer into it dangling.
BufferMoved(ts, arena) ==
  WithData(ts, {t \in TensorsOf(ts) : ts[t].data.where = arena}, LAMBDA t : Dangling)

\* The address of a tensor with a buffer of its own.
OwnPointer(ts, p, t) ==
  CASE ts[t].type = "rw" /\ p.allocs[t].size # 0 -> Pointer("rw", p.allocs[t].offset)
    [] ts[t].type = "persistent" ->
         IF p.allocs[t].size = 0 THEN Null ELSE Pointer("persistent", p.allocs[t].offset)
    [] OTHER -> ts[t].data

SharesPointer(ts, p, t) ==
  /\ t \in DOMAIN p.actualId
  /\ ts[t].type = ts[p.actualId[t]].type
  /\ ts[t].type \in {"rw", "persistent"}

\* ResolveTensorAllocation for each tensor of S. The buffer of a shared
\* tensor is resolved with it.
ResolveTensors(ts, p, S) ==
  LET roots == {p.actualId[t] : t \in {u \in S : SharesPointer(ts, p, u)}}
      buffer(t) == IF t \in S /\ SharesPointer(ts, p, t) THEN p.actualId[t] ELSE t
  IN  WithData(ts, S \union roots, LAMBDA t : OwnPointer(ts, p, buffer(t)))

\* Every ResolveAlloc that ResolveTensors makes succeeds.
Resolvable(ts, p, S) ==
  \A t \in S :
    ~SharesPointer(ts, p, t) =>
      /\ ts[t].type = "rw" /\ p.allocs[t].size # 0 => ResolveAllocOk(p.arena, p.allocs[t])
      /\ ts[t].type = "persistent" => ResolveAllocOk(p.persistentArena, p.allocs[t])

(***************************************************************************)
(* ExecuteAllocations(first, last). A failure returns at once and leaves   *)
(* what was done so far: a plan without a buffer, or a buffer that moved   *)
(* with no tensor told so.                                                 *)
(***************************************************************************)
AddTemporaries(g, p, first, last) ==
  LET users(t) == {i \in first .. last : t \in Range(g.nodes[i].tmp)}
      temporaries == UNION {Range(g.nodes[i].tmp) : i \in first .. last}
      upToLastUser(nodes) ==
        [t \in DOMAIN nodes |-> IF t \in temporaries THEN Max(users(t)) ELSE nodes[t]]
  IN  [p EXCEPT
         !.allocNode = upToLastUser(@),
         !.deallocNode = IF g.preserve THEN @ ELSE upToLastUser(@),
         !.nodesToTensors =
            [i \in NodesOf(g) |->
               IF i \in first .. last THEN @[i] \union Range(g.nodes[i].tmp) ELSE @[i]]]

\* ArenaPlanner::Commit, one arena after the other. The buffer moves when it
\* grows.
CommitArena(call, mallocOk) ==
  IF ~call.ok THEN call
  ELSE IF Reallocates(call.p.arena) /\ ~mallocOk
  THEN [call EXCEPT !.ok = FALSE, !.p.arena = Commit(@, FALSE)]
  ELSE [call EXCEPT !.ts = IF Reallocates(call.p.arena) THEN BufferMoved(@, "rw") ELSE @,
                    !.p.arena = Commit(@, TRUE),
                    !.p.hasNonPersistent = TRUE,
                    !.moved = Reallocates(call.p.arena)]

CommitPersistentArena(call, mallocOk) ==
  IF ~call.ok THEN call
  ELSE IF Reallocates(call.p.persistentArena) /\ ~mallocOk
  THEN [call EXCEPT !.ok = FALSE, !.p.persistentArena = Commit(@, FALSE)]
  ELSE [call EXCEPT !.ts = IF Reallocates(call.p.persistentArena)
                           THEN BufferMoved(@, "persistent") ELSE @,
                    !.p.persistentArena = Commit(@, TRUE),
                    !.moved = @ \/ Reallocates(call.p.persistentArena)]

ResolveOnlyListed(call) == call.listed   \* mutant: a moved arena goes unnoticed

\* The tensors whose address is computed again.
TensorsToResolve(call) == IF call.moved THEN TensorsOf(call.ts) ELSE call.listed

ResolveAllocations(call) ==
  IF ~call.ok THEN call
  ELSE IF ~Resolvable(call.ts, call.p, TensorsToResolve(call))
  THEN [call EXCEPT !.ok = FALSE]
  ELSE [call EXCEPT !.ts = ResolveTensors(@, call.p, TensorsToResolve(call))]

ExecuteAllocations(g, ts, p, first, last, mallocOk, persistentMallocOk) ==
  ResolveAllocations(
    CommitPersistentArena(
      CommitArena(CalculateAllocations(ts, AddTemporaries(g, p, first, last), first, last),
                  mallocOk),
      persistentMallocOk))

\* ArenaPlanner::ReleaseNonPersistentMemory.
ReleaseArena(ts, p) ==
  [p |-> [p EXCEPT !.arena = ReleaseBuffer(@), !.hasNonPersistent = FALSE],
   ts |-> WithData(ts, {t \in TensorsOf(ts) : ts[t].type = "rw"}, LAMBDA t : Null)]
=============================================================================
