------------------------------ MODULE Subgraph ------------------------------
(***************************************************************************)
(* tflite/core/subgraph.cc: one subgraph and the client that allocates,    *)
(* fills, invokes, resizes and releases it. AllocateTensors prepares the   *)
(* nodes up to the first output of unknown size and plans their memory;    *)
(* Invoke runs the nodes and prepares and plans on as sizes become known,  *)
(* or plans again when one changes.                                        *)
(*                                                                         *)
(* Invoke is taken node by node: visit (prepare if it is the node's turn,  *)
(* check the inputs), then run. The other calls are one action each. A     *)
(* call that returns an error without changing anything is not a step.     *)
(*                                                                         *)
(* held[t] is the memory that still holds the value last written to t      *)
(* (Nothing once another write took it); t can be read when that is where  *)
(* its data pointer points.                                                *)
(***************************************************************************)
EXTENDS Kernels

CONSTANTS Graphs,    \* the graphs a subgraph may be built from
          Faults     \* which calls may fail, a subset of AllFaults

AllFaults == {"mallocInAllocate", "mallocInInvoke", "prepare", "op"}

ASSUME FaultsAssumption == Faults \subseteq AllFaults

NumNodes(g) == Cardinality(NodesOf(g))

KernelKinds == {"add", "reshape", "reshapeTo", "unique", "svdf"}

\* The tensors a node may size and write.
Makes(node) == Range(node.out) \union Range(node.tmp)

\* Models are sorted: a node makes no tensor that it or an earlier node reads,
\* and none that the client or the model file fills. Kernels have their numbers
\* of tensors. Persistent are the variables, among them the state of an svdf,
\* and an svdf's second temporary, none of them empty; nothing else is.
ASSUME GraphsAssumption ==
  \A g \in Graphs :
    /\ NumNodes(g) \in Nat \ {0} /\ NodesOf(g) = 0 .. NumNodes(g) - 1
    /\ NumNodes(g) <= kNodeNotAssigned
    /\ TensorsOf(g.tensors) \subseteq Int /\ IsFiniteSet(TensorsOf(g.tensors))
    /\ g.tensors \in [TensorsOf(g.tensors) -> [bytes : Size, dims : Dims,
                                               type : {"rw", "persistent"}, data : {Null}]]
    /\ g.inputs \union g.outputs \union g.variables \subseteq TensorsOf(g.tensors)
    /\ g.inputSizes \subseteq Sizes
    /\ \A t \in TensorsOf(g.tensors) :
         g.tensors[t].type = "persistent" => g.tensors[t].bytes > 0
    /\ \A t \in g.inputs : g.tensors[t].type = "rw"
    /\ \A t \in g.variables : g.tensors[t].type = "persistent"
    /\ \A i \in NodesOf(g) :
         LET node == g.nodes[i]
         IN  /\ {node.in, node.out, node.tmp} \subseteq Seq(TensorsOf(g.tensors))
             /\ node.kind \in KernelKinds
             /\ Len(node.in) = (IF node.kind \in {"add", "svdf"} THEN 2 ELSE 1)
             /\ Len(node.out) = (IF node.kind = "unique" THEN 2 ELSE 1)
             /\ Len(node.tmp) = (IF node.kind = "svdf" THEN 2 ELSE 0)
             /\ node.shared \subseteq Nat /\ node.view \in BOOLEAN
             /\ \A t \in Range(node.out) : g.tensors[t].type = "rw"
             /\ node.kind = "svdf" => /\ node.in[2] \in g.variables
                                      /\ g.tensors[node.tmp[1]].type = "rw"
                                      /\ g.tensors[node.tmp[2]].type = "persistent"
             /\ Makes(node) \intersect (g.inputs \union g.variables) = {}
             /\ \A k \in 0 .. i : Makes(node) \intersect Range(g.nodes[k].in) = {}

VARIABLES graph,        \* nodes, inputs, outputs, options, client's sizes; never changes
          tensors,      \* tensors_
          planner,      \* memory_planner_
          hasPlanner,   \* memory_planner_ was created
          state,        \* state_
          nextPrepare,  \* next_execution_plan_index_to_prepare_
          nextPlan,     \* next_execution_plan_index_to_plan_allocation_
          pc,           \* idle, or where Invoke is: visit or run
          index,        \* execution_plan_index of Invoke
          held,         \* where the value of each tensor is
          filled,       \* graph inputs the client wrote since AllocateTensors
          initialized,  \* svdf nodes that computed their persistent temporary
          preparedFor,  \* input dims each node was last prepared with
          invokeOk      \* the outputs are those of an Invoke that succeeded

vars == <<graph, tensors, planner, hasPlanner, state, nextPrepare, nextPlan, pc, index,
          held, filled, initialized, preparedFor, invokeOk>>

Node == graph.nodes[index]

Nothing == [where |-> "nothing", offset |-> 0, size |-> 0]
NotPrepared == << >>

Init ==
  /\ graph \in Graphs
  /\ tensors = graph.tensors
  /\ planner = NewPlanner(graph, tensors)
  /\ hasPlanner = FALSE
  /\ state = "uninvokable"
  /\ nextPrepare = 0
  /\ nextPlan = 0
  /\ pc = "idle"
  /\ index = 0
  /\ held = [t \in TensorsOf(tensors) |-> Nothing]
  /\ filled = {}
  /\ initialized = {}
  /\ preparedFor = [i \in NodesOf(graph) |-> NotPrepared]
  /\ invokeOk = FALSE

(***************************************************************************)
(* Memory contents.                                                        *)
(***************************************************************************)
OnArena(place) == place.where \in {"rw", "persistent"}

Region(ts, t) ==
  [where |-> ts[t].data.where, offset |-> ts[t].data.offset, size |-> ts[t].bytes]

Overlap(a, b) ==
  /\ OnArena(a)
  /\ a.where = b.where
  /\ a.offset < b.offset + b.size
  /\ b.offset < a.offset + a.size

\* The value of t is where its data pointer points.
Readable(t) ==
  /\ held[t].where \in {"rw", "persistent", "heap"}
  /\ held[t].where = tensors[t].data.where
  /\ held[t].offset = tensors[t].data.offset

\* Writing the tensors W takes the memory of every value they overlap.
Written(ts, W) ==
  [u \in TensorsOf(ts) |->
     CASE u \in W -> IF \E w \in W \ {u} : Overlap(Region(ts, u), Region(ts, w))
                     THEN Nothing ELSE Region(ts, u)
       [] u \notin W /\ (\E w \in W : Overlap(held[u], Region(ts, w))) -> Nothing
       [] OTHER -> held[u]]

(***************************************************************************)
(* PrepareOpsStartingAt and PrepareOpsAndTensors. Each ends at the first   *)
(* error, so one failure per call is enough: the Prepare of a node, or the *)
(* allocation of one of the two arenas (which malloc says).                *)
(***************************************************************************)
NoFailure == <<"none", 0>>
PrepareFails(i) == <<"prepare", i>>
ArenaFails == <<"arena", 0>>
PersistentArenaFails == <<"persistent", 0>>

Failures(malloc) ==
  {NoFailure}
  \union (IF "prepare" \in Faults THEN {PrepareFails(i) : i \in NodesOf(graph)} ELSE {})
  \union (IF malloc \in Faults THEN {ArenaFails, PersistentArenaFails} ELSE {})

InputDims(ts, node) == [j \in DOMAIN node.in |-> ts[node.in[j]].dims]

NodePrepared(acc, i, ts) ==
  [ok |-> TRUE,
   stopped |-> StopsPreparation(ts, graph.nodes[i]),
   last |-> i,
   ts |-> ts,
   preparedFor |-> [acc.preparedFor EXCEPT ![i] = InputDims(acc.ts, graph.nodes[i])]]

PrepareNodeHidesError(acc, i, failure) ==   \* mutant: a failed Prepare only stops the loop
  IF acc.stopped THEN acc
  ELSE IF failure = PrepareFails(i) THEN [acc EXCEPT !.stopped = TRUE]
  ELSE NodePrepared(acc, i, OpPrepare(acc.ts, graph.nodes[i]))

PrepareNode(acc, i, failure) ==
  IF acc.stopped THEN acc
  ELSE IF failure = PrepareFails(i) THEN [acc EXCEPT !.ok = FALSE, !.stopped = TRUE]
  ELSE NodePrepared(acc, i, OpPrepare(acc.ts, graph.nodes[i]))

PrepareOpsStartingAt(first, failure) ==
  FoldLeft(LAMBDA acc, i : PrepareNode(acc, i, failure),
           [ok |-> TRUE, stopped |-> FALSE, last |-> 0, ts |-> tensors,
            preparedFor |-> preparedFor],
           NodeSeq(first, NumNodes(graph) - 1))

\* The next state of everything the call changes, from the planner p, and
\* whether it succeeds. The index to prepare moves on before the memory is
\* there; the index to plan only after.
AfterAllocations(prepared, executed, planFirst) ==
  [ok |-> executed.ok, ts |-> executed.ts, p |-> executed.p, hasPlanner |-> TRUE,
   nextPrepare |-> prepared.last + 1,
   nextPlan |-> IF executed.ok THEN prepared.last + 1 ELSE planFirst,
   preparedFor |-> prepared.preparedFor]

AllocatePrepared(prepared, p, first, planFirst, failure) ==
  IF prepared.ok
  THEN AfterAllocations(
         prepared,
         ExecuteAllocations(graph, prepared.ts,
                            IF hasPlanner THEN p ELSE PlanAllocations(graph, prepared.ts, p),
                            planFirst, prepared.last,
                            failure # ArenaFails, failure # PersistentArenaFails),
         planFirst)
  ELSE [ok |-> FALSE, ts |-> prepared.ts, p |-> p, hasPlanner |-> hasPlanner,
        nextPrepare |-> first, nextPlan |-> planFirst, preparedFor |-> prepared.preparedFor]

PrepareOpsAndTensors(p, first, planFirst, failure) ==
  AllocatePrepared(PrepareOpsStartingAt(first, failure), p, first, planFirst, failure)

Becomes(r) ==
  /\ tensors' = r.ts
  /\ planner' = r.p
  /\ hasPlanner' = r.hasPlanner
  /\ nextPrepare' = r.nextPrepare
  /\ nextPlan' = r.nextPlan
  /\ preparedFor' = r.preparedFor

(***************************************************************************)
(* The calls of the client.                                                *)
(***************************************************************************)

\* In another state the call finds nothing to do and returns. Variables are
\* zeroed when the memory is there; the client has to fill the inputs.
AllocateTensors(failure) ==
  /\ pc = "idle"
  /\ state = "uninvokable"
  /\ \E r \in {PrepareOpsAndTensors(
                  IF hasPlanner THEN ResetAllocations(planner) ELSE planner, 0, 0, failure)} :
       /\ Becomes(r)
       /\ state' = IF r.ok THEN "invokable" ELSE "uninvokable"
       /\ held' = IF r.ok THEN Written(r.ts, graph.variables) ELSE held
  /\ filled' = {}
  /\ invokeOk' = FALSE
  /\ UNCHANGED <<graph, pc, index, initialized>>

ResizeInputTensor(t, dims) ==
  /\ pc = "idle"
  /\ tensors[t].data = Null \/ tensors[t].dims # dims
  /\ state' = "uninvokable"
  /\ tensors' = [tensors EXCEPT ![t] = ResizeTensorImpl(@, dims)]
  /\ filled' = filled \ {t}
  /\ UNCHANGED <<graph, planner, hasPlanner, nextPrepare, nextPlan, pc, index, held,
                 initialized, preparedFor, invokeOk>>

ReleaseLeavesInvokable ==   \* mutant: state_ stays as it is
  LET r == ReleaseArena(tensors, planner)
  IN  /\ pc = "idle"
      /\ hasPlanner
      /\ planner' = r.p
      /\ tensors' = r.ts
      /\ UNCHANGED <<graph, hasPlanner, state, nextPrepare, nextPlan, pc, index, held, filled,
                     initialized, preparedFor, invokeOk>>

ReleaseNonPersistentMemory ==
  LET r == ReleaseArena(tensors, planner)
  IN  /\ pc = "idle"
      /\ hasPlanner
      /\ state' = "uninvokable"
      /\ planner' = r.p
      /\ tensors' = r.ts
      /\ held' = [t \in TensorsOf(tensors) |->
                    IF held[t].where = "rw" THEN Nothing ELSE held[t]]
      /\ filled' = {}
      /\ invokeOk' = FALSE
      /\ UNCHANGED <<graph, hasPlanner, nextPrepare, nextPlan, pc, index, initialized,
                     preparedFor>>

\* The client writes the graph inputs through their data pointers, before an
\* Invoke and as often as it likes between two.
FillInputs ==
  /\ pc = "idle"
  /\ state = "invokable"
  /\ held' = Written(tensors, graph.inputs)
  /\ filled' = graph.inputs
  /\ UNCHANGED <<graph, tensors, planner, hasPlanner, state, nextPrepare, nextPlan, pc, index,
                 initialized, preparedFor, invokeOk>>

(***************************************************************************)
(* Invoke.                                                                 *)
(***************************************************************************)
BeginInvoke ==
  /\ pc = "idle"
  /\ state = "invokable"
  /\ planner.hasNonPersistent
  /\ filled = graph.inputs
  /\ pc' = "visit"
  /\ index' = 0
  /\ invokeOk' = FALSE
  /\ UNCHANGED <<graph, tensors, planner, hasPlanner, state, nextPrepare, nextPlan, held,
                 filled, initialized, preparedFor>>

LeaveInvoke == pc' = "idle" /\ index' = 0

\* "Input tensor %d lacks data" ends the Invoke.
LacksData(ts, node) == \E j \in DOMAIN node.in : ts[node.in[j]].data = Null

VisitNode ==
  /\ pc = "visit"
  /\ index \in NodesOf(graph)
  /\ index # nextPrepare
  /\ IF LacksData(tensors, Node) THEN LeaveInvoke ELSE pc' = "run" /\ UNCHANGED index
  /\ UNCHANGED <<graph, tensors, planner, hasPlanner, state, nextPrepare, nextPlan, held,
                 filled, initialized, preparedFor, invokeOk>>

VisitAndPrepareNode(failure) ==
  /\ pc = "visit"
  /\ index \in NodesOf(graph)
  /\ index = nextPrepare
  /\ \E r \in {PrepareOpsAndTensors(planner, nextPrepare, nextPlan, failure)} :
       /\ Becomes(r)
       /\ IF ~r.ok \/ LacksData(r.ts, Node) THEN LeaveInvoke
          ELSE pc' = "run" /\ UNCHANGED index
  /\ UNCHANGED <<graph, state, held, filled, initialized, invokeOk>>

\* A cancellation flag is set: nothing was run.
CancelInvoke ==
  /\ pc = "run"
  /\ LeaveInvoke
  /\ UNCHANGED <<graph, tensors, planner, hasPlanner, state, nextPrepare, nextPlan, held,
                 filled, initialized, preparedFor, invokeOk>>

\* MaybeReleaseDynamicTensors: dynamic tensors no later node uses.
LastUse(t) == Max({i \in NodesOf(graph) : t \in Range(graph.nodes[i].in)
                                              \union Range(graph.nodes[i].out)})

ReleasedDynamicOutputs(ts, node) ==   \* mutant: graph outputs are released too
  {t \in Range(node.in) \union Range(node.out) :
     /\ graph.release
     /\ ts[t].type = "dynamic"
     /\ LastUse(t) = index}

ReleasedDynamic(ts, node) ==
  {t \in Range(node.in) \union Range(node.out) :
     /\ graph.release
     /\ ts[t].type = "dynamic"
     /\ t \notin graph.inputs \union graph.outputs
     /\ LastUse(t) = index}

\* A view in its input's buffer has the value that is there.
AfterEval(ts, node) ==
  LET W == EvalWrites(ts, node, index \in initialized)
      out == node.out[1]
  IN  IF node.view /\ out \notin W
      THEN [held EXCEPT ![out] = IF Readable(node.in[1]) THEN Region(ts, out) ELSE Nothing]
      ELSE Written(ts, W)

\* A dynamic output that changed its dims makes the nodes after it be
\* prepared, and if they were planned already, planned again.
PrepareAgain(sized, dims) ==
  EvalResized(tensors, Node, dims) /\ HasDynamicTensor(sized, Range(Node.out))

PlanAgain(sized, again) ==
  IF again /\ nextPlan > index + 1
  THEN ResetAllocationsAfter(sized, planner, index)
  ELSE [ts |-> sized, p |-> planner]

RunNode(dims) ==
  /\ pc = "run"
  /\ dims \in EvalDims(tensors, Node)
  /\ \E sized \in {EvalResize(tensors, Node, dims)} :
     \E again \in {PrepareAgain(sized, dims)} :
     \E r \in {PlanAgain(sized, again)} :
     \E released \in {ReleasedDynamic(r.ts, Node)} :
     \E after \in {AfterEval(sized, Node)} :
       /\ tensors' = WithData(r.ts, released, LAMBDA t : Null)
       /\ held' = [t \in DOMAIN after |-> IF t \in released THEN Nothing ELSE after[t]]
       /\ planner' = r.p
       /\ nextPrepare' = IF again THEN index + 1 ELSE nextPrepare
       /\ nextPlan' = IF again /\ nextPlan > index + 1 THEN index + 1 ELSE nextPlan
  /\ initialized' = IF Node.kind = "svdf" THEN initialized \union {index} ELSE initialized
  /\ index' = index + 1
  /\ pc' = "visit"
  /\ UNCHANGED <<graph, hasPlanner, state, filled, preparedFor, invokeOk>>

\* The kernel reports an error: its outputs are in no known state.
RunNodeFails ==
  LET W == EvalWrites(tensors, Node, index \in initialized)
  IN  /\ pc = "run"
      /\ "op" \in Faults
      /\ held' = [t \in TensorsOf(tensors) |->
                    IF t \in W \ graph.variables THEN Nothing ELSE Written(tensors, W)[t]]
      /\ LeaveInvoke
      /\ UNCHANGED <<graph, tensors, planner, hasPlanner, state, nextPrepare, nextPlan,
                     filled, initialized, preparedFor, invokeOk>>

InvokeReturns ==
  /\ pc = "visit"
  /\ index \notin NodesOf(graph)
  /\ LeaveInvoke
  /\ invokeOk' = TRUE
  /\ UNCHANGED <<graph, tensors, planner, hasPlanner, state, nextPrepare, nextPlan, held,
                 filled, initialized, preparedFor>>

Next ==
  \/ \E failure \in Failures("mallocInAllocate") : AllocateTensors(failure)
  \/ \E t \in graph.inputs, n \in graph.inputSizes :
       ResizeInputTensor(t, <<n, tensors[t].dims[2]>>)
  \/ ReleaseNonPersistentMemory
  \/ FillInputs
  \/ BeginInvoke
  \/ VisitNode
  \/ \E failure \in Failures("mallocInInvoke") : VisitAndPrepareNode(failure)
  \/ CancelInvoke
  \/ \E dims \in Dims : RunNode(dims)
  \/ RunNodeFails
  \/ InvokeReturns

Spec == Init /\ [][Next]_vars

-----------------------------------------------------------------------------
(***************************************************************************)
(* Properties                                                              *)
(***************************************************************************)
Places == [where : {"rw", "persistent", "heap", "null", "freed", "nothing"}, offset : Size]

\* Every variable has its type; Subgraph state, the planner's part by field.
TypeOK ==
  /\ \A t \in TensorsOf(graph.tensors) :
       /\ tensors[t].bytes \in Size
       /\ tensors[t].dims \in Dims
       /\ tensors[t].type \in {"rw", "persistent", "dynamic"}
       /\ tensors[t].data \in Places
       /\ [where |-> held[t].where, offset |-> held[t].offset] \in Places
       /\ planner.allocs[t].offset \in Size /\ planner.allocs[t].size \in Size
  /\ DOMAIN planner.actualId \subseteq TensorsOf(graph.tensors)
  /\ hasPlanner \in BOOLEAN /\ planner.hasNonPersistent \in BOOLEAN
  /\ state \in {"uninvokable", "invokable"}
  /\ {nextPrepare, nextPlan, index} \subseteq 0 .. NumNodes(graph)
  /\ pc \in {"idle", "visit", "run"}
  /\ filled \subseteq graph.inputs
  /\ initialized \subseteq NodesOf(graph)
  /\ invokeOk \in BOOLEAN

\* A node that is about to run finds in each of its inputs the value its
\* producer (or the client) wrote: no tensor planned over it, no buffer
\* shared with it, no arena that moved and no tensor released in between
\* took it. InvokeImpl, with everything ArenaPlanner decides.
ReadsSeeProducer ==
  pc = "run" => \A j \in DOMAIN Node.in : Readable(Node.in[j])

\* What the node about to run writes lies in the arena's buffer as it is
\* now, or will be sized by the node itself: no null or dangling pointer and
\* no write past the end (InvokeImpl checks the inputs only).
WritesInBounds ==
  pc = "run" =>
    \A t \in EvalWrites(tensors, Node, index \in initialized) :
      LET data == tensors[t].data
          buffer(where) == IF where = "rw" THEN planner.arena.bufsize
                           ELSE planner.persistentArena.bufsize
      IN  \/ tensors[t].type = "dynamic" \/ Node.kind = "reshapeTo"
          \/ OnArena(data) /\ data.offset + tensors[t].bytes <= buffer(data.where)

\* The node about to run does not write over its own inputs, except over one
\* its kernel declares shareable, and no two of its outputs and temporaries
\* overlap (IdentifyInPlaceTensors and the usage intervals).
NodeWritesApart ==
  pc = "run" =>
    LET W == EvalWrites(tensors, Node, index \in initialized)
        region(t) == Region(tensors, t)
    IN  /\ \A t, u \in W : t # u => ~Overlap(region(t), region(u))
        /\ \A t \in W, j \in DOMAIN Node.in :
             /\ t # Node.in[j]
             /\ Overlap(region(t), region(Node.in[j]))
             => /\ t = Node.out[1]
                /\ j \in Node.shared
                /\ tensors[t].data = tensors[Node.in[j]].data

\* Graph inputs stay as the client filled them, however often the graph is
\* invoked, replanned or cancelled ("make sure they are never overwritten",
\* PlanAllocations).
InputsPreserved == \A t \in filled : Readable(t)

\* The outputs of an Invoke that succeeded can be read until the next call
\* that may change them, inputs filled in between included.
OutputsReadable == invokeOk => \A t \in graph.outputs : Readable(t)

\* Variables keep their value from one Invoke to the next ("need to be alive
\* all the time", PlanAllocations), cancelled and failed ones included.
VariablesPreserved == state = "invokable" => \A t \in graph.variables : Readable(t)

\* A persistent temporary that its kernel computes once is still there when
\* the kernel runs again, although AllocateTensors clears the persistent
\* plan too (svdf.cc never resets float_weights_time_initialized).
CachesReadable ==
  pc = "run" /\ index \in initialized => Readable(Node.tmp[2])

\* A node runs with the dims it was prepared for.
PreparedForInputs ==
  pc = "run" => preparedFor[index] = InputDims(tensors, Node)

\* Between two Invokes and between two nodes the next plan starts after the
\* last node that is planned for: CalculateAllocations, which forgets every
\* active alloc when it starts before, never does so while the plan is used.
PlansOnFromLastActive == state = "invokable" => planner.lastActive < nextPlan

\* An invokable subgraph has its arena: the test for it in AllocateTensors
\* and Invoke never finds it missing.
InvokableHasMemory ==
  state = "invokable" => hasPlanner /\ planner.hasNonPersistent
=============================================================================
