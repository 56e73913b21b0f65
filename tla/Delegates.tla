------------------------------ MODULE Delegates ------------------------------
(***************************************************************************)
(* tflite/core/subgraph.cc: delegates take nodes out of the execution plan *)
(* and put kernels of their own in their place, and the subgraph undoes    *)
(* and repeats this when an input is resized, or for good when one of them *)
(* fails. Each call of the client is one action; faults says what goes     *)
(* wrong in it.                                                            *)
(*                                                                         *)
(* The graph, with what its delegates make of it, is the record graph:     *)
(*   ops, inputs, outputs   ops are [in, out] with sets of tensors         *)
(*   resources      the tensors of kTfLiteResource                         *)
(*   unsized        the ops whose outputs have no size before they run     *)
(*   claims         the ops each delegate supports                         *)
(*   allowDynamic   the delegates with                                     *)
(*                  kTfLiteDelegateFlagsAllowDynamicTensors                *)
(*   makesDynamic   those of them whose kernels' outputs have no size      *)
(*   greedily, preserve   ~DisableDelegateClustering,                      *)
(*                  ShouldPreserveAllTensors                               *)
(*                                                                         *)
(* The subgraph is the record sub:                                         *)
(*   nodes          nodes_and_registration_: [in, out, effect, by, runs,   *)
(*                  live]; the ops, then the kernels. by is the delegate,  *)
(*                  runs the ops a node stands for; live: not freed        *)
(*   plan, pre      execution_plan_, pre_delegation_execution_plan_        *)
(*   applied, undone   delegates_applied_, delegates_undone_               *)
(*   state          state_                                                 *)
(*   marks          the delegate field of each tensor                      *)
(*   hasPlanner, lifetimes   memory_planner_, the nodes it planned for     *)
(*   allocated      the tensors it gave memory to                          *)
(*   prepared, nextPrepare   the nodes prepared, and how many of the plan  *)
(*   status         what the last call returned                            *)
(***************************************************************************)
EXTENDS GraphInfo

CONSTANTS
  Delegates,
  NoDelegate,
  Graphs,
  Faults          \* sets of faults of one call

FaultKinds == {"refuse", "init", "prepare", "memory"}

ASSUME DelegatesAssumption ==
  /\ NoDelegate \notin Delegates
  /\ \A g \in Graphs : g.makesDynamic \subseteq g.allowDynamic /\ g.allowDynamic \subseteq Delegates
\* Models are sorted: an op reads inputs of the model and outputs of earlier
\* ops, and every tensor has one source.
ASSUME GraphsAssumption ==
  \A g \in Graphs :
    /\ g.ops # << >> /\ g.ops \in Seq([in : SUBSET Int, out : SUBSET Int])
    /\ \A i \in DOMAIN g.ops :
         /\ g.ops[i].in \subseteq g.inputs \union UNION {g.ops[j].out : j \in 1..(i - 1)}
         /\ g.ops[i].out \intersect g.inputs = {}
         /\ \A j \in 1..(i - 1) : g.ops[i].out \intersect g.ops[j].out = {}
    /\ g.claims \in [Delegates -> SUBSET DOMAIN g.ops]
    /\ g.greedily \in BOOLEAN /\ g.preserve \in BOOLEAN
ASSUME FaultsAssumption == Faults \subseteq SUBSET FaultKinds /\ {} \in Faults

VARIABLES graph, sub

vars == <<graph, sub>>

Tensors == graph.inputs \union UNION {graph.ops[i].out : i \in DOMAIN graph.ops}

-----------------------------------------------------------------------------
(* Nodes.                                                                  *)

OpMightHaveSideEffect(in, out) == (in \union out) \intersect graph.resources # {}

NewNode(in, out, by, runs) ==
  [in |-> in, out |-> out, effect |-> OpMightHaveSideEffect(in, out), by |-> by,
   runs |-> runs, live |-> TRUE]

\* A kernel has outputs of unknown size also when an op it runs has.
IsUnsized(node) ==
  \/ node.by \in graph.makesDynamic
  \/ \E i \in DOMAIN node.runs : node.runs[i] \in graph.unsized

Init ==
  /\ graph \in Graphs
  /\ sub = [nodes |-> [i \in DOMAIN graph.ops |->
                         NewNode(graph.ops[i].in, graph.ops[i].out, NoDelegate, <<i>>)],
            plan |-> Indices(Len(graph.ops)),
            pre |-> << >>, applied |-> << >>, undone |-> FALSE,
            state |-> "uninvokable",
            marks |-> [t \in Tensors |-> NoDelegate],
            hasPlanner |-> FALSE, lifetimes |-> << >>, allocated |-> {},
            prepared |-> {}, nextPrepare |-> 1,
            status |-> "ok"]

-----------------------------------------------------------------------------
(* Preparation and memory. A call under way is [s, ok].                    *)

\* PrepareOpsStartingAt ends after the first node without a size.
LastToPrepare(s, first) ==
  LET stops == {i \in first..Len(s.plan) : IsUnsized(s.nodes[s.plan[i]])}
  IN  IF stops = {} THEN Len(s.plan) ELSE CHOOSE i \in stops : \A j \in stops : i <= j

HasDynamicTensors(s) == \E i \in DOMAIN s.plan : IsUnsized(s.nodes[s.plan[i]])

\* The kernels of delegates fail to prepare.
PrepareOpsStartingAt(s, first, faults) ==
  LET last == LastToPrepare(s, first)
      bad == {i \in first..last : "prepare" \in faults /\ s.nodes[s.plan[i]].by # NoDelegate}
  IN  [ok |-> bad = {},
       s |-> [s EXCEPT !.prepared =
                @ \union {s.plan[i] : i \in {j \in first..last : \A k \in bad : j < k}}]]

\* The nodes of the plan as PlanAllocations sees them.
Lifetimes(s) == [i \in DOMAIN s.plan |-> s.nodes[s.plan[i]].out]

PlanAllocations(s) ==
  [s EXCEPT !.hasPlanner = TRUE, !.lifetimes = Lifetimes(s), !.allocated = {}]

\* The planner is made when it is needed first.
EnsurePlanner(s) == IF s.hasPlanner THEN s ELSE PlanAllocations(s)

ExecuteAllocations(s, last, faults) ==
  [ok |-> "memory" \notin faults,
   s |-> IF "memory" \in faults THEN s
         ELSE [s EXCEPT !.allocated =
                 @ \union graph.inputs
                   \union UNION {s.lifetimes[i] : i \in {j \in DOMAIN s.lifetimes : j <= last}}]]

AllocatePrepared(r, last, faults) ==
  IF r.ok
  THEN ExecuteAllocations(EnsurePlanner([r.s EXCEPT !.nextPrepare = last + 1]), last, faults)
  ELSE r

PrepareOpsAndTensors(s, faults) ==
  AllocatePrepared(PrepareOpsStartingAt(s, s.nextPrepare, faults),
                   LastToPrepare(s, s.nextPrepare), faults)

MakeInvokable(r) == IF r.ok THEN [r EXCEPT !.s.state = "invokable"] ELSE r

\* AllocateTensors once the delegates are back.
AllocateRedone(s, faults) ==
  IF s.state # "uninvokable" THEN [ok |-> TRUE, s |-> s]
  ELSE MakeInvokable(PrepareOpsAndTensors(
         [s EXCEPT !.nextPrepare = 1, !.prepared = {}, !.allocated = {}], faults))

EnsureMemoryAllocationsOldPlan(s, faults) ==   \* mutant: PlanAllocations is not called again
  AllocateRedone(IF s.hasPlanner THEN [s EXCEPT !.state = "uninvokable"] ELSE s, faults)

EnsureMemoryAllocations(s, faults) ==
  AllocateRedone(IF s.hasPlanner THEN PlanAllocations([s EXCEPT !.state = "uninvokable"])
                 ELSE s, faults)

-----------------------------------------------------------------------------
(* Undoing.                                                                *)

UndoAllDelegates(s) ==
  LET freed == [i \in DOMAIN s.nodes |->
                  IF i \in Range(s.plan) /\ s.nodes[i].by # NoDelegate
                  THEN [s.nodes[i] EXCEPT !.live = FALSE] ELSE s.nodes[i]]
      maxRetained == CHOOSE i \in Range(s.pre) : \A j \in Range(s.pre) : j <= i
  IN  IF s.pre = << >> THEN s
      ELSE [s EXCEPT !.plan = s.pre,
                     !.pre = << >>,
                     !.nodes = SubSeq(freed, 1, maxRetained),
                     !.prepared = @ \intersect 1..maxRetained,
                     !.state = "uninvokable",
                     !.undone = TRUE]

RemoveAllKeepsPlan(s, faults) ==   \* mutant: the delegates are forgotten, not undone
  EnsureMemoryAllocations([s EXCEPT !.applied = << >>, !.undone = FALSE], faults)

RemoveAll(s, faults) ==
  EnsureMemoryAllocations([UndoAllDelegates(s) EXCEPT !.applied = << >>, !.undone = FALSE],
                          faults)

\* The status of a call that fails with status once r is done.
FailsWith(status, r) == [status |-> IF r.ok THEN status ELSE "error", s |-> r.s]

\* reset_delegation_if_not_ok after a failure.
ResetDelegation(s, faults) == FailsWith("delegateError", RemoveAll(s, faults))

-----------------------------------------------------------------------------
(* Applying a delegate.                                                    *)

PlanNodes(s) ==
  [i \in DOMAIN s.plan |->
     [id |-> s.plan[i], in |-> s.nodes[s.plan[i]].in, out |-> s.nodes[s.plan[i]].out,
      effect |-> s.nodes[s.plan[i]].effect]]

\* The nodes a delegate finds in the plan and supports: ops, no kernels.
Claimed(s, d) ==
  {i \in DOMAIN s.plan : s.nodes[s.plan[i]].by = NoDelegate
                         /\ s.plan[i] \in graph.claims[d]}

\* A kernel in the place of a subset. It is initialised, put into the plan,
\* marks its outputs in their order up to one another delegate has marked,
\* and then belongs to its delegate.
AddKernel(c, subset, d, initFails) ==
  LET s == c.s
      id == Len(s.nodes) + 1
      runs == FlattenSeq([i \in DOMAIN subset.nodes |-> s.nodes[subset.nodes[i]].runs])
      node == NewNode(subset.in, subset.out, NoDelegate, runs)
      taken == {t \in subset.out : s.marks[t] \notin {NoDelegate, d}}
      marked == {t \in subset.out : \A u \in taken : t < u}
      added == [s EXCEPT !.state = "uninvokable",
                         !.nodes = Append(@, node),
                         !.plan = Append(@, id),
                         !.marks = [t \in DOMAIN @ |-> IF t \in marked THEN d ELSE @[t]]]
  IN  IF initFails
      THEN [ok |-> FALSE, s |-> [s EXCEPT !.state = "uninvokable",
                                          !.nodes = Append(@, [node EXCEPT !.live = FALSE])]]
      ELSE IF taken # {} THEN [ok |-> FALSE, s |-> added]
      ELSE [ok |-> TRUE, s |-> [added EXCEPT !.nodes[id].by = d]]

\* The nodes of a subset that no delegate claims.
AddNodes(c, subset) == [c EXCEPT !.s.plan = @ \o subset.nodes]

\* With the fault "init" the last kernel fails.
ReplaceSubsets(s, d, parts, faults) ==
  LET kernels == {e \in DOMAIN parts.subsets : parts.subsets[e].type = "partition"}
      Replace(c, e) ==
        IF ~c.ok THEN c
        ELSE IF e \in kernels
             THEN AddKernel(c, parts.subsets[e], d,
                            "init" \in faults /\ \A f \in kernels : f <= e)
        ELSE AddNodes(c, parts.subsets[e])
  IN  IF ~parts.ok THEN [ok |-> FALSE, s |-> s]
      ELSE FoldLeft(Replace, [ok |-> TRUE, s |-> [s EXCEPT !.plan = << >>]],
                    Indices(Len(parts.subsets)))

ReplaceNodeSubsetsWithDelegateKernels(s, d, faults) ==
  IF Claimed(s, d) = {} THEN [ok |-> TRUE, s |-> s]
  ELSE ReplaceSubsets(s, d, Partition(PlanNodes(s), Claimed(s, d), graph.outputs,
                                      graph.greedily, graph.preserve), faults)

\* The Prepare of a delegate.
DelegatePrepare(s, d, faults) ==
  IF "refuse" \in faults THEN [ok |-> FALSE, s |-> s]
  ELSE ReplaceNodeSubsetsWithDelegateKernels(s, d, faults)

Applied(r, d, state, faults) ==
  IF r.ok THEN [status |-> "ok", s |-> [r.s EXCEPT !.state = state, !.applied = Append(@, d)]]
  ELSE ResetDelegation(r.s, faults)

AllocateAgain(s, d, state, faults) == Applied(EnsureMemoryAllocations(s, faults), d, state, faults)

\* CASE 2 after its PrepareOpsStartingAt.
StayImmutable(r, d, faults) ==
  IF ~r.ok THEN ResetDelegation(r.s, faults)
  ELSE IF HasDynamicTensors(r.s) THEN FailsWith("applicationError", RemoveAll(r.s, faults))
  ELSE AllocateAgain(r.s, d, "immutable", faults)

\* STEP 3: the graph is allocated again and immutable when d or an earlier
\* delegate needs known sizes, allocated again when it was, or left as it is.
LeaveConsistent(s, d, before, faults) ==
  IF d \notin graph.allowDynamic
  THEN AllocateAgain([s EXCEPT !.state = "uninvokable"], d, "immutable", faults)
  ELSE IF before = "immutable" THEN StayImmutable(PrepareOpsStartingAt(s, 1, faults), d, faults)
  ELSE IF before = "invokable" THEN AllocateAgain(s, d, "invokable", faults)
  ELSE Applied([ok |-> TRUE, s |-> s], d, s.state, faults)

\* STEP 2.
Delegate(s, d, before, faults) ==
  LET Left(r) == IF r.ok THEN LeaveConsistent(r.s, d, before, faults)
                 ELSE ResetDelegation(r.s, faults)
  IN  Left(DelegatePrepare(
        [s EXCEPT !.state = IF before = "immutable" THEN "uninvokable" ELSE @,
                  !.pre = IF s.applied = << >> THEN s.plan ELSE @], d, faults))

\* STEP 1 of a delegate that needs known sizes, after PrepareOpsStartingAt.
CheckSizes(r, d, faults) ==
  IF ~r.ok THEN [status |-> "error", s |-> r.s]
  ELSE IF HasDynamicTensors(r.s)
  THEN FailsWith("applicationError", EnsureMemoryAllocations(r.s, faults))
  ELSE Delegate(r.s, d, r.s.state, faults)

\* ModifyGraphWithDelegateImpl once the earlier delegates are back.
ApplyDelegate(s, d, faults) ==
  IF s.state # "immutable" /\ d \notin graph.allowDynamic
  THEN CheckSizes(PrepareOpsStartingAt(s, 1, faults), d, faults)
  ELSE Delegate(s, d, s.state, faults)

\* Applies delegates to s until one fails.
ApplyAll(s, delegates, faults) ==
  LET Apply(c, d) == IF c.status # "ok" THEN c ELSE ApplyDelegate(c.s, d, faults)
  IN  FoldLeft(Apply, [status |-> "ok", s |-> s], delegates)

RedoBackwards(s, faults) ==   \* mutant: the last delegate comes first
  ApplyAll(IF s.undone THEN [s EXCEPT !.undone = FALSE, !.applied = << >>] ELSE s,
           IF s.undone THEN Reverse(s.applied) ELSE << >>, faults)

RedoKeepsApplied(s, faults) ==   \* mutant: delegates_applied_ is copied, not swapped
  ApplyAll([s EXCEPT !.undone = FALSE], IF s.undone THEN s.applied ELSE << >>, faults)

RedoAllDelegates(s, faults) ==
  IF s.undone
  THEN ApplyAll([s EXCEPT !.undone = FALSE, !.applied = << >>], s.applied, faults)
  ELSE [status |-> "ok", s |-> s]

-----------------------------------------------------------------------------
(* The calls of the client.                                                *)

Returns(c) == sub' = [c.s EXCEPT !.status = c.status] /\ UNCHANGED graph

\* A client applies a delegate once.
ModifyGraphWithDelegate(d, faults) ==
  LET Apply(c) == IF c.status = "ok" THEN ApplyDelegate(c.s, d, faults) ELSE c
  IN  /\ d \notin Range(sub.applied)
      /\ Returns(Apply(RedoAllDelegates(sub, faults)))

Status(r) == [status |-> IF r.ok THEN "ok" ELSE "error", s |-> r.s]

AllocateTensors(faults) ==
  LET Allocate(c) == IF c.status = "ok" THEN Status(AllocateRedone(c.s, faults)) ELSE c
  IN  Returns(Allocate(RedoAllDelegates(sub, faults)))

\* To another shape.
ResizeInputTensor ==
  /\ sub.state = "immutable" => sub.applied # << >>
  /\ LET s == IF sub.state = "immutable" THEN UndoAllDelegates(sub) ELSE sub
     IN  Returns([status |-> "ok", s |-> [s EXCEPT !.state = "uninvokable"]])

ReleaseNonPersistentMemory ==
  /\ sub.hasPlanner
  /\ Returns([status |-> "ok", s |-> [sub EXCEPT !.state = "uninvokable", !.allocated = {}]])

RemoveAllDelegates(faults) == Returns(Status(RemoveAll(sub, faults)))

\* Nodes are prepared when their turn comes and their inputs have a size.
Invoke(faults) ==
  LET PrepareNext(c, k) == IF c.ok /\ c.s.nextPrepare = k THEN PrepareOpsAndTensors(c.s, faults)
                           ELSE c
  IN  /\ sub.state # "uninvokable"
      /\ Returns(Status(FoldLeft(PrepareNext, [ok |-> TRUE, s |-> sub], Indices(Len(sub.plan)))))

Next ==
  \/ \E faults \in Faults :
       \/ \E d \in Delegates : ModifyGraphWithDelegate(d, faults)
       \/ AllocateTensors(faults)
       \/ RemoveAllDelegates(faults)
       \/ Invoke(faults)
  \/ ResizeInputTensor
  \/ ReleaseNonPersistentMemory

Spec == Init /\ [][Next]_vars

-----------------------------------------------------------------------------
(* Properties.                                                             *)

\* The ops a plan runs, in their order.
OpsOf(plan) == FlattenSeq([i \in DOMAIN plan |-> sub.nodes[plan[i]].runs])

TypeOK ==
  /\ graph \in Graphs
  /\ sub.state \in {"uninvokable", "invokable", "immutable"}
  /\ sub.status \in {"ok", "delegateError", "applicationError", "error"}
  /\ IsInjective(sub.applied) /\ Range(sub.applied) \subseteq Delegates
  /\ sub.marks \in [Tensors -> Delegates \union {NoDelegate}]
  /\ sub.allocated \subseteq Tensors
  /\ sub.prepared \subseteq DOMAIN sub.nodes
  /\ sub.nextPrepare \in 1..(Len(graph.ops) + 1)

\* Whatever was applied, failed and undone, the plan runs every op once, after
\* the ops that make its inputs, from nodes that are not freed
\* (PartitionGraphIntoIndependentNodeSubsets, UndoAllDelegates).
PlanRunsGraph ==
  \A plan \in {sub.plan} \union ({sub.pre} \ {<< >>}) :
    /\ \A i \in DOMAIN plan : plan[i] \in DOMAIN sub.nodes /\ sub.nodes[plan[i]].live
    /\ LET ops == OpsOf(plan)
       IN  /\ IsInjective(ops) /\ Range(ops) = DOMAIN graph.ops
           /\ \A i \in DOMAIN ops :
                graph.ops[ops[i]].in \subseteq
                  graph.inputs \union UNION {graph.ops[ops[j]].out : j \in 1..(i - 1)}

\* The handles of the resources that op i works on.
Handles(i) == (graph.ops[i].in \union graph.ops[i].out) \intersect graph.resources

\* What a delegate may make in a kernel, which names it only when other nodes
\* need it.
MadeInKernels == UNION {graph.ops[i].out : i \in UNION {graph.claims[d] : d \in Delegates}}

MustKeepOrder(i, j) ==
  \/ ~graph.greedily
  \/ Handles(i) \intersect Handles(j) # {}
  \/ Handles(i) \ MadeInKernels # {} /\ Handles(j) \ MadeInKernels # {}

\* Ops with side effects keep the order they have in the model when they use
\* one handle, or handles that no kernel hides, and without greedy partitioning
\* all ops do (OpMightHaveSideEffect, PrepareControlEdges).
OrderKept ==
  LET ops == OpsOf(sub.plan)
  IN  \A i, j \in DOMAIN ops : i < j /\ MustKeepOrder(ops[i], ops[j]) => ops[i] < ops[j]

\* A kernel names exactly the tensors that come into its ops from outside, and
\* the ones they make that other nodes read or the model returns: the planner
\* sees no others (UpdateNode's two lists).
KernelTensors ==
  \A i \in DOMAIN sub.plan :
    LET node == sub.nodes[sub.plan[i]]
        inside == Range(node.runs)
        made == UNION {graph.ops[o].out : o \in inside}
        readElsewhere == UNION {graph.ops[o].in : o \in DOMAIN graph.ops \ inside}
    IN  /\ node.in = (UNION {graph.ops[o].in : o \in inside}) \ made
        /\ node.by # NoDelegate =>
             node.out = made \intersect (readElsewhere \union graph.outputs)

\* An immutable graph is ready: it has a delegate that needs known sizes, all
\* sizes are known, and every node is prepared and has its memory
\* (kStateInvokableAndImmutable).
ImmutableIsReady ==
  sub.state = "immutable" =>
    /\ \E i \in DOMAIN sub.applied : sub.applied[i] \notin graph.allowDynamic
    /\ ~HasDynamicTensors(sub)
    /\ \A i \in DOMAIN sub.plan :
         LET node == sub.nodes[sub.plan[i]]
         IN  /\ sub.plan[i] \in sub.prepared
             /\ node.in \union node.out \subseteq sub.allocated

\* Without delegates, or while they are undone, the plan is the one of the
\* model: no failure leaves it half replaced (RemoveAllDelegates).
PlanRestored ==
  sub.applied = << >> \/ sub.undone =>
    sub.plan = Indices(Len(graph.ops)) /\ sub.pre = << >>

\* A call that succeeds has applied the delegates that were undone again, all
\* of them and in their order, or removed them (RedoAllDelegates).
RedoneInOrder ==
  [][sub.undone /\ ~sub'.undone /\ sub'.status = "ok" /\ sub'.applied # << >> =>
       IsPrefix(sub.applied, sub'.applied)]_vars

\* memory_planner.h:35, "Allocates the necessary memory to execute all nodes in
\* the interval [first_node, last_node]": the prepared nodes have memory.
PreparedHaveMemory ==
  sub.state # "uninvokable" =>
    \A i \in 1..(sub.nextPrepare - 1) :
      LET node == sub.nodes[sub.plan[i]]
      IN  node.in \union node.out \subseteq sub.allocated

=============================================================================
