# A TLA+ model of the LiteRT / TensorFlow Lite runtime

This directory specifies the parts of the runtime whose errors are silent: the memory
planning and the execution of a model graph (`tflite/simple_memory_arena.cc`,
`tflite/arena_planner.cc`, `tflite/core/subgraph.cc` and the kernels that use them in the
ways that matter), the delegates that rewrite its execution plan
(`tflite/graph_info.cc` and the rest of `subgraph.cc`), the XNNPACK weight cache, a file
that outlives the processes that write it, and the mini-benchmark, which tries
accelerators in child processes that may crash or hang.

Contents: [inventory](#inventory), [modules](#modules), [runs](#runs-and-bounds),
[findings](#what-the-violation-runs-show), [proofs](#proofs),
[simplifications](#simplifications),
[not modelled](#not-modelled), [plan](#plan).

## Inventory

| Component | State | Operations | What is hard |
|---|---|---|---|
| `SimpleMemoryArena` | active allocs sorted by offset, high water mark, buffer | Allocate (best fit), PurgeAfter, PurgeActiveAllocs, CalculateActiveAllocs, ResetAllocs, Commit, ResolveAlloc, ClearPlan, ReleaseBuffer | which allocs still count, overflow, a malloc that fails |
| `ArenaPlanner` | allocs, last active node, two arenas, map of shared tensors, lifetimes | PlanAllocations, ExecuteAllocations, ResetAllocations(After), Release/AcquireNonPersistentMemory | in-place sharing, planning in segments, a buffer that moves |
| `Subgraph` | tensors, state, next index to prepare, next index to plan | AllocateTensors, ResizeInputTensor, Invoke, ReleaseNonPersistentMemory | sizes known only in Eval, replanning in the middle of Invoke, errors and cancellation anywhere |
| Kernels | output dims, variables, caches | Prepare, Eval | sizing in Eval, in-place writes, caches computed once |
| Delegates (in `subgraph.cc`) | execution plan before and after, applied delegates, whether they are undone | Modify, Undo, Redo, Remove | failure half way, resize under a delegate, a plan changed under the planner |
| `Interpreter` | cancellation flag | Invoke, Cancel | Cancel from another thread |
| `graph_info.cc` | epochs of nodes and tensors | partitioning of nodes | reordering against data and side effects |
| XNNPACK weight cache | file, build step, segment, key and address maps, mappings, miss buffers | LoadOrStartBuild, StartBuildStep, StopBuildStep, LookUpOrInsert, StopBuild, destruction | crash between or inside of writes, early returns, two processes |
| Mini-benchmark | a file shared by processes, two file locks, a thread, child processes, the memoised choice | TriggerMiniBenchmark, GetBestAcceleration, the thread's loop, the validation entrypoint | crashes and restarts, orphans, hangs, timeouts, torn records |
| Profile buffer | events and an index | BeginEvent, EndEvent | a full buffer |
| LiteRT tensor buffers and events | lock flag, event, memory | Lock, Unlock, SetEvent | a wait or a mapping that fails while locked |
| LiteRT compiled model | buffer bindings, events of a run | Run, RegisterBuffer | asynchronous completion |

Interaction: the client calls `Subgraph`; `Subgraph` calls the kernels' `Prepare` and
`Eval`, which call back `ResizeTensor`; it calls the planner's `PlanAllocations` once
and `ExecuteAllocations` for each segment of nodes whose sizes are known; the planner
owns two arenas and writes the tensors' data pointers. All of it runs in one thread
except `Cancel`. Delegates are applied by the client and again by `AllocateTensors` after
`ResizeInputTensor` has undone them; they partition the execution plan with
`graph_info.cc` and put kernels of their own into it. The XNNPACK delegate brackets the
creation of each runtime with `StartBuildStep` and `StopBuildStep` of the weight cache,
and XNNPACK calls back for every weight it packs. The mini-benchmark's application
appends a START to its storage file, starts a child and waits on its pipe; the child finds
its request in the file and appends the result; `flock` on two files keeps applications
and children apart. The components that matter beyond these are listed in
`PROJECT.json`, each with the reason why it is not modelled.

Correctness, by component: the arena hands out disjoint, aligned blocks inside its
buffer; the planner keeps a value where it is until its last reader is done; the
subgraph runs a node only on inputs that hold what their producers wrote, with memory
for what it writes, prepared for the shapes it sees, whatever failed before. The plan that
delegates leave runs every op of the model once, in an order that respects data and side
effects, and no failure leaves it half replaced. A weight cache that loads holds what its
list says, whenever its writer died. Every setting of the mini-benchmark is tried a
bounded number of times and gets a result, and the setting chosen is the best so far.

## Modules

```
SimpleMemoryArena <- ArenaSegments (implements ArenaContract) <- MCArenaSegments
        ^                   ^
        |                   +--- ArenaSegments_proofs        (Extrema)
        +-- ArenaPlanner <- Kernels <- Subgraph <- MCSubgraph
                                          ^-- Subgraph_proofs  (FoldInvariant, Extrema)

GraphInfo <- Delegates <- MCDelegates
    ^            ^
    |            +-- Delegates_proofs
    +-- GraphInfo_proofs <------+                           (FoldInvariant, Extrema)
WeightCache <- MCWeightCache
     ^-- WeightCache_proofs                                 (Extrema)
MiniBenchmark <- MCMiniBenchmark
     ^-- MiniBenchmark_proofs                               (Extrema)
```

* `SimpleMemoryArena`: the arena's operations as operators on a record. The sorted
  vector of active allocs is a set visited by increasing offset. `size_t` ends at
  `SizeMax`; `AddFits` and `AlignFits` are the success of `CheckedAdd` and
  `CheckedAlignTo`.
* `ArenaContract`: what the arena promises, without a search, purges or marks.
* `ArenaSegments`: the arena under the calls of `ExecuteAllocations`,
  `ResetAllocations`, `ResetAllocationsAfter`, release and acquire. The loop of
  `Allocate` takes one action per turn. Which tensors ask for which sizes is left open,
  so the model covers every graph. `BeginSegment` demands of the caller that it goes
  back before the last active node only when nothing is planned; `Subgraph` is shown to
  do so (`PlansOnFromLastActive`).
* `ArenaPlanner`: `PlanAllocations` (lifetimes, sharing), `CalculateAllocations` (which
  tensors, in which order), `Commit`, address resolution. A *call under way* is a record
  that carries the tensors, the planner and whether an error ended it, so that a failure
  leaves exactly what was done before it.
* `Kernels`: `ResizeTensor` and five uses of kernels. `add` may overwrite an input,
  `reshape` is a view of its input, `reshapeTo` is RESHAPE with the shape in a tensor,
  `unique` has a dynamic output, `svdf` a variable and a persistent temporary.
* `Subgraph`: the state machine. `AllocateTensors`, `ResizeInputTensor` and
  `ReleaseNonPersistentMemory` are one action each; `Invoke` is taken node by node:
  `BeginInvoke`, then for each node `VisitNode` or `VisitAndPrepareNode` (prepare if it
  is the node's turn, check that the inputs have data), then `RunNode`, `RunNodeFails` or
  `CancelInvoke`; `InvokeReturns` ends it. `held[t]` is the memory that still holds the
  value last written to `t`: a write to any overlapping region takes it away, and moving
  or freeing a buffer leaves pointers that no longer agree with it.
* `GraphInfo`: the partitioner as a record; `BuildNodeSubset` folds passes over the nodes
  and `UpdateNode` is split into its tests (`Schedulable`) and its assignments.
* `Delegates`: the calls of a client around delegates, each one action with the faults
  that happen in it: a delegate that refuses, a kernel that fails in `init` or in
  `Prepare`, memory that runs out. Nodes remember the ops they stand for, so that the plan
  can be compared with the model; sizes and addresses are the subject of `Subgraph` and
  are left out, but which lifetimes the planner has and which tensors it gave memory to are
  kept. `Subgraph` holds its execution plan constant; the two models meet in
  `AllocateTensors`, whose preparation and allocation both have.
* `WeightCache`: the file is a sequence of cells, so that a crash inside of a write, a list that
  is overwritten in place and a seek past the end leave what they leave in the code. `Load` and
  `LoadLastBuildStep` are the code's tests in the code's order; `StopBuildStep`, `WriteList` and
  `WriteHeader` are the steps between which a process can die, each with its failures as actions
  of their own. `addr` distinguishes a cell of a mapping from a miss buffer. `Insert` is the
  `insert` and `emplace` of the code's maps, which keep the value of a key they have; `Destroy`
  writes the stale flag into the header of a file that has one.
* `MiniBenchmark`: the file is the sequence of its records, some torn; `AppendTo` is the
  set of what an append can leave behind. Application, its
  detached thread and the children are separate processes of the model; `Kill` takes the
  application at any moment and leaves its children as orphans. The file locks are the
  program counters of those who hold them, as `flock` ends with its process.
* `FoldInvariant`: what holds before a loop and is kept by every turn of it holds after
  it, for the folds that stand for the code's loops.
* `MCArenaSegments`, `MCSubgraph`, `MCDelegates`, `MCWeightCache`, `MCMiniBenchmark`:
  bounds and instances. `MCSubgraph` builds *every* graph of `NumOps` nodes over the given
  kernels in which each node reads any earlier tensors and each result is used, and adds
  for `dynamic` those of one more node over `add` and `reshape` with any set of outputs.

Operators marked `mutant` are variants of a definition with a plausible bug; they are
not used by the specifications. For each property one of them shows that the property
notices the bug.

## Runs and bounds

| Run | Instance | Checks |
|---|---|---|
| `arena` | 3 tensors, 2 nodes, sizes 1 and 3, alignment 2, `SizeMax` 5, at most 3 active allocs; tensors symmetric | types, disjointness, resolution, alignment, the loop against the operator, the contract |
| `dynamic` | all graphs of 3 `add`/`reshape`/`unique` nodes, sizes 1 and 2, with `preserve_all_tensors` or early release of dynamic tensors or neither; all graphs of 4 `add`/`reshape` nodes with any outputs | reads, in-place writes, bounds of writes, inputs, outputs, preparation, replanning |
| `faults` | all graphs of 2 nodes over all five kernels, two shapes per size; malloc in `AllocateTensors`, any `Prepare` and any `Eval` may fail | the same after every failure, variables, caches, and that an invokable subgraph has memory |
| `delegates` | 2 delegates; 4 topologies of 3 ops with ops with side effects in 3 ways and claims in 4, 4 graphs of 4 ops, 12 variants of the settings, 4 graphs whose ops make resource handles themselves; each call without a fault or with one | the plan, its order, the tensors of kernels, readiness of an immutable graph, restoration, redoing |
| `weight_cache` | 1 process at a time, 3 weights of 1, 2 and 4 cells, alignment 3, at most 2 misses and 2 failed calls per process | types, lookups, addresses, soundness of loadable files, nothing lost between steps, all until a failure leads astray |
| `mini_benchmark` | 1 application, with the model in a buffer or in a file, 2 children at a time, 2 settings, 2 attempts, 3 launches and failures together | types, attempts, the right request, the choice, an answer for every START, an end of the thread |

The bounds are chosen so that the interesting cases happen. With `SizeMax` 5 additions
overflow after two blocks; sizes 1 and 3 under alignment 2 leave gaps that a later block
fits exactly, fits with a rest, or does not fit. Three tensors and two nodes give all
relations of two usage intervals plus a third block in their way. Three nodes give a
dynamic output, a node planned later and a third whose plan has to be taken back; four
static nodes give two views and an in-place write with a reader after it. Sizes 1 and 2 let
a dynamic output grow and shrink, and `kScalarTensorBytes` is 1 so that both sides of the
size test for sharing occur. `MaxActive` is the one constraint that cuts behaviours: a
block that was replaced stays active until its last node, so the set could grow without
bound in the open model. `SizeMax` is 40 in the graph runs: overflow is the subject of
`arena`.

Three ops are enough for a kernel between two others, for one that stands for ops that
are not neighbours and for a second delegate that partitions a plan with kernels in it; the
graphs of four add a diamond and two branches whose ends have side effects. The weights
are shorter and longer than the list they overwrite, and an alignment that divides none of
the sizes leaves gaps. Two failed calls let a list that could not be written be followed by
a failure of any other kind. The bound of the mini-benchmark, `MaxIncidents`, is on the launches
of the application and the failures together: three launches without a failure (the second
finds the orphan of the first, the third what the second left), two with one failure or one
with two. A setting is retried because the thread went on after a crash, a hang or a failed
append; two attempts exhaust `kMaxAttempts`. The application of the run never competes with
another one for the parent's lock; `AttemptsAreBounded` is proved for any number of them.

Fairness. The interpreter, the delegates and the weight cache are sequential code whose
loops are bounded by the plan or the file and in which nothing waits, so no liveness is
checked there. `MiniBenchmark` assumes weak fairness of each application's thread, of each
child and of the timeout: the operating system schedules threads and processes that can
run, and `poll` returns when its time is up. A hung child has no step, and nothing is
assumed of the client. `RunnerEnds` rests on `per_test_timeout_ms` being positive; with 0
`poll` waits for ever and a child that hangs is never killed, as the code intends. It makes
an exception for a thread that is `Blocked`, which the code does not prevent: `Run` writes
the model to a pipe before it arms the timeout (`runner.cc:261`), so a child that hangs before
it has read the model (in a delegate's library, say) is waited for without a limit; and after
the read of the pid or `poll` has failed (`runner.cc:189` and `:203`) nobody is killed and the
thread reads on until the child ends.

Every run checks for deadlock except `mini_benchmark`: there all is over once the
launches are used up and the application was killed.

Properties worth knowing: `ReadsSeeProducer` (a node that is about to run finds in every
input what its producer wrote) is the end-to-end correctness of planner and subgraph;
`WritesInBounds` and `NodeWritesApart` say the same of what it writes;
`InputsPreserved`, `OutputsReadable`, `VariablesPreserved` and `CachesReadable` extend it
across invocations; `PreparedForInputs` is about stale preparation;
`PlansOnFromLastActive` is the planner's assumption on its caller. `PlanRunsGraph` is the
end-to-end correctness of delegation, `KernelTensors` the reference definition of what
the partitioner's lists have to be, `PlanRestored` and `RedoneInOrder` what undoing and
redoing promise. `LookUpSound` and `LoadableIsSound` are the weight cache's: whoever finds
a key finds the packed weight, and no crash leaves a file that is taken for a good one.
`StartsAnswered` is an action property: the step with which the thread leaves a setting
finds, or makes, a result after every START of it.

### What the violation runs show

* `view_chain`: `IdentifyInPlaceTensors` tests the reference counts of an operator's
  input and of the root of its chain of views, not of the views between them. With two
  views in a row, an in-place operator on the second and a later reader of the first, the
  reader sees the overwritten bytes. It takes five nodes, which is why `dynamic`, with four static
  ones, passes.
* `failed_replan`: the index of the next node to prepare moves on before the memory of
  the nodes is there. When the arena cannot grow in `Invoke`, the next `Invoke` runs a node
  whose output has a null pointer. `faults` therefore lets malloc fail in
  `AllocateTensors` only.
* `reshape_to`: a RESHAPE whose shape is a tensor and whose output shares its input's
  buffer resizes that output in `Eval` without making it dynamic; the nodes after it are
  not prepared again. It takes three nodes; `faults` has graphs of two.
* `empty_step`: `StopBuildStep` of a step without a new weight returns before it resets
  `is_build_step_`. A weight packed later outside of a step then goes to the file as if it
  were inside of one and has no address. `Addressable` therefore speaks of the time when
  `is_build_step_` is not set.
* `shared`: nothing keeps a second process from truncating the file while the first one is
  in a build step. The first then publishes a valid header over holes. `weight_cache`
  therefore has one process at a time, with any number after each other.
* `stale_plan`: a delegate that allows dynamic tensors, applied between
  `ResizeInputTensor` and `AllocateTensors`, changes the plan, but the planner keeps the
  lifetimes of the old one. The subgraph becomes invokable with outputs that have no
  memory. `ImmutableIsReady` states the same of immutable graphs only, where it holds.

## Proofs

### Arena

`ArenaSegments_proofs` proves, for any tensors, nodes, sizes, alignment and `SizeMax`:

* `TypeCorrect`: no offset, end or buffer size exceeds `SizeMax`;
* `NoOverlap`: tensors needed at a common execution index share no byte;
* `Aligned`: offsets are multiples of the alignment;
* `ResolveNeverFails`: a committed arena resolves every alloc of the plan;
* `Refinement`: `ArenaSegments` implements `ArenaContract`;
* `LoopAlwaysComputesSearch`: where no addition overflows, the loop chooses the offset
  that the operator `Search` computes in one go, which is what `ArenaPlanner` uses.

Assumptions: `SizeMax`, `Alignment` and `kNodeNotAssigned` are positive, there are at most
`kNodeNotAssigned` nodes, the sizes asked for are `size_t` values and tensors are finitely
many (only the last theorem, about a fold over the active allocs, uses that). Nothing is
assumed of the alignment being a power of two.

The argument. `PlanDisjoint` speaks of the plan, while `Allocate` only looks at the active
allocs, so the inductive invariant `IInv` adds: every block of the plan is active or ended
before `Floor`, the node from which the next blocks are asked for (`ActiveCoversPlan`:
this is what the purges must preserve); the high water mark covers every block; the buffer
of a committed idle arena covers the mark; and for the loop, that allocs visited end
below `current_offset`, those to come start no earlier than those visited, and the best
offset so far is free, aligned and small enough (`SearchInv`). `SearchVisitSound` shows
one turn of the loop keeps that, `ChosenOffsetFree` that the offset chosen at the end is
clear of every active alloc of an intersecting interval, and `NewBlockApart` combines
it with `ActiveCoversPlan`. One lemma per action then shows that `IInv` is kept. The
refinement maps each action to a step of the contract or a stutter.

`std::sort` leaves the order of allocs of equal offset open, and the loop of the model takes
any. That it makes no difference is `LoopAlwaysComputesSearch`. Loop and `Search` are both
compared with a third loop, `Ideal`, whose numbers have no bound: two of its turns at one
offset commute, because the first leaves no gap for the second, so every order of offsets
ends in the same state (`IdealAnyLast`), and a turn of `Allocate` that makes no error is one
of the ideal loop. On the way it shows that the loop is never left for a perfect fit: a fit
counts from `current_offset` to the next alloc, the new block included, and is not zero
(`simple_memory_arena.cc:332` and `:338`).

### Mini-benchmark

`MiniBenchmark_proofs` proves, for any finite set of applications and any children,
settings, launches, latencies and faults: `TypeCorrect`, `AttemptsAreBounded`,
`RequestsAreValidated`, `BestIsAlwaysCurrent` and the action property `StartsAreAnswered`.
The assumptions are those of the module: the settings are the elements of a sequence
without repetition, the CPU among them, latencies are numbers, and there are finitely many
applications, which the bound on the attempts counts. All five rest on `Invariant`, whose
parts are needed because the properties say nothing of locks and plans:

* `Locks`: one thread has the parent's lock file and one process the child's. `Parents`: a
  thread that waits and the child it waits for name each other; an orphan names nobody.
* `Requests`: in a file that can be read, the last START is that of the one thread that is
  past its `AppendStart`, and a child of it that has read the file has that setting, or
  none. Only a thread with the parent's lock appends a START, which is why `Locks` is needed.
* `SuccessAnswered`: a child that exited with success, having had a request, has written a
  result after every START of its setting. `StartsAnswered` follows from it and from
  `AppendError`.
* `Attempts`: what is counted is not the STARTs in the file but these *and* the
  applications that may still write one without looking at the file again. A thread plans
  from what it read before it had the lock, and an application that read a file before a
  record in it was torn goes on with its old contents. Each application plans a setting at
  most once, so planning moves an application into the count and `AppendStart` moves it from
  one side of the sum to the other. When a plan is made, the STARTs were below
  `kMaxAttempts` and all the others may have planned too: hence `kMaxAttempts` plus the
  number of applications minus one, and not `kMaxAttempts`.
* `Memoised`: a memo is the best of *some* of the successes of the file, as many as it
  says. As successes are never taken back, a memo that counts as many as there are is the
  best of all of them, whichever run of the application made it.

What an append may leave behind when it fails decides what can be said of requests and answers.
`AppendDataToFile` can fail before it writes (`open`, `flock`, a `write` of nothing), half way,
or after it has written everything (`fsync`, `close`); the reading back can fail too. In the
first and the last case the file can still be read, so `ReadOk(log)` does not say that all
appends succeeded. A child whose RECOVERED_ERROR (failed CPU affinity) was such an append has an
empty storage object and finds no request; it then puts an ERROR under default settings. A
thread whose own ERROR was such an append leaves its START without an answer.
`ValidatesItsRequest` and `StartsAnswered` name these two cases and no other.

One lemma per action states its effect (`...Effect`), and one per part of the invariant
that the actions keep it. `Extrema` has the two facts about least and greatest elements of
sets of numbers that the choices of a first or last record rest on.

### Weight cache

`WeightCache_proofs` proves, for any weights of any sizes, any alignment and any number of
misses, crashes and failures, until one of these leads astray: `TypeCorrect`,
`LoadableFilesAreSound`, `OffsetsAreAddressable` and `CrashesBetweenStepsLoseNothing`. Their
hypothesis `OneProcess` says that one process has the file at a time, with any number after
each other; `shared` shows that two at once break them.

**Astray.** Every truncation, read, write and mapping of the model can fail. What the code does
afterwards keeps its promises in the cases of a list that cannot be written, a file that cannot
be mapped at first or after its first step, and a buffer that cannot be written, which aborts.
It does not in four others, where `Start`, `StartBuildStep`, `StopBuildStep` or
`LoadLastBuildStep` returns false and the delegate, which asks `IsActive` only
(`xnnpack_delegate.cc:688`), goes on with what there is:

* `WriteHeaderFails` (`weight_cache.cc:299-303`): `is_build_step_` stays set and the cursor is
  at the start of the file. The next `Append` (`:213`) overwrites the header and, behind it,
  weights that are mapped and that `LookUp` still finds; its offset, counted from `base_offset`,
  wraps. A later `StopBuildStep` computes its segment size from the wrong end, and leaves a list in
  the middle of the file.
* `StartFails` (`:146-150`): the builder has its descriptor and so counts as started, but no
  `base_offset`. The first buffer goes to position 0, and the final header overwrites it
  in a file that passes every check of `Load` - although the comment at `:141` says that, if
  any error happens during the build, reloading the file will fail.
* `ReadBackFails` (`:165-191`): `is_build_step_` is set by then and is not taken back; the cursor
  is at the header or behind it, with the consequences of the first case.
* a `MappingFails` of a later step (`:600-617`): an empty mapping is the last one of the
  provider, and the weights of the step have keys and no address.

Each of the four is a step of the model and sets the history variable `astray`. The model does
not follow the provider further, as positions and sizes wrap, and its properties and theorems
speak of the time before: each has `~astray` as a condition, and its comment says what goes
wrong without it. A history variable, and not a fault left out, so that it is visible which
failures the properties survive and which they do not.

The invariant relates one process to the file. `FileSound`: in a file that loads, the
buffers of the list are whole and end before it. `Building`: while a step is open, the data
below the cursor is what the schema in memory says, and the file loads only as long as the
step has not written anything: the header still names the place where the old list was, and
the first write puts data or a hole there, or starts with a header without a version. This
is the whole reason why a crash cannot leave a file that is taken for a good one, and it
holds because a buffer is never empty and starts at the aligned cursor. When the list is
complete the header is the last write, and `HeaderMakesItLoad` shows that what it names is
then sound. `Control` says which calls may be under way, and `Known` that a key given out is
in the list or in a miss buffer.

The second part of `WeightCache_proofs` is `LookUpsAreSound`, with an invariant of its own about
the addresses (`Resolves`): every key is in a miss buffer, or in the file before the place where
the next write goes; the mapping of an address covers the buffer, also after `mremap` has grown
it or another mapping was added; and the offsets of the file and those of the misses do not
meet. For the last it has the hypothesis `FewMisses`, and the proof shows that it is not an
artefact: `min_offset_` is set by `Load` only (`weight_cache.cc:560`), so after a later build
step the offsets of misses, which count up from there, lie *among* those of the file, although
the comment in `weight_cache.h:274` calls it "bigger than all of the locations held in the
cache". They stay apart only because file offsets are multiples of `kMinAlignment`,
`min_offset_` is one above such a multiple, and fewer than `kMinAlignment` (128) misses do not
reach the next. With as many, TLC finds a key whose offset resolves to the buffer of another
one. The other half of `FewMisses` is `LooksUpFirst`: a `Reserve` for a key that is known leaves
an unused buffer, whose replacement gets an offset that the next miss gets again. The run's
constants satisfy both.

### Partitioning and delegates

The partitioner and `ModifyGraphWithDelegate` are loops in loops, which the model has as
folds over sequences. `FoldInvariant` proves once, for a turn and an invariant that are
its constants, that a fold keeps what its turns keep (`FoldKeeps`); each loop instantiates
it with its own. It is proved by a least counterexample among the lengths, as the
induction theorems of the library cannot be instantiated with operators.

`GraphInfo_proofs` has `PartitionDivides`: when `Partition` succeeds, there is an epoch for
each node such that the subsets are the epochs in order, each of one type, every node is
in one, and no node comes before one it depends on (by data, by the chain of side effects,
or by order when not greedy); the inputs and outputs of a subset are exactly the
tensors that cross its border. The invariant of the passes (`Borders`) says of each subset, the
open one too, that its inputs are what its nodes read and older epochs or the caller made, and
that its outputs are what it made and nodes of other epochs read so far; `MarkOutputs` adds
what the caller needs when all epochs are known.

`Delegates_proofs` proves every property of the run `delegates` for any set of graphs, any
delegates, claims and settings and any subset of the faults in a call:
`PlanAlwaysRunsGraph`, `OrderAlwaysKept`, `KernelTensorsAlways`, `PlanRestoredAlways`,
`RedoneAlways` (an action property), `ImmutableAlwaysReady` and `DelegatesTypeOK`.
`GraphsAssumption` says what a model file guarantees: its ops are sorted and each tensor
has one source.

The invariant is `Stable`, what holds of a subgraph between two calls:

* `Base`: the nodes of the model are never rewritten or removed, which is what makes
  undoing possible at all; `MemoryTypes`.
* `Scheduled`: the steps of the plan run every op once, in an allowed order, and a kernel
  names the tensors its ops exchange with others. `PlanRunsGraph` and `KernelTensors`
  are read off it. It speaks of ops and not of nodes, because a second delegate partitions a
  plan in which kernels of the first stand for several ops; `PlacesInOrder`,
  `SlotsInOrder` and `ReplacedIsScheduled` carry the order of nodes that `PartitionDivides`
  gives over to the order of ops.
* `Controlled`: which of the plan and the plan before delegation is that of the model.
* `Ready`: immutable means that every size is known, every node prepared and every tensor
  allocated. `ScheduledIsShort` is needed for it: a plan has no more nodes than the model
  has ops, so `next_execution_plan_index_to_prepare_` stays in range.

A delegate that fails half way breaks `Scheduled` for the time of the call; only `Base`
and the plan before delegation survive, and `UndoRestores` and `RemoveAllRestores` show
that these are enough to come back to `Stable` (`AppliedOutcome` to
`ApplyDelegateOutcome` for one delegate, `ApplyAllOutcome` for redoing, then one lemma for
each action).

`OrderAlwaysKept` has no hypothesis, but `OrderKept` does not say that any two ops with side
effects keep their order. The order hangs on `OpMightHaveSideEffect`, which looks at the tensors
a node names (`subgraph.cc:1179`). A kernel that contains both the op that makes a handle
and all ops that use it names no resource tensor, has no side effect as far as the next
partitioning can see, and is not in the chain of `graph_info.cc:318`; an effect on
*another* handle may pass it. The XNNPACK delegate does claim variable ops
(`xnnpack_delegate.cc:768`). What the code does guarantee, and what keeps the values of variables
right, is `MustKeepOrder`: ops that use one handle keep their order, because either they are in
one kernel or the handle crosses its border and is named (`SharedHandle`); so do ops on any
handles that no delegate makes inside of a kernel, the chain then having both; and without greedy
partitioning all ops. `Variables` in `MCDelegates` are graphs whose handles are made
by claimed ops; in the last of them a read of one variable passes a hidden assignment to another,
and the order of all effects is indeed violated.

### Subgraph

`Subgraph_proofs` proves, for any graphs over the modelled kernels, any sizes, shapes,
alignment and `SizeMax`, and any set of faults: `SubgraphTypeOK`,
`InvokableAlwaysHasMemory`, `PreparedForInputsAlways`, `PlansAlwaysOnFromLastActive` and
`VariablesAlwaysPreserved`.
`GraphsAssumption` says what a model file and the builder of a subgraph guarantee: nodes are
sorted, none makes a tensor that the client fills, each kernel has as many tensors as its
kind takes, and the allocation types are those of `SetTensorParametersReadWrite`
(`subgraph.cc`: variables are persistent, other tensors are not) and of `svdf.cc` (its state is
a variable, its second temporary persistent).

The inductive invariant `SubgraphInv` has three parts:

* `SubgraphTyped`: besides the types of the subgraph's own variables, what the planner's
  records are (`PlannerOK`): the active allocs are finitely many blocks inside `size_t`, every
  tensor has an alloc and lifetimes, sharing and the nodes' lists stay within the graph's
  tensors; and that what is planned was prepared.
* `InvokeAtPrepared`: an Invoke is at a node that is prepared, or next to be.
* `InvokableHasMemory` itself, which needs the order in which a plan can fail: `Commit`
  sets `hasNonPersistent` before anything after it can fail, and whoever takes the arena
  away makes the subgraph uninvokable.

The calls are loops in loops: `PrepareOpsStartingAt` over the nodes, `AllocateTensor` over
the listed tensors, the search over the active allocs, `IdentifyInPlaceTensors` over the
nodes. The ones over a sequence are instances of `FoldInvariant` (`Shares`, `Loop`,
`Prepares`); the search is a recursive function on finite sets, for which the same
argument is repeated with a smallest counterexample. That `CreateTensorAllocationVector`
lists every tensor once is a fact about orders of finite sets.
`PrepareOpsAndTensorsResult` puts them together: what a call leaves of tensors, planner
and indices, succeeded or failed, as `PrepareResult`, from which the lemmas of the actions
that plan follow.

`VariablesAlwaysPreserved` rests on `VariablesInv`. It follows the persistent arena through
every plan: a new block meets all others in time, so the search puts it apart from them
(`AllocateApart`, `ApartExtends`); a commit that moves the buffer makes the call resolve
every pointer again, to the same offset (`ExecuteAllocationsPlaces`); going back to a node
and releasing memory touch the other arena only. `WrittenKeeps` then says that a write
to placed persistent tensors, or to tensors elsewhere, takes no place of a variable, and
`WritesUsed` that a node writes no others. That the blocks are apart needs all persistent tensors
and not just the variables, and that a node's own are placed needs the nodes up to the next
to plan: a node may run only there.

Three theorems have a hypothesis:

* `PreparedForInputsAlways` rests on `PreparedUpTo`: in an invokable subgraph *every* node
  before `next_execution_plan_index_to_prepare_` was prepared with the dims its inputs have.
  A kernel may change dims in `Eval` only of dynamic tensors, after which nodes are prepared
  again, or, with `reshapeTo`, of a tensor in its input's buffer, after which they are not.
  `ReadShapesCopied` excludes the latter where somebody reads the result; `reshape_to` is
  the counterexample.
* `PlansAlwaysOnFromLastActive` and `VariablesAlwaysPreserved` have `PlansSucceed`: the plan
  that an Invoke makes does not fail, by malloc or by overflow. When it does,
  `last_active_node_` has moved and `next_execution_plan_index_to_plan_allocation_` has not, and
  the next Invoke plans from behind it; `failed_replan` is about the same moment. No hypothesis
  is made about plans of `AllocateTensors`, whose failure leaves the subgraph uninvokable. A
  persistent tensor whose `Allocate` fails keeps its new size and has no place in the arena
  (`new_alloc->size` is assigned before anything can fail), so the next plan takes it for
  allocated, and its bytes may lie over a variable.

### What is only model-checked, and why

* `RunnerEnds` is liveness under fairness.
* The properties of `Subgraph` about memory contents: `ReadsSeeProducer`, `WritesInBounds`,
  `NodeWritesApart`, `InputsPreserved`, `OutputsReadable` and
  `CachesReadable`. Their inductive invariant would have to say, of all tensors at once,
  which blocks are apart, which data pointers agree with the plan and which held values
  outlive which node, after each plan, replan and failure half way through one. `view_chain`
  shows that the first of them is not even true of all graphs: a proof needs a condition on
  chains of views as well. `SubgraphInv` has the part of it that is about types.
* That the program's loops end is not stated: the folds that model them take it from the
  length of their sequence.

## Simplifications

* A tensor's contents are not modelled, only which memory holds its last value; dims are
  `<<bytes, form>>`, one byte per element.
* What `std::sort` leaves open between tensors of equal size and node is ordered by index.
* The early return of `AllocateTensors` for an invokable subgraph is no step:
  `InvokableHasMemory` shows that it has nothing to acquire.
* One failure per call is enough, as the first one ends it. A `Prepare` that fails leaves
  its own tensors as they were, those prepared before it stay prepared.
* The shape tensor of `reshapeTo` is an arbitrary form of the right size, chosen in `Eval`.
* The client fills all graph inputs after `AllocateTensors` and before `Invoke`, and again
  whenever it likes between two, also while it has not read the outputs yet; it may invoke
  again without refilling them. This is the only external action.
* Execution plans are not empty. Custom allocations, optional, string and
  constant tensors, dynamic graph inputs, the option that allocates large tensors
  dynamically (`MayAllocateOpOutput`) and composite inlining are left out.

Delegates:
* A client applies a delegate that is not applied already. Which nodes a delegate claims is
  fixed per graph, and it does not claim kernels of others.
* An op's output sizes are known or not; what they are is left to `Subgraph`.
* The planner gives memory to what its lifetimes name up to the last prepared node; that it
  does so at distinct addresses is `ArenaPlanner`'s subject.
* At most one kind of fault per call; `init` fails for the last kernel of a delegate and
  `prepare` for kernels of delegates, so that the original plan can be prepared again.

Weight cache:
* The header is one cell, written at once, and the flatbuffer verifier accepts exactly a
  complete list. Both are true of what one `write` call of the code leaves behind in
  practice, not guaranteed. What was written stays: processes die, the system does not.
* Keys stand for pack algorithm, weights and bias identifiers together; fingerprints
  match.
* After a failure that leads astray (see the proofs) the model stops. Opening and seeking do not
  fail.
* The delegate's use is taken from `xnnpack_delegate.cc`: no second step while one is
  open, and XNNPACK looks a key up before it reserves space (`LooksUpFirst`).

Mini-benchmark:
* Settings have one latency each, so events of a setting differ only in their outcome.
* Failures are those of an append (before, while or after it writes), of `Init`, of `pipe` and
  `popen`, of the write of the model, of the timer (the read of the pid, `poll`), of the child's
  read of the file and of the CPU affinity. `.extra.fb` keeps its last decision only.
* A model in memory is larger than a pipe: the thread's write ends when the child reads the
  model. An application that writes to a pipe whose child is gone gets an error or dies of
  SIGPIPE, which is `Kill`.
* A child that has come past `WritePid` has given its pid to the thread, before which the
  timeout is not armed.

## Not modelled

* `SimplePlanner`, a build option, mallocs each tensor; there is nothing to plan.
* `Interpreter`, `SignatureRunner` and the async subgraph forward to `Subgraph`; the
  cancellation flag between two threads is the one piece of state left there.
* LiteRT's tensor buffers, events, compiled model and dispatch call into vendor libraries
  that are not in the repository; the buffer's lock flag around a wait
  that fails is a hazard the list names.
* `GetAndFlushEventsToLog`, the blocking validator runner and the counters of remaining
  tests; the profile buffer; resources; the compilation cache. They are sequential and
  short.
* Most of the repository is arithmetic on tensor contents (`kernels/internal`), tables that
  translate ops for one accelerator (`delegates/nnapi`, `delegates/gpu`,
  `delegates/xnnpack/xnnpack_delegate.cc`), generated code (`schema_generated.h`) and
  converters. It has no state for a model checker to explore: a model would repeat it. The
  lines mapped in `PROJECT.json` are therefore a small share of the repository, concentrated
  in the files that plan, execute and persist.

## Plan

1. Done: arena, planner, subgraph, kernels; the arena's theorems and its refinement;
   partitioning and delegates; weight cache; mini-benchmark.
   The theorems of mini-benchmark and weight cache: every invariant that their runs check.
2. Done: the theorems of the partitioner and of delegation: every property their run checks.
3. Done: of the subgraph the types, the presence of its memory, its preparation, where
   it plans on and that its variables are preserved.
4. Next, proofs: that the blocks of a plan are apart in `Subgraph`, for which
   `LoopAlwaysComputesSearch` ties the search of the planner to the arena's theorems, and
   `ReadsSeeProducer` for graphs without shared tensors.
5. Then, if the code grows that way: the cancellation flag, LiteRT's tensor buffers, the hint
   of full delegation, and what a weight cache that is astray leaves in its file.
