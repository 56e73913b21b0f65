------------------------------ MODULE Kernels ------------------------------
(***************************************************************************)
(* The operators a graph is made of, as far as memory goes: how Prepare    *)
(* and Eval size their outputs and temporaries, and which tensors Eval     *)
(* writes. Five kernels stand for the ways the runtime is used:            *)
(*                                                                         *)
(*   add       kernels/add.cc, out may overwrite either input              *)
(*   reshape   kernels/reshape.cc with a constant shape: out may be the    *)
(*             input's buffer, nothing is written then                     *)
(*   reshapeTo the same kernel with the shape in a tensor: known in Eval   *)
(*   unique    kernels/unique.cc, a dynamic output and a static one        *)
(*   svdf      kernels/svdf.cc (hybrid): a variable, a scratch tensor and  *)
(*             a persistent one that is computed once                      *)
(*                                                                         *)
(* Dims are <<bytes, form>>: form tells shapes of one size apart. For the  *)
(* sharing of buffers only a type of one byte per element matters.         *)
(***************************************************************************)
EXTENDS ArenaPlanner

CONSTANTS Sizes,   \* bytes of inputs and of dynamic outputs
          Forms    \* shapes of one size

ASSUME KernelAssumption == Sizes \subseteq Size \ {0}

Dims == Sizes \X Forms
BytesRequired(dims) == dims[1]

(***************************************************************************)
(* Subgraph::ResizeTensor, called by the kernels through the context.      *)
(***************************************************************************)
CanReuseAllocation(tensor, dims) ==
  /\ tensor.data # Null
  /\ tensor.dims = dims
  /\ tensor.bytes = BytesRequired(dims)

ResizeTensorImpl(tensor, dims) ==
  [tensor EXCEPT !.bytes = BytesRequired(dims),
                 !.dims = dims,
                 !.data = IF tensor.type = "dynamic" THEN Heap ELSE Null]

ResizeTensor(tensor, dims) ==
  IF CanReuseAllocation(tensor, dims) THEN tensor ELSE ResizeTensorImpl(tensor, dims)

SetsResizedWhenItGrows(tensor, dims) ==   \* mutant
  ~CanReuseAllocation(tensor, dims) /\ tensor.bytes < BytesRequired(dims)

\* The call sets tensor_resized_since_op_invoke_.
SetsResized(tensor, dims) == ~CanReuseAllocation(tensor, dims) /\ tensor.dims # dims

SetTensorToDynamic(tensor) ==
  IF tensor.type = "dynamic" THEN tensor
  ELSE [tensor EXCEPT !.type = "dynamic", !.data = Null]

(***************************************************************************)
(* Prepare. Every kernel returns the tensors after the call.               *)
(***************************************************************************)
BroadcastDimsAdded(a, b) == <<a[1] + b[1], a[2]>>   \* mutant

BroadcastDims(a, b) == IF a[1] >= b[1] THEN a ELSE b

PrepareAdd(ts, node) ==
  [ts EXCEPT ![node.out[1]] =
     ResizeTensor(@, BroadcastDims(ts[node.in[1]].dims, ts[node.in[2]].dims))]

PrepareReshape(ts, node) ==
  [ts EXCEPT ![node.out[1]] = ResizeTensor(@, ts[node.in[1]].dims)]

\* The shape is not known, but its size is: that allows sharing.
PrepareReshapeTo(ts, node) ==
  [ts EXCEPT ![node.out[1]] =
     IF @.type = "rw" THEN [@ EXCEPT !.bytes = ts[node.in[1]].bytes] ELSE @]

PrepareUnique(ts, node) ==
  LET made == [ts EXCEPT ![node.out[1]] = SetTensorToDynamic(@)]
  IN  [made EXCEPT ![node.out[2]] = ResizeTensor(@, ts[node.in[1]].dims)]

\* The persistent temporary has the size of a constant weight: it is sized
\* by its first Prepare.
PrepareSvdf(ts, node) ==
  LET made == [ts EXCEPT ![node.out[1]] = ResizeTensor(@, ts[node.in[1]].dims)]
  IN  [made EXCEPT ![node.tmp[1]] = ResizeTensor(@, ts[node.in[1]].dims)]

OpPrepare(ts, node) ==
  CASE node.kind = "add" -> PrepareAdd(ts, node)
    [] node.kind = "reshape" -> PrepareReshape(ts, node)
    [] node.kind = "reshapeTo" -> PrepareReshapeTo(ts, node)
    [] node.kind = "unique" -> PrepareUnique(ts, node)
    [] node.kind = "svdf" -> PrepareSvdf(ts, node)

HasDynamicTensor(ts, S) == \E t \in S : ts[t].type = "dynamic"

\* Preparation stops after a node whose output shapes are not known yet.
StopsPreparation(ts, node) ==
  node.kind = "reshapeTo" \/ HasDynamicTensor(ts, Range(node.out))

(***************************************************************************)
(* Eval. What is known only now: the dims of the outputs in question, one  *)
(* of EvalDims (unique: no more values than the input has). ReshapeTo      *)
(* keeps its output in the input's buffer if it is there and makes it      *)
(* dynamic otherwise.                                                      *)
(***************************************************************************)
EvalDims(ts, node) ==
  CASE node.kind = "unique" -> {n \in Sizes : n <= ts[node.in[1]].bytes} \X {Min(Forms)}
    [] node.kind = "reshapeTo" -> {ts[node.in[1]].bytes} \X Forms
    [] OTHER -> {ts[node.out[1]].dims}

EvalReshapeTo(input, output, dims) ==
  IF output.data = input.data
  THEN [ResizeTensor(output, dims) EXCEPT !.data = input.data]
  ELSE ResizeTensor(SetTensorToDynamic(output), dims)

\* The tensors when Eval has sized its outputs.
EvalResize(ts, node, dims) ==
  CASE node.kind = "unique" -> [ts EXCEPT ![node.out[1]] = ResizeTensor(@, dims)]
    [] node.kind = "reshapeTo" ->
         [ts EXCEPT ![node.out[1]] = EvalReshapeTo(ts[node.in[1]], @, dims)]
    [] OTHER -> ts

EvalResized(ts, node, dims) ==
  CASE node.kind = "unique" -> SetsResized(ts[node.out[1]], dims)
    [] node.kind = "reshapeTo" ->
         LET output == ts[node.out[1]]
         IN  IF output.data = ts[node.in[1]].data THEN SetsResized(output, dims)
             ELSE SetsResized(SetTensorToDynamic(output), dims)
    [] OTHER -> FALSE

(***************************************************************************)
(* The tensors whose memory Eval writes.                                   *)
(***************************************************************************)
AddWrites(node) == {node.out[1]}

\* A view in the input's buffer is not written.
ReshapeWrites(ts, node) == {t \in {node.out[1]} : ts[t].data # ts[node.in[1]].data}

UniqueWrites(node) == {node.out[1], node.out[2]}

\* The state is a variable; the persistent temporary is computed once.
SvdfWrites(node, initialized) ==
  {node.out[1], node.in[2], node.tmp[1]} \union (IF initialized THEN {} ELSE {node.tmp[2]})

EvalWrites(ts, node, initialized) ==
  CASE node.kind = "add" -> AddWrites(node)
    [] node.kind \in {"reshape", "reshapeTo"} -> ReshapeWrites(ts, node)
    [] node.kind = "unique" -> UniqueWrites(node)
    [] node.kind = "svdf" -> SvdfWrites(node, initialized)
=============================================================================
