----------------------------- MODULE MCSubgraph -----------------------------
(***************************************************************************)
(* Subgraph for TLC: every graph of up to NumOps nodes over the kernels    *)
(* of Kinds, with one graph input, in which a node reads any tensors made  *)
(* before it.                                                              *)
(***************************************************************************)
EXTENDS Subgraph

CONSTANTS NumOps,       \* bound: nodes of a graph
          Kinds,        \* kernels the graphs are made of
          InitialSize,  \* bytes of every tensor in the model file
          Options       \* values of preserve_all_tensors_ and of the release option

\* Tensor 1 is the graph input, 2 the variable; node i makes tensors
\* 4i + 3 .. 4i + 6: two outputs and two temporaries.
InputTensor == 1
Variable == 2
Out(i) == 4 * i + 3

NewTensor(type) == [bytes |-> InitialSize, dims |-> <<InitialSize, 0>>, type |-> type,
                    data |-> Null]

\* The tensors nodes before i make for others to read.
Readables(i) == {InputTensor} \union {Out(k) : k \in 0 .. i - 1}

MakeNode(kind, i, a, b) ==
  [kind |-> kind,
   in |-> CASE kind = "add" -> <<a, b>> [] kind = "svdf" -> <<a, Variable>> [] OTHER -> <<a>>,
   out |-> IF kind = "unique" THEN <<Out(i), Out(i) + 1>> ELSE <<Out(i)>>,
   tmp |-> IF kind = "svdf" THEN <<Out(i) + 2, Out(i) + 3>> ELSE << >>,
   shared |-> CASE kind = "add" -> {1, 2}
                [] kind \in {"reshape", "reshapeTo"} -> {1}
                [] OTHER -> {},
   view |-> kind \in {"reshape", "reshapeTo"}]

NodesAt(kinds, i) ==
  {MakeNode(k, i, a, b) : k \in kinds, a \in Readables(i), b \in Readables(i)}

Used(nodes) ==
  {InputTensor, Variable} \union
  UNION {Range(nodes[i].out) \union Range(nodes[i].tmp) : i \in DOMAIN nodes}

TypeOf(nodes, t) ==
  IF t = Variable \/ (t > 2 /\ t % 4 = 2) THEN "persistent" ELSE "rw"

MakeGraph(nodes, outputs, options) ==
  [nodes |-> nodes,
   inputs |-> {InputTensor},
   outputs |-> outputs,
   variables |-> {Variable},
   preserve |-> options.preserve,
   release |-> options.release,
   inputSizes |-> Sizes,
   tensors |-> [t \in Used(nodes) |-> NewTensor(TypeOf(nodes, t))]]

\* Neither option, and each of the two.
AnyOption == {[preserve |-> FALSE, release |-> FALSE], [preserve |-> TRUE, release |-> FALSE],
              [preserve |-> FALSE, release |-> TRUE]}
NoOption == {[preserve |-> FALSE, release |-> FALSE]}

\* Every tensor a node makes for others is read by a later node, or is the
\* output of the graph.
Connected(nodes, n) ==
  \A i \in 0 .. n - 2 : \E k \in i + 1 .. n - 1 : Out(i) \in Range(nodes[k].in)

\* The nodes of every graph of n nodes over the given kernels.
NodesOfGraphs(kinds, n) ==
  LET First[k \in 0 .. n] ==
        IF k = 0 THEN {<< >>}
        ELSE {(k - 1 :> node) @@ nodes : node \in NodesAt(kinds, k - 1), nodes \in First[k - 1]}
  IN  {nodes \in First[n] : Connected(nodes, n)}

\* The last node's output is the output of the graph.
ConnectedGraphs ==
  {MakeGraph(nodes, {Out(NumOps - 1)}, options) :
     nodes \in NodesOfGraphs(Kinds, NumOps), options \in Options}

\* Graphs of one more node, whose outputs share the buffers of their inputs
\* where they may: any of their tensors are outputs, and none is resized.
SharingGraphs ==
  {[MakeGraph(nodes, outputs \union {Out(NumOps)}, [preserve |-> FALSE, release |-> FALSE])
      EXCEPT !.inputSizes = {InitialSize}] :
     nodes \in NodesOfGraphs({"add", "reshape"}, NumOps + 1),
     outputs \in SUBSET {Out(i) : i \in 0 .. NumOps - 1}}

DynamicAndSharing == ConnectedGraphs \union SharingGraphs

(***************************************************************************)
(* Single graphs.                                                          *)
(***************************************************************************)

\* Node 1 and 2 are views: their outputs are in the buffer of node 0's. Node
\* 3 may overwrite the second view; node 4 reads the first one.
ViewChain ==
  {MakeGraph((0 :> MakeNode("add", 0, InputTensor, InputTensor)) @@
             (1 :> MakeNode("reshape", 1, Out(0), Out(0))) @@
             (2 :> MakeNode("reshape", 2, Out(1), Out(1))) @@
             (3 :> MakeNode("add", 3, Out(2), InputTensor)) @@
             (4 :> MakeNode("add", 4, Out(1), Out(3))),
             {Out(4)}, options) : options \in Options}

\* The size of node 0's output is known when it ran; then node 1 is planned.
DynamicThenStatic ==
  {MakeGraph((0 :> MakeNode("unique", 0, InputTensor, InputTensor)) @@
             (1 :> MakeNode("add", 1, Out(0), InputTensor)),
             {Out(1)}, options) : options \in Options}

\* Node 1 takes its shape from a tensor.
ReshapeToChain ==
  {MakeGraph((0 :> MakeNode("add", 0, InputTensor, InputTensor)) @@
             (1 :> MakeNode("reshapeTo", 1, Out(0), Out(0))) @@
             (2 :> MakeNode("add", 2, Out(1), Out(1))),
             {Out(2)}, options) : options \in Options}
=============================================================================
