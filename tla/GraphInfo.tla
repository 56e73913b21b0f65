------------------------------ MODULE GraphInfo ------------------------------
(***************************************************************************)
(* tflite/graph_info.cc: PartitionGraphIntoIndependentNodeSubsets divides  *)
(* the nodes of an execution plan into subsets that run one after another, *)
(* each of nodes a delegate claims or of nodes it does not.                *)
(*                                                                         *)
(* The partitioner is a record p:                                          *)
(*   nodes       by execution index, [id, in, out, effect]: the original   *)
(*               index, sets of tensors, might_have_side_effect            *)
(*   claimed     the execution indices whose node_type_ is kTfPartition    *)
(*   edges       control_edges_                                            *)
(*   greedily, disableFusion                                               *)
(*   subsets     node_subsets_; lists of tensors that Uniquefy sorts in    *)
(*               the end are sets                                          *)
(*   nodeEpoch, tensorEpoch   an epoch is the index of a subset            *)
(***************************************************************************)
EXTENDS Integers, Sequences, SequencesExt

kEpochNotReady == -1
kEpochAlwaysReady == -2

NewSubset == [type |-> "unexplored", nodes |-> << >>, in |-> {}, out |-> {}]

Indices(n) == [i \in 1..n |-> i]

ControlEdgesSkip(nodes, greedily) ==   \* mutant: only neighbours are chained
  {<<i, i + 1>> : i \in {j \in 1..(Len(nodes) - 1) :
                           greedily /\ nodes[j].effect /\ nodes[j + 1].effect}}

\* Without control edges of the model: a chain of the nodes with side effects.
ControlEdges(nodes, greedily) ==
  {e \in (DOMAIN nodes) \X (DOMAIN nodes) :
     /\ greedily
     /\ e[1] < e[2] /\ nodes[e[1]].effect /\ nodes[e[2]].effect
     /\ \A k \in (e[1] + 1)..(e[2] - 1) : ~nodes[k].effect}

NewPartitioner(nodes, claimed, greedily, disableFusion) ==
  LET produced == UNION {nodes[i].out : i \in DOMAIN nodes}
      tensors == produced \union UNION {nodes[i].in : i \in DOMAIN nodes}
  IN  [nodes |-> nodes,
       claimed |-> claimed,
       edges |-> ControlEdges(nodes, greedily),
       greedily |-> greedily,
       disableFusion |-> disableFusion,
       subsets |-> << >>,
       nodeEpoch |-> [i \in DOMAIN nodes |-> kEpochNotReady],
       tensorEpoch |-> [t \in tensors |->
                          IF t \in produced THEN kEpochNotReady ELSE kEpochAlwaysReady]]

NodeType(p, i) == IF i \in p.claimed THEN "partition" ELSE "nonPartition"

SchedulableAnyInput(p, i) ==   \* mutant: a node does not wait for its inputs
  /\ p.disableFusion => Last(p.subsets).nodes = << >>
  /\ p.nodeEpoch[i] = kEpochNotReady
  /\ \A e \in p.edges : e[2] = i => p.nodeEpoch[e[1]] # kEpochNotReady
  /\ Last(p.subsets).type \in {"unexplored", NodeType(p, i)}

\* The tests of UpdateNode.
Schedulable(p, i) ==
  /\ p.disableFusion => Last(p.subsets).nodes = << >>
  /\ p.nodeEpoch[i] = kEpochNotReady
  /\ \A t \in p.nodes[i].in : p.tensorEpoch[t] # kEpochNotReady
  /\ \A e \in p.edges : e[2] = i => p.nodeEpoch[e[1]] # kEpochNotReady
  /\ Last(p.subsets).type \in {"unexplored", NodeType(p, i)}

UpdateNodeOwnInputs(p, i) ==   \* mutant: an input is not made an output of its subset
  LET node == p.nodes[i]
      epoch == Len(p.subsets)
      crossing == {t \in node.in : p.tensorEpoch[t] # epoch}
  IN  [p EXCEPT
         !.nodeEpoch[i] = epoch,
         !.tensorEpoch = [t \in DOMAIN @ |-> IF t \in node.out THEN epoch ELSE @[t]],
         !.subsets[epoch].type = NodeType(p, i),
         !.subsets[epoch].nodes = Append(@, node.id),
         !.subsets[epoch].in = @ \union crossing]

\* UpdateNode when it returns true: the node joins the current subset, and
\* the inputs that come from elsewhere are outputs of the subsets they are in.
UpdateNode(p, i) ==
  LET node == p.nodes[i]
      epoch == Len(p.subsets)
      epochs == [t \in DOMAIN p.tensorEpoch |->
                   IF t \in node.out THEN epoch ELSE p.tensorEpoch[t]]
      crossing == {t \in node.in : epochs[t] # epoch}
      joined == [p.subsets[epoch] EXCEPT !.type = NodeType(p, i), !.nodes = Append(@, node.id),
                                         !.in = @ \union crossing]
      Left(e) == [p.subsets[e] EXCEPT !.out = @ \union {t \in crossing : epochs[t] = e}]
  IN  [p EXCEPT
         !.nodeEpoch[i] = epoch,
         !.tensorEpoch = epochs,
         !.subsets = [e \in DOMAIN @ |-> IF e = epoch THEN joined ELSE Left(e)]]

\* One turn of the loop over the nodes. When not greedy it ends at the first
\* node after one of the subset that cannot join it.
Turn(c, i) ==
  IF c.stop THEN c
  ELSE IF Schedulable(c.p, i) THEN [c EXCEPT !.p = UpdateNode(c.p, i), !.did = TRUE]
  ELSE [c EXCEPT !.stop = c.did /\ ~c.p.greedily]

\* A pass that changed nothing is the last.
EndPass(c) == [c EXCEPT !.stop = c.stop \/ ~c.did]

Pass(c, k) ==
  IF c.stop THEN c
  ELSE EndPass(FoldLeft(Turn, [c EXCEPT !.did = FALSE], Indices(Len(c.p.nodes))))

BuildNodeSubset(p) ==
  FoldLeft(Pass, [p |-> [p EXCEPT !.subsets = Append(@, NewSubset)], did |-> FALSE, stop |-> FALSE],
           Indices(Len(p.nodes) + 1)).p

\* Subsets until one is empty.
EndEpoch(p) ==
  IF Last(p.subsets).nodes = << >> THEN [p |-> [p EXCEPT !.subsets = Front(@)], done |-> TRUE]
  ELSE [p |-> p, done |-> FALSE]

Epoch(c, k) == IF c.done THEN c ELSE EndEpoch(BuildNodeSubset(c.p))

BuildNodeSubsets(p) ==
  FoldLeft(Epoch, [p |-> p, done |-> FALSE], Indices(Len(p.nodes) + 1)).p

\* The outputs of the model are outputs of the subsets they are in.
MarkOutputs(p, outputs) ==
  [e \in DOMAIN p.subsets |->
     [p.subsets[e] EXCEPT !.out =
        @ \union {t \in outputs \intersect DOMAIN p.tensorEpoch : p.tensorEpoch[t] = e}]]

\* kTfLiteOk when every node is in a subset.
Partitioned(p, outputs) ==
  [ok |-> \A i \in DOMAIN p.nodes : p.nodeEpoch[i] # kEpochNotReady,
   subsets |-> MarkOutputs(p, outputs)]

\* PartitionGraphIntoIndependentNodeSubsets for valid arguments.
Partition(nodes, claimed, outputs, greedily, disableFusion) ==
  Partitioned(BuildNodeSubsets(NewPartitioner(nodes, claimed, greedily, disableFusion)), outputs)

=============================================================================
