----------------------------- MODULE MCDelegates -----------------------------
(***************************************************************************)
(* Delegates for TLC: graphs in which op i makes tensor i + 1. Tensor 1 is *)
(* the input of the model, tensor 0 the handle of a resource.              *)
(***************************************************************************)
EXTENDS Delegates, TLC

CONSTANTS gpu, cpu

\* Op i reads reads[i], and the resource when it is one of effects. Tensors
\* that nobody reads are outputs of the model. gpu claims the ops of onGpu and
\* needs known sizes, cpu claims those of onCpu.
MakeGraph(reads, effects, onGpu, onCpu) ==
  [ops |-> [i \in DOMAIN reads |->
              [in |-> reads[i] \union (IF i \in effects THEN {0} ELSE {}), out |-> {i + 1}]],
   inputs |-> {0, 1},
   outputs |-> {i + 1 : i \in {j \in DOMAIN reads : \A k \in DOMAIN reads : j + 1 \notin reads[k]}},
   resources |-> {0},
   unsized |-> {},
   claims |-> gpu :> onGpu @@ cpu :> onCpu,
   allowDynamic |-> {cpu},
   makesDynamic |-> {},
   greedily |-> TRUE,
   preserve |-> FALSE]

Chain == <<{1}, {2}, {3}>>
Join == <<{1}, {1}, {2, 3}>>
Skip == <<{1}, {2}, {2, 3}>>
Branches == <<{1}, {1}, {2}>>

\* Every topology with effects or without, claims apart and overlapping.
Partitions ==
  {MakeGraph(reads, effects, claims[1], claims[2]) :
     reads \in {Chain, Join, Skip, Branches},
     effects \in {{}, {1, 3}, {2, 3}},
     claims \in {<<{1, 3}, {2}>>, <<{2}, {1, 3}>>, <<{1, 3}, {1, 2}>>, <<{1, 2}, {2, 3}>>}}

\* Four ops: two branches whose ends have effects, and a diamond.
FourOps ==
  {MakeGraph(<<{1}, {1}, {2}, {2}>>, {2, 4}, {1, 4}, {3})}
  \union {MakeGraph(<<{1}, {2}, {2}, {3, 4}>>, effects, {1, 2, 4}, {1, 3}) :
            effects \in {{}, {1, 3}, {3, 4}}}

\* The settings of the subgraph and of the delegates.
Settings ==
  LET joined == MakeGraph(Join, {}, {1, 3}, {2})
      skipped == MakeGraph(Branches, {2, 3}, {1, 3}, {2, 3})
  IN  UNION {{[g EXCEPT !.greedily = FALSE], [g EXCEPT !.preserve = TRUE],
              [g EXCEPT !.unsized = {2}], [g EXCEPT !.makesDynamic = {cpu}],
              [g EXCEPT !.allowDynamic = {}], [g EXCEPT !.allowDynamic = {gpu, cpu}]}
             : g \in {joined, skipped}}

\* Ops that make handles (VAR_HANDLE), for an assignment, which has no output,
\* and a read. Of the first graphs op 1 makes the handle of both. In the last one
\* the assignment, op 4, has the handle of op 3 and the read, op 5, that of op 1:
\* once a kernel hides the former, the read may pass it.
Variables ==
  LET Assign(g, i, handles) ==
        [g EXCEPT !.ops[i].out = {}, !.outputs = @ \ {i + 1}, !.resources = handles]
  IN  {Assign(MakeGraph(<<{}, {1, 2}, {2}>>, {}, claims[1], claims[2]), 2, {2}) :
         claims \in {<<{1, 2}, {3}>>, <<{1, 3}, {2}>>, <<{3}, {1, 2, 3}>>}}
      \union {Assign(MakeGraph(<<{}, {1}, {}, {3, 4}, {2}>>, {}, {3, 4}, {2}), 4, {2, 4})}

DelegateGraphs == Partitions \union Settings \union FourOps \union Variables

\* One graph, for the sequences of calls that need no other.
OneGraph == {MakeGraph(Chain, {}, {1, 2}, {1, 2, 3})}

NoFault == {{}}

\* No fault, or one.
OneFault == {{}} \union {{f} : f \in FaultKinds}

=============================================================================
