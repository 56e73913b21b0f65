--------------------------- MODULE GraphInfo_proofs ---------------------------
(***************************************************************************)
(* What PartitionGraphIntoIndependentNodeSubsets promises, proved for any  *)
(* graph: the subsets hold every node once, in an order that respects data *)
(* and side effects, and name exactly the tensors that cross their         *)
(* borders.                                                                *)
(***************************************************************************)
EXTENDS GraphInfo, Extrema

-----------------------------------------------------------------------------
(* The invariant of the partitioner.                                       *)

NodeOf(T) == [id : Nat, in : SUBSET T, out : SUBSET T, effect : BOOLEAN]

SubsetOf(T) ==
  [type : {"unexplored", "partition", "nonPartition"}, nodes : Seq(Nat),
   in : SUBSET T, out : SUBSET T]

\* The nodes of a plan that can run: every tensor is made once, before it is read.
GraphNodes(T, nodes) ==
  /\ nodes \in Seq(NodeOf(T))
  /\ \A x, y \in DOMAIN nodes : nodes[x].id = nodes[y].id => x = y
  /\ \A x, y \in DOMAIN nodes : nodes[x].out \intersect nodes[y].out # {} => x = y
  /\ \A x, y \in DOMAIN nodes : nodes[x].out \intersect nodes[y].in # {} => x < y

\* The node x has to stay before y.
MustPrecede(nodes, greedily, x, y) ==
  /\ x < y
  /\ \/ nodes[x].out \intersect nodes[y].in # {}
     \/ nodes[x].effect /\ nodes[y].effect
     \/ ~ greedily

Earlier(e, j, f, k) == e < f \/ (e = f /\ j < k)

Produced(nodes) == UNION {nodes[i].out : i \in DOMAIN nodes}

Placed(p, i) == p.nodeEpoch[i] # kEpochNotReady

Shape(T, p) ==
  /\ DOMAIN p = {"nodes", "claimed", "edges", "greedily", "disableFusion", "subsets",
                 "nodeEpoch", "tensorEpoch"}
  /\ GraphNodes(T, p.nodes)
  /\ p.greedily \in BOOLEAN /\ p.disableFusion \in BOOLEAN
  /\ p.edges = ControlEdges(p.nodes, p.greedily)
  /\ p.subsets \in Seq(SubsetOf(T))
  /\ p.nodeEpoch \in [DOMAIN p.nodes -> {kEpochNotReady} \union DOMAIN p.subsets]
  /\ DOMAIN p.tensorEpoch = Produced(p.nodes) \union UNION {p.nodes[i].in : i \in DOMAIN p.nodes}

\* The subsets hold the nodes that have an epoch, each once.
Members(p) ==
  /\ \A e \in DOMAIN p.subsets : \A j \in DOMAIN p.subsets[e].nodes :
       \E i \in DOMAIN p.nodes : p.nodes[i].id = p.subsets[e].nodes[j] /\ p.nodeEpoch[i] = e
  /\ \A e \in DOMAIN p.subsets : \A j, k \in DOMAIN p.subsets[e].nodes :
       p.subsets[e].nodes[j] = p.subsets[e].nodes[k] => j = k
  /\ \A i \in DOMAIN p.nodes : Placed(p, i) =>
       \E j \in DOMAIN p.subsets[p.nodeEpoch[i]].nodes :
         p.subsets[p.nodeEpoch[i]].nodes[j] = p.nodes[i].id

\* A tensor has the epoch of its node.
TensorEpochs(p) ==
  /\ \A t \in DOMAIN p.tensorEpoch \ Produced(p.nodes) : p.tensorEpoch[t] = kEpochAlwaysReady
  /\ \A i \in DOMAIN p.nodes : \A t \in p.nodes[i].out : p.tensorEpoch[t] = p.nodeEpoch[i]
  /\ \A i \in DOMAIN p.nodes : Placed(p, i) =>
       \A t \in p.nodes[i].in : p.tensorEpoch[t] # kEpochNotReady

\* A node that is placed comes after all that must precede it.
InOrder(p) ==
  \A x, y \in DOMAIN p.nodes : MustPrecede(p.nodes, p.greedily, x, y) /\ Placed(p, y) =>
    /\ Placed(p, x)
    /\ \A j \in DOMAIN p.subsets[p.nodeEpoch[x]].nodes :
       \A k \in DOMAIN p.subsets[p.nodeEpoch[y]].nodes :
         p.subsets[p.nodeEpoch[x]].nodes[j] = p.nodes[x].id
         /\ p.subsets[p.nodeEpoch[y]].nodes[k] = p.nodes[y].id
         => Earlier(p.nodeEpoch[x], j, p.nodeEpoch[y], k)

Types(p) ==
  \A i \in DOMAIN p.nodes : Placed(p, i) => p.subsets[p.nodeEpoch[i]].type = NodeType(p, i)

\* The inputs and outputs of a subset are the tensors that cross its border.
Borders(p) ==
  \A e \in DOMAIN p.subsets :
    /\ \A t : t \in p.subsets[e].in <=>
         \E i \in DOMAIN p.nodes : p.nodeEpoch[i] = e /\ t \in p.nodes[i].in
                                   /\ p.tensorEpoch[t] # e
    /\ \A t : t \in p.subsets[e].out <=>
         \E i \in DOMAIN p.nodes : Placed(p, i) /\ p.nodeEpoch[i] # e /\ t \in p.nodes[i].in
                                   /\ p.tensorEpoch[t] = e

PartitionInv(T, p) ==
  Shape(T, p) /\ Members(p) /\ TensorEpochs(p) /\ InOrder(p) /\ Types(p) /\ Borders(p)

SameGraph(p, q) ==
  /\ q.nodes = p.nodes /\ q.claimed = p.claimed
  /\ q.greedily = p.greedily /\ q.disableFusion = p.disableFusion

\* The subset under construction has a type as soon as it has a node.
Growing(p) ==
  /\ p.subsets # << >>
  /\ p.subsets[Len(p.subsets)].type = "unexplored" <=> p.subsets[Len(p.subsets)].nodes = << >>

-----------------------------------------------------------------------------
(* One node joins the current subset.                                      *)

Crossing(p, i) ==
  {t \in p.nodes[i].in : ~ (t \in p.nodes[i].out \/ p.tensorEpoch[t] = Len(p.subsets))}

\* What UpdateNode writes, field by field.
Joins(T, p, i, q) ==
  /\ DOMAIN q = DOMAIN p /\ SameGraph(p, q) /\ q.edges = p.edges
  /\ q.nodeEpoch = [p.nodeEpoch EXCEPT ![i] = Len(p.subsets)]
  /\ DOMAIN q.tensorEpoch = DOMAIN p.tensorEpoch
  /\ \A t \in DOMAIN p.tensorEpoch :
       q.tensorEpoch[t] = IF t \in p.nodes[i].out THEN Len(p.subsets) ELSE p.tensorEpoch[t]
  /\ Len(q.subsets) = Len(p.subsets)
  /\ q.subsets \in Seq(SubsetOf(T))
  /\ q.subsets[Len(p.subsets)].type = NodeType(p, i)
  /\ q.subsets[Len(p.subsets)].nodes = Append(p.subsets[Len(p.subsets)].nodes, p.nodes[i].id)
  /\ q.subsets[Len(p.subsets)].in = p.subsets[Len(p.subsets)].in \union Crossing(p, i)
  /\ q.subsets[Len(p.subsets)].out = p.subsets[Len(p.subsets)].out
  /\ \A e \in DOMAIN p.subsets : e # Len(p.subsets) =>
       /\ q.subsets[e].type = p.subsets[e].type
       /\ q.subsets[e].nodes = p.subsets[e].nodes
       /\ q.subsets[e].in = p.subsets[e].in
       /\ q.subsets[e].out = p.subsets[e].out
                             \union {t \in Crossing(p, i) : p.tensorEpoch[t] = e}

LEMMA UpdateNodeEffect ==
  ASSUME NEW T, NEW p, Shape(T, p), p.subsets # << >>,
         NEW i \in DOMAIN p.nodes, NEW q, q = UpdateNode(p, i)
  PROVE  Joins(T, p, i, q)
<1> DEFINE E == Len(p.subsets)
           epochs == [t \in DOMAIN p.tensorEpoch |->
                        IF t \in p.nodes[i].out THEN E ELSE p.tensorEpoch[t]]
           crossing == {t \in p.nodes[i].in : epochs[t] # E}
           joined == [p.subsets[E] EXCEPT !.type = NodeType(p, i),
                        !.nodes = Append(@, p.nodes[i].id), !.in = @ \union crossing]
           Out(e) == {t \in crossing : epochs[t] = e}
           subs == [e \in DOMAIN p.subsets |->
                      IF e = E THEN joined ELSE [p.subsets[e] EXCEPT !.out = @ \union Out(e)]]
<1>1. q = [p EXCEPT !.nodeEpoch[i] = E, !.tensorEpoch = epochs, !.subsets = subs]
  BY DEF UpdateNode
<1>2. crossing = Crossing(p, i)
  <2>1. \A t \in p.nodes[i].in : t \in DOMAIN p.tensorEpoch
    BY DEF Shape
  <2> QED BY <2>1 DEF Crossing
<1>3. ASSUME NEW e
      PROVE  Out(e) = {t \in Crossing(p, i) : p.tensorEpoch[t] = e}
  <2>1. \A t \in crossing : epochs[t] = p.tensorEpoch[t]
    BY DEF Shape
  <2> QED BY <1>2, <2>1
<1>4. E \in Nat /\ DOMAIN p.subsets = 1..E /\ E \in 1..E
  BY DEF Shape
<1>5. \A e \in 1..E : p.subsets[e] \in SubsetOf(T)
  BY <1>4 DEF Shape
<1>6. crossing \in SUBSET T /\ p.nodes[i].id \in Nat
  <2>1. p.nodes[i] \in NodeOf(T)
    BY DEF Shape, GraphNodes
  <2> QED BY <2>1 DEF NodeOf
<1>7. NodeType(p, i) \in {"unexplored", "partition", "nonPartition"}
  BY DEF NodeType
<1> HIDE DEF crossing, E, epochs
<1>8. q.subsets = subs
  BY <1>1 DEF Shape
<1>9. q.nodeEpoch = [p.nodeEpoch EXCEPT ![i] = E] /\ q.tensorEpoch = epochs
  BY <1>1 DEF Shape
<1>10. DOMAIN q = DOMAIN p /\ SameGraph(p, q) /\ q.edges = p.edges
  BY <1>1 DEF Shape, SameGraph
<1>11. /\ joined.type = NodeType(p, i)
       /\ joined.nodes = Append(p.subsets[E].nodes, p.nodes[i].id)
       /\ joined.in = p.subsets[E].in \union crossing
       /\ joined.out = p.subsets[E].out
       /\ joined \in SubsetOf(T)
  <2> DEFINE a == p.subsets[E]
             l == Append(a.nodes, p.nodes[i].id)
             x == a.in \union crossing
             ty == NodeType(p, i)
  <2>1. a \in SubsetOf(T)
    BY <1>4, <1>5
  <2>2. l \in Seq(Nat) /\ x \in SUBSET T
    BY <1>6, <2>1 DEF SubsetOf
  <2>3. joined = [a EXCEPT !.type = ty, !.nodes = l, !.in = x]
    OBVIOUS
  <2> HIDE DEF a, l, x, ty, joined
  <2>4. joined.type = ty /\ joined.nodes = l /\ joined.in = x /\ joined.out = a.out
    BY <2>1, <2>3 DEF SubsetOf
  <2>5. joined \in SubsetOf(T)
    BY <2>1, <2>2, <2>3, <1>7 DEF SubsetOf, ty
  <2> QED BY <2>4, <2>5 DEF a, l, x, ty
<1>12. ASSUME NEW e \in 1..E, NEW b, b = [p.subsets[e] EXCEPT !.out = @ \union Out(e)]
       PROVE  /\ b.type = p.subsets[e].type
              /\ b.nodes = p.subsets[e].nodes
              /\ b.in = p.subsets[e].in
              /\ b.out = p.subsets[e].out \union Out(e)
              /\ b \in SubsetOf(T)
  <2> DEFINE a == p.subsets[e]
             x == a.out \union Out(e)
  <2>1. a \in SubsetOf(T) /\ Out(e) \in SUBSET T
    BY <1>5, <1>6
  <2>2. x \in SUBSET T
    BY <2>1 DEF SubsetOf
  <2>3. b = [a EXCEPT !.out = x]
    BY <1>12
  <2> HIDE DEF a, x, Out
  <2>4. b.type = a.type /\ b.nodes = a.nodes /\ b.in = a.in /\ b.out = x /\ b \in SubsetOf(T)
    BY <2>1, <2>2, <2>3 DEF SubsetOf
  <2> QED BY <2>4 DEF a, x
<1> HIDE DEF joined, Out
<1>13. q.subsets[E] = joined
  BY <1>4, <1>8
<1>14. \A e \in 1..E : e # E => q.subsets[e] = [p.subsets[e] EXCEPT !.out = @ \union Out(e)]
  BY <1>4, <1>8
<1>15. \A e \in 1..E : q.subsets[e] \in SubsetOf(T)
  BY <1>11, <1>12, <1>13, <1>14
<1>16. q.subsets \in Seq(SubsetOf(T)) /\ Len(q.subsets) = E
  <2>1. q.subsets = [e \in 1..E |-> q.subsets[e]]
    BY <1>4, <1>8
  <2> QED BY <2>1, <1>4, <1>15
<1>17. /\ q.subsets[E].type = NodeType(p, i)
       /\ q.subsets[E].nodes = Append(p.subsets[E].nodes, p.nodes[i].id)
       /\ q.subsets[E].in = p.subsets[E].in \union Crossing(p, i)
       /\ q.subsets[E].out = p.subsets[E].out
  BY <1>2, <1>11, <1>13
<1>18. \A e \in DOMAIN p.subsets : e # E =>
         /\ q.subsets[e].type = p.subsets[e].type
         /\ q.subsets[e].nodes = p.subsets[e].nodes
         /\ q.subsets[e].in = p.subsets[e].in
         /\ q.subsets[e].out = p.subsets[e].out
                               \union {t \in Crossing(p, i) : p.tensorEpoch[t] = e}
  <2> SUFFICES ASSUME NEW e \in DOMAIN p.subsets, e # E
               PROVE  /\ q.subsets[e].type = p.subsets[e].type
                      /\ q.subsets[e].nodes = p.subsets[e].nodes
                      /\ q.subsets[e].in = p.subsets[e].in
                      /\ q.subsets[e].out = p.subsets[e].out
                                            \union {t \in Crossing(p, i) : p.tensorEpoch[t] = e}
    OBVIOUS
  <2>1. e \in 1..E
    BY <1>4
  <2>2. q.subsets[e] = [p.subsets[e] EXCEPT !.out = @ \union Out(e)]
    BY <1>14, <2>1
  <2>3. /\ q.subsets[e].type = p.subsets[e].type
        /\ q.subsets[e].nodes = p.subsets[e].nodes
        /\ q.subsets[e].in = p.subsets[e].in
        /\ q.subsets[e].out = p.subsets[e].out \union Out(e)
    BY <1>12, <2>1, <2>2
  <2> QED BY <1>3, <2>3
<1>19. DOMAIN q.tensorEpoch = DOMAIN p.tensorEpoch
       /\ \A t \in DOMAIN p.tensorEpoch :
            q.tensorEpoch[t] = IF t \in p.nodes[i].out THEN E ELSE p.tensorEpoch[t]
  BY <1>9 DEF epochs
<1> QED BY <1>9, <1>10, <1>16, <1>17, <1>18, <1>19 DEF E, Joins

\* The epochs stay epochs of subsets.
LEMMA JoinKeepsShape ==
  ASSUME NEW T, NEW p, Shape(T, p), p.subsets # << >>, NEW i \in DOMAIN p.nodes,
         NEW q, Joins(T, p, i, q)
  PROVE  Shape(T, q)
<1>1. DOMAIN q.subsets = DOMAIN p.subsets /\ Len(p.subsets) \in DOMAIN p.subsets
  BY DEF Joins, Shape
<1>2. q.nodeEpoch \in [DOMAIN q.nodes -> {kEpochNotReady} \union DOMAIN q.subsets]
  BY <1>1 DEF Joins, Shape, SameGraph
<1> QED BY <1>2 DEF Joins, Shape, SameGraph

\* The node is in its subset, once.
LEMMA JoinKeepsMembers ==
  ASSUME NEW T, NEW p, Shape(T, p), Members(p), p.subsets # << >>, NEW i \in DOMAIN p.nodes,
         ~ Placed(p, i), NEW q, Joins(T, p, i, q)
  PROVE  Members(q)
<1> DEFINE E == Len(p.subsets)
           old == p.subsets[E].nodes
<1>1. /\ DOMAIN q.subsets = DOMAIN p.subsets /\ E \in DOMAIN p.subsets /\ E \in Nat
      /\ q.nodes = p.nodes /\ q.nodeEpoch = [p.nodeEpoch EXCEPT ![i] = E]
      /\ E # kEpochNotReady
  BY DEF Joins, Shape, SameGraph, kEpochNotReady
<1>2. old \in Seq(Nat) /\ p.nodes[i].id \in Nat
  <2>1. p.nodes[i] \in NodeOf(T) /\ p.subsets[E] \in SubsetOf(T)
    BY <1>1 DEF Shape, GraphNodes
  <2> QED BY <2>1 DEF NodeOf, SubsetOf
<1>3. q.subsets[E].nodes = Append(old, p.nodes[i].id)
  BY DEF Joins
<1>4. \A e \in DOMAIN p.subsets : e # E => q.subsets[e].nodes = p.subsets[e].nodes
  BY DEF Joins
<1>5. \A x \in DOMAIN p.nodes : x # i => q.nodeEpoch[x] = p.nodeEpoch[x]
  BY <1>1 DEF Shape
<1>6. q.nodeEpoch[i] = E /\ p.nodeEpoch[i] = kEpochNotReady
  BY <1>1 DEF Shape, Placed
<1>7. /\ DOMAIN q.subsets[E].nodes = 1..(Len(old) + 1) /\ DOMAIN old = 1..Len(old)
      /\ \A j \in 1..Len(old) : q.subsets[E].nodes[j] = old[j]
      /\ q.subsets[E].nodes[Len(old) + 1] = p.nodes[i].id
      /\ Len(old) \in Nat
  BY <1>2, <1>3
<1>8. \A e \in DOMAIN p.subsets : e # kEpochNotReady
  BY DEF Shape, kEpochNotReady
<1>9. \A x, y \in DOMAIN p.nodes : p.nodes[x].id = p.nodes[y].id => x = y
  BY DEF Shape, GraphNodes
<1> HIDE DEF E, old
<1>10. ASSUME NEW e \in DOMAIN q.subsets, NEW j \in DOMAIN q.subsets[e].nodes
       PROVE  \E x \in DOMAIN q.nodes : q.nodes[x].id = q.subsets[e].nodes[j] /\ q.nodeEpoch[x] = e
  <2>1. CASE e = E /\ j = Len(old) + 1
    BY <2>1, <1>1, <1>6, <1>7
  <2>2. CASE ~ (e = E /\ j = Len(old) + 1)
    <3>1. j \in DOMAIN p.subsets[e].nodes /\ q.subsets[e].nodes[j] = p.subsets[e].nodes[j]
      <4>1. CASE e = E
        <5>1. j \in 1..(Len(old) + 1) /\ j # Len(old) + 1
          BY <4>1, <2>2, <1>7
        <5>2. j \in 1..Len(old)
          BY <5>1, <1>7
        <5>3. j \in DOMAIN old /\ q.subsets[E].nodes[j] = old[j]
          BY <5>2, <1>7
        <5> QED BY <4>1, <5>3 DEF old
      <4>2. CASE e # E
        BY <4>2, <1>1, <1>4
      <4> QED BY <4>1, <4>2
    <3>2. PICK x \in DOMAIN p.nodes : p.nodes[x].id = p.subsets[e].nodes[j] /\ p.nodeEpoch[x] = e
      BY <3>1, <1>1 DEF Members
    <3>3. x # i
      BY <3>2, <1>1, <1>6, <1>8
    <3> QED BY <3>1, <3>2, <3>3, <1>1, <1>5
  <2> QED BY <2>1, <2>2
<1>11. \A j \in DOMAIN old : old[j] # p.nodes[i].id
  <2> SUFFICES ASSUME NEW j \in DOMAIN old PROVE old[j] # p.nodes[i].id
    OBVIOUS
  <2>1. PICK x \in DOMAIN p.nodes : p.nodes[x].id = old[j] /\ p.nodeEpoch[x] = E
    BY <1>1 DEF Members, old
  <2>2. x # i
    BY <2>1, <1>1, <1>6
  <2> QED BY <2>1, <2>2, <1>9
<1>12. ASSUME NEW e \in DOMAIN q.subsets, NEW j \in DOMAIN q.subsets[e].nodes,
              NEW k \in DOMAIN q.subsets[e].nodes, q.subsets[e].nodes[j] = q.subsets[e].nodes[k]
       PROVE  j = k
  <2>1. \A f \in DOMAIN p.subsets : \A a, b \in DOMAIN p.subsets[f].nodes :
          p.subsets[f].nodes[a] = p.subsets[f].nodes[b] => a = b
    BY DEF Members
  <2>2. CASE e # E
    BY <2>1, <2>2, <1>1, <1>4, <1>12
  <2>3. CASE e = E
    <3>1. \A a, b \in DOMAIN old : old[a] = old[b] => a = b
      BY <2>1, <1>1 DEF old
    <3> QED BY <3>1, <2>3, <1>7, <1>11, <1>12
  <2> QED BY <2>2, <2>3
<1>13. ASSUME NEW x \in DOMAIN q.nodes, Placed(q, x)
       PROVE  \E j \in DOMAIN q.subsets[q.nodeEpoch[x]].nodes :
                q.subsets[q.nodeEpoch[x]].nodes[j] = q.nodes[x].id
  <2>1. CASE x = i
    <3>1. Len(old) + 1 \in DOMAIN q.subsets[E].nodes
      BY <1>7
    <3> QED BY <2>1, <3>1, <1>1, <1>6, <1>7
  <2>2. CASE x # i
    <3>1. q.nodeEpoch[x] = p.nodeEpoch[x] /\ Placed(p, x) /\ x \in DOMAIN p.nodes
      BY <2>2, <1>1, <1>5, <1>13 DEF Placed
    <3>2. PICK j \in DOMAIN p.subsets[p.nodeEpoch[x]].nodes :
            p.subsets[p.nodeEpoch[x]].nodes[j] = p.nodes[x].id
      BY <3>1 DEF Members
    <3>3. p.nodeEpoch[x] \in DOMAIN p.subsets
      BY <3>1 DEF Shape, Placed
    <3>4. CASE p.nodeEpoch[x] = E
      <4>1. j \in DOMAIN q.subsets[E].nodes /\ q.subsets[E].nodes[j] = old[j]
        BY <3>2, <3>4, <1>7 DEF old
      <4> QED BY <4>1, <3>1, <3>2, <3>4, <1>1 DEF old
    <3>5. CASE p.nodeEpoch[x] # E
      BY <3>1, <3>2, <3>3, <3>5, <1>1, <1>4
    <3> QED BY <3>4, <3>5
  <2> QED BY <2>1, <2>2
<1> QED BY <1>10, <1>12, <1>13 DEF Members

\* The tensors of the node get its epoch; nobody placed earlier reads them.
LEMMA JoinKeepsTensors ==
  ASSUME NEW T, NEW p, Shape(T, p), TensorEpochs(p), p.subsets # << >>,
         NEW i \in DOMAIN p.nodes, ~ Placed(p, i),
         \A t \in p.nodes[i].in : p.tensorEpoch[t] # kEpochNotReady,
         NEW q, Joins(T, p, i, q)
  PROVE  /\ TensorEpochs(q)
         /\ \A x \in DOMAIN p.nodes : Placed(p, x) => \A t \in p.nodes[x].in :
              t \notin p.nodes[i].out /\ q.tensorEpoch[t] = p.tensorEpoch[t]
<1> DEFINE E == Len(p.subsets)
<1>1. /\ q.nodes = p.nodes /\ q.nodeEpoch = [p.nodeEpoch EXCEPT ![i] = E]
      /\ E \in Nat /\ E # kEpochNotReady
      /\ DOMAIN q.tensorEpoch = DOMAIN p.tensorEpoch
  BY DEF Joins, Shape, SameGraph, kEpochNotReady
<1>2. \A t \in DOMAIN p.tensorEpoch :
        q.tensorEpoch[t] = IF t \in p.nodes[i].out THEN E ELSE p.tensorEpoch[t]
  BY DEF Joins
<1>3. \A x \in DOMAIN p.nodes : x # i => q.nodeEpoch[x] = p.nodeEpoch[x]
  BY <1>1 DEF Shape
<1>4. q.nodeEpoch[i] = E /\ p.nodeEpoch[i] = kEpochNotReady
  BY <1>1 DEF Shape, Placed
<1>5. \A x \in DOMAIN p.nodes :
        p.nodes[x].out \subseteq Produced(p.nodes) /\ p.nodes[x].in \union p.nodes[x].out \subseteq DOMAIN p.tensorEpoch
  BY DEF Shape, Produced
<1>6. \A x \in DOMAIN p.nodes : x # i => \A t \in p.nodes[x].out : t \notin p.nodes[i].out
  <2>1. \A x \in DOMAIN p.nodes : p.nodes[x].out \intersect p.nodes[i].out # {} => x = i
    BY DEF Shape, GraphNodes
  <2> QED BY <2>1
<1> HIDE DEF E
<1>7. ASSUME NEW x \in DOMAIN p.nodes, Placed(p, x), NEW t \in p.nodes[x].in
      PROVE  t \notin p.nodes[i].out /\ q.tensorEpoch[t] = p.tensorEpoch[t]
  <2>1. p.tensorEpoch[t] # kEpochNotReady
    BY <1>7 DEF TensorEpochs
  <2>2. t \notin p.nodes[i].out
    BY <2>1, <1>4 DEF TensorEpochs
  <2> QED BY <2>2, <1>2, <1>5
<1>8. \A t \in DOMAIN q.tensorEpoch \ Produced(q.nodes) : q.tensorEpoch[t] = kEpochAlwaysReady
  BY <1>1, <1>2, <1>5 DEF TensorEpochs
<1>9. ASSUME NEW x \in DOMAIN q.nodes, NEW t \in q.nodes[x].out
      PROVE  q.tensorEpoch[t] = q.nodeEpoch[x]
  <2>1. t \in DOMAIN p.tensorEpoch
    BY <1>1, <1>5
  <2>2. CASE x = i
    BY <2>1, <2>2, <1>1, <1>2, <1>4
  <2>3. CASE x # i
    <3>1. q.tensorEpoch[t] = p.tensorEpoch[t]
      BY <2>1, <2>3, <1>1, <1>2, <1>6
    <3>2. p.tensorEpoch[t] = p.nodeEpoch[x]
      BY <1>1 DEF TensorEpochs
    <3> QED BY <3>1, <3>2, <2>3, <1>1, <1>3
  <2> QED BY <2>2, <2>3
<1>10. ASSUME NEW x \in DOMAIN q.nodes, Placed(q, x), NEW t \in q.nodes[x].in
       PROVE  q.tensorEpoch[t] # kEpochNotReady
  <2>1. t \in DOMAIN p.tensorEpoch
    BY <1>1, <1>5
  <2>2. CASE x = i
    BY <2>1, <2>2, <1>1, <1>2
  <2>3. CASE x # i
    <3>1. Placed(p, x) /\ x \in DOMAIN p.nodes /\ t \in p.nodes[x].in
      BY <2>3, <1>1, <1>3, <1>10 DEF Placed
    <3>2. p.tensorEpoch[t] # kEpochNotReady
      BY <3>1 DEF TensorEpochs
    <3> QED BY <3>1, <3>2, <1>7
  <2> QED BY <2>2, <2>3
<1> QED BY <1>7, <1>8, <1>9, <1>10 DEF TensorEpochs

\* A subset has nodes of one type.
LEMMA JoinKeepsTypes ==
  ASSUME NEW T, NEW p, Shape(T, p), Types(p), p.subsets # << >>,
         NEW i \in DOMAIN p.nodes, ~ Placed(p, i),
         p.subsets[Len(p.subsets)].type \in {"unexplored", NodeType(p, i)},
         NEW q, Joins(T, p, i, q)
  PROVE  Types(q)
<1> DEFINE E == Len(p.subsets)
<1>1. /\ q.nodes = p.nodes /\ q.nodeEpoch = [p.nodeEpoch EXCEPT ![i] = E]
      /\ E \in Nat /\ q.claimed = p.claimed
  BY DEF Joins, Shape, SameGraph
<1>2. \A x \in DOMAIN p.nodes : x # i => q.nodeEpoch[x] = p.nodeEpoch[x]
  BY <1>1 DEF Shape
<1>3. q.nodeEpoch[i] = E
  BY <1>1 DEF Shape
<1>4. \A x : NodeType(q, x) = NodeType(p, x) /\ NodeType(p, x) # "unexplored"
  BY <1>1 DEF NodeType
<1>5. q.subsets[E].type = NodeType(p, i)
  BY DEF Joins
<1>6. \A e \in DOMAIN p.subsets : e # E => q.subsets[e].type = p.subsets[e].type
  BY DEF Joins
<1>7. p.subsets[E].type \in {"unexplored", NodeType(p, i)}
  OBVIOUS
<1> HIDE DEF E
<1> SUFFICES ASSUME NEW x \in DOMAIN q.nodes, Placed(q, x)
             PROVE  q.subsets[q.nodeEpoch[x]].type = NodeType(q, x)
  BY DEF Types
<1>8. CASE x = i
  BY <1>8, <1>3, <1>4, <1>5
<1>9. CASE x # i
  <2>1. Placed(p, x) /\ q.nodeEpoch[x] = p.nodeEpoch[x] /\ x \in DOMAIN p.nodes
    BY <1>9, <1>1, <1>2 DEF Placed
  <2>2. p.subsets[p.nodeEpoch[x]].type = NodeType(p, x) /\ p.nodeEpoch[x] \in DOMAIN p.subsets
    BY <2>1 DEF Types, Shape, Placed
  <2>3. CASE p.nodeEpoch[x] = E
    BY <2>1, <2>2, <2>3, <1>4, <1>5, <1>7
  <2>4. CASE p.nodeEpoch[x] # E
    BY <2>1, <2>2, <2>4, <1>4, <1>6
  <2> QED BY <2>3, <2>4
<1> QED BY <1>8, <1>9

\* The lists of inputs and outputs stay those of the borders.
LEMMA JoinKeepsBorders ==
  ASSUME NEW T, NEW p, Shape(T, p), TensorEpochs(p), Borders(p), p.subsets # << >>,
         NEW i \in DOMAIN p.nodes, ~ Placed(p, i),
         \A t \in p.nodes[i].in : p.tensorEpoch[t] # kEpochNotReady,
         NEW q, Joins(T, p, i, q)
  PROVE  Borders(q)
<1> DEFINE E == Len(p.subsets)
<1>1. /\ q.nodes = p.nodes /\ q.nodeEpoch = [p.nodeEpoch EXCEPT ![i] = E]
      /\ DOMAIN q.subsets = DOMAIN p.subsets /\ E \in DOMAIN p.subsets
      /\ E \in Nat /\ E # kEpochNotReady
  BY DEF Joins, Shape, SameGraph, kEpochNotReady
<1>2. \A x \in DOMAIN p.nodes : x # i => q.nodeEpoch[x] = p.nodeEpoch[x]
  BY <1>1 DEF Shape
<1>3. q.nodeEpoch[i] = E /\ p.nodeEpoch[i] = kEpochNotReady
  BY <1>1 DEF Shape, Placed
<1>4. \A x \in DOMAIN p.nodes : Placed(p, x) => \A t \in p.nodes[x].in :
        t \notin p.nodes[i].out /\ q.tensorEpoch[t] = p.tensorEpoch[t]
  BY JoinKeepsTensors
<1>5. \A t \in p.nodes[i].in :
        q.tensorEpoch[t] = IF t \in p.nodes[i].out THEN E ELSE p.tensorEpoch[t]
  <2>1. \A t \in p.nodes[i].in : t \in DOMAIN p.tensorEpoch
    BY DEF Shape
  <2> QED BY <2>1 DEF Joins
<1>6. \A e \in DOMAIN p.subsets : e # kEpochNotReady
  BY DEF Shape, kEpochNotReady
<1>7. \A x \in DOMAIN p.nodes : x # i => (Placed(q, x) <=> Placed(p, x))
  BY <1>2 DEF Placed
<1>8. q.subsets[E].in = p.subsets[E].in \union Crossing(p, i)
      /\ q.subsets[E].out = p.subsets[E].out
  BY DEF Joins
<1>9. \A e \in DOMAIN p.subsets : e # E =>
        /\ q.subsets[e].in = p.subsets[e].in
        /\ q.subsets[e].out = p.subsets[e].out
                              \union {t \in Crossing(p, i) : p.tensorEpoch[t] = e}
  BY DEF Joins
<1>10. \A t : t \in Crossing(p, i) <=>
         t \in p.nodes[i].in /\ t \notin p.nodes[i].out /\ p.tensorEpoch[t] # E
  BY DEF Crossing
<1>11. Placed(q, i)
  BY <1>1, <1>3 DEF Placed
<1> HIDE DEF E
<1> SUFFICES ASSUME NEW e \in DOMAIN p.subsets, NEW t
             PROVE  /\ t \in q.subsets[e].in <=>
                         \E x \in DOMAIN p.nodes : q.nodeEpoch[x] = e /\ t \in p.nodes[x].in
                                                   /\ q.tensorEpoch[t] # e
                    /\ t \in q.subsets[e].out <=>
                         \E x \in DOMAIN p.nodes : Placed(q, x) /\ q.nodeEpoch[x] # e
                                                   /\ t \in p.nodes[x].in /\ q.tensorEpoch[t] = e
  BY <1>1 DEF Borders
<1>12. /\ t \in p.subsets[e].in <=>
            \E x \in DOMAIN p.nodes : p.nodeEpoch[x] = e /\ t \in p.nodes[x].in
                                      /\ p.tensorEpoch[t] # e
       /\ t \in p.subsets[e].out <=>
            \E x \in DOMAIN p.nodes : Placed(p, x) /\ p.nodeEpoch[x] # e /\ t \in p.nodes[x].in
                                      /\ p.tensorEpoch[t] = e
  BY DEF Borders
<1>13. \A x \in DOMAIN p.nodes : p.nodeEpoch[x] = e => Placed(p, x) /\ x # i
  BY <1>3, <1>6 DEF Placed
<1>14. t \in q.subsets[e].in <=>
         t \in p.subsets[e].in \/ (e = E /\ t \in Crossing(p, i))
  BY <1>8, <1>9
<1>15. t \in q.subsets[e].out <=>
         t \in p.subsets[e].out \/ (e # E /\ t \in Crossing(p, i) /\ p.tensorEpoch[t] = e)
  BY <1>8, <1>9
<1>16. ASSUME t \in q.subsets[e].in
       PROVE  \E x \in DOMAIN p.nodes : q.nodeEpoch[x] = e /\ t \in p.nodes[x].in
                                        /\ q.tensorEpoch[t] # e
  <2>1. CASE t \in p.subsets[e].in
    <3>1. PICK x \in DOMAIN p.nodes : p.nodeEpoch[x] = e /\ t \in p.nodes[x].in
                                      /\ p.tensorEpoch[t] # e
      BY <2>1, <1>12
    <3>2. Placed(p, x) /\ x # i
      BY <3>1, <1>13
    <3>3. q.tensorEpoch[t] = p.tensorEpoch[t] /\ q.nodeEpoch[x] = e
      BY <3>1, <3>2, <1>2, <1>4
    <3> QED BY <3>1, <3>3
  <2>2. CASE e = E /\ t \in Crossing(p, i)
    BY <2>2, <1>3, <1>5, <1>10
  <2> QED BY <2>1, <2>2, <1>14, <1>16
<1>17. ASSUME NEW x \in DOMAIN p.nodes, q.nodeEpoch[x] = e, t \in p.nodes[x].in,
              q.tensorEpoch[t] # e
       PROVE  t \in q.subsets[e].in
  <2>1. CASE x = i
    BY <2>1, <1>3, <1>5, <1>10, <1>14, <1>17
  <2>2. CASE x # i
    <3>1. p.nodeEpoch[x] = e
      BY <2>2, <1>2, <1>17
    <3>2. p.tensorEpoch[t] # e
      BY <3>1, <1>4, <1>13, <1>17
    <3> QED BY <3>1, <3>2, <1>12, <1>14, <1>17
  <2> QED BY <2>1, <2>2
<1>18. ASSUME t \in q.subsets[e].out
       PROVE  \E x \in DOMAIN p.nodes : Placed(q, x) /\ q.nodeEpoch[x] # e /\ t \in p.nodes[x].in
                                        /\ q.tensorEpoch[t] = e
  <2>1. CASE t \in p.subsets[e].out
    <3>1. PICK x \in DOMAIN p.nodes : Placed(p, x) /\ p.nodeEpoch[x] # e /\ t \in p.nodes[x].in
                                      /\ p.tensorEpoch[t] = e
      BY <2>1, <1>12
    <3>2. x # i
      BY <3>1
    <3>3. q.tensorEpoch[t] = e /\ q.nodeEpoch[x] # e /\ Placed(q, x)
      BY <3>1, <3>2, <1>2, <1>4, <1>7
    <3> QED BY <3>1, <3>3
  <2>2. CASE e # E /\ t \in Crossing(p, i) /\ p.tensorEpoch[t] = e
    BY <2>2, <1>3, <1>5, <1>10, <1>11
  <2> QED BY <2>1, <2>2, <1>15, <1>18
<1>19. ASSUME NEW x \in DOMAIN p.nodes, Placed(q, x), q.nodeEpoch[x] # e, t \in p.nodes[x].in,
              q.tensorEpoch[t] = e
       PROVE  t \in q.subsets[e].out
  <2>1. CASE x = i
    <3>1. e # E
      BY <2>1, <1>3, <1>19
    <3>2. t \notin p.nodes[i].out /\ p.tensorEpoch[t] = e
      BY <2>1, <3>1, <1>5, <1>19
    <3> QED BY <2>1, <3>1, <3>2, <1>10, <1>15, <1>19
  <2>2. CASE x # i
    <3>1. Placed(p, x) /\ p.nodeEpoch[x] # e
      BY <2>2, <1>2, <1>7, <1>19
    <3>2. p.tensorEpoch[t] = e
      BY <3>1, <1>4, <1>19
    <3> QED BY <3>1, <3>2, <1>12, <1>15, <1>19
  <2> QED BY <2>1, <2>2
<1> QED BY <1>16, <1>17, <1>18, <1>19

\* The tests of UpdateNode let a node join only after all that must precede it:
\* the chain of side effects is a chain of neighbours, and goes back to all.
LEMMA PredecessorsPlaced ==
  ASSUME NEW T, NEW p, Shape(T, p), TensorEpochs(p), InOrder(p),
         NEW i \in DOMAIN p.nodes, Schedulable(p, i),
         ~ p.greedily => \A x \in DOMAIN p.nodes : x < i => Placed(p, x),
         NEW x \in DOMAIN p.nodes, MustPrecede(p.nodes, p.greedily, x, i)
  PROVE  Placed(p, x)
<1>1. DOMAIN p.nodes = 1..Len(p.nodes) /\ Len(p.nodes) \in Nat
  BY DEF Shape, GraphNodes
<1>2. x < i /\ x \in Nat /\ i \in Nat
  BY <1>1 DEF MustPrecede
<1>3. CASE p.nodes[x].out \intersect p.nodes[i].in # {}
  <2>1. PICK t : t \in p.nodes[x].out /\ t \in p.nodes[i].in
    BY <1>3
  <2>2. p.tensorEpoch[t] # kEpochNotReady
    BY <2>1 DEF Schedulable
  <2> QED BY <2>1, <2>2 DEF TensorEpochs, Placed
<1>4. CASE ~ p.greedily
  BY <1>2, <1>4
<1>5. CASE p.greedily /\ p.nodes[x].effect /\ p.nodes[i].effect
  <2> DEFINE S == {k \in 1..(i - 1) : p.nodes[k].effect}
  <2>1. S \in SUBSET (0..(i - 1)) /\ S # {} /\ i - 1 \in Nat
    BY <1>1, <1>2, <1>5
  <2>2. PICK k \in S : \A y \in S : y <= k
    <3> HIDE DEF S
    <3> QED BY <2>1, GreatestExists
  <2>3. k \in DOMAIN p.nodes /\ k < i /\ k \in Nat /\ p.nodes[k].effect
    BY <1>1, <1>2, <2>2
  <2>4. \A y \in (k + 1)..(i - 1) : ~ p.nodes[y].effect
    BY <1>2, <2>2, <2>3
  <2>5. <<k, i>> \in ControlEdges(p.nodes, p.greedily)
    BY <1>5, <2>3, <2>4 DEF ControlEdges
  <2>6. \A e \in p.edges : e[2] = i => p.nodeEpoch[e[1]] # kEpochNotReady
    BY DEF Schedulable
  <2>7. Placed(p, k)
    BY <2>5, <2>6 DEF Shape, Placed
  <2>8. CASE x = k
    BY <2>7, <2>8
  <2>9. CASE x # k
    <3>1. x \in S
      BY <1>1, <1>2, <1>5
    <3>2. x < k
      BY <3>1, <2>2, <2>9
    <3>3. MustPrecede(p.nodes, p.greedily, x, k)
      BY <3>2, <2>3, <1>5 DEF MustPrecede
    <3> QED BY <3>3, <2>3, <2>7 DEF InOrder
  <2> QED BY <2>8, <2>9
<1> QED BY <1>3, <1>4, <1>5 DEF MustPrecede, Shape

\* And joins behind them.
LEMMA JoinKeepsOrder ==
  ASSUME NEW T, NEW p, Shape(T, p), Members(p), InOrder(p), p.subsets # << >>,
         NEW i \in DOMAIN p.nodes, ~ Placed(p, i),
         \A x \in DOMAIN p.nodes : MustPrecede(p.nodes, p.greedily, x, i) => Placed(p, x),
         NEW q, Joins(T, p, i, q)
  PROVE  InOrder(q)
<1> DEFINE E == Len(p.subsets)
           old == p.subsets[E].nodes
<1>1. /\ DOMAIN q.subsets = DOMAIN p.subsets /\ E \in DOMAIN p.subsets /\ E \in Nat
      /\ DOMAIN p.subsets = 1..E
      /\ q.nodes = p.nodes /\ q.nodeEpoch = [p.nodeEpoch EXCEPT ![i] = E]
      /\ q.greedily = p.greedily /\ E # kEpochNotReady
  BY DEF Joins, Shape, SameGraph, kEpochNotReady
<1>2. old \in Seq(Nat) /\ p.nodes[i].id \in Nat
  <2>1. p.nodes[i] \in NodeOf(T) /\ p.subsets[E] \in SubsetOf(T)
    BY <1>1 DEF Shape, GraphNodes
  <2> QED BY <2>1 DEF NodeOf, SubsetOf
<1>3. q.subsets[E].nodes = Append(old, p.nodes[i].id)
  BY DEF Joins
<1>4. \A e \in DOMAIN p.subsets : e # E => q.subsets[e].nodes = p.subsets[e].nodes
  BY DEF Joins
<1>5. \A x \in DOMAIN p.nodes : x # i => q.nodeEpoch[x] = p.nodeEpoch[x]
  BY <1>1 DEF Shape
<1>6. q.nodeEpoch[i] = E /\ p.nodeEpoch[i] = kEpochNotReady
  BY <1>1 DEF Shape, Placed
<1>7. /\ DOMAIN q.subsets[E].nodes = 1..(Len(old) + 1) /\ DOMAIN old = 1..Len(old)
      /\ \A j \in 1..Len(old) : q.subsets[E].nodes[j] = old[j]
      /\ q.subsets[E].nodes[Len(old) + 1] = p.nodes[i].id
      /\ Len(old) \in Nat
  BY <1>2, <1>3
<1>8. \A x, y \in DOMAIN p.nodes : p.nodes[x].id = p.nodes[y].id => x = y
  BY DEF Shape, GraphNodes
<1>9. \A j \in DOMAIN old : old[j] # p.nodes[i].id
  <2> SUFFICES ASSUME NEW j \in DOMAIN old PROVE old[j] # p.nodes[i].id
    OBVIOUS
  <2>1. PICK x \in DOMAIN p.nodes : p.nodes[x].id = old[j] /\ p.nodeEpoch[x] = E
    BY <1>1 DEF Members
  <2>2. x # i
    BY <2>1, <1>1, <1>6
  <2> HIDE DEF old
  <2> QED BY <2>1, <2>2, <1>8
<1>10. \A x \in DOMAIN p.nodes : Placed(p, x) => p.nodeEpoch[x] \in 1..E
  BY <1>1 DEF Shape, Placed
<1> HIDE DEF E, old
<1>11. ASSUME NEW x \in DOMAIN p.nodes, Placed(p, x),
              NEW j \in DOMAIN q.subsets[p.nodeEpoch[x]].nodes,
              q.subsets[p.nodeEpoch[x]].nodes[j] = p.nodes[x].id
       PROVE  /\ j \in DOMAIN p.subsets[p.nodeEpoch[x]].nodes
              /\ p.subsets[p.nodeEpoch[x]].nodes[j] = p.nodes[x].id
              /\ p.nodeEpoch[x] = E => j \in 1..Len(old)
  <2>1. CASE p.nodeEpoch[x] # E
    BY <2>1, <1>1, <1>4, <1>10, <1>11
  <2>2. CASE p.nodeEpoch[x] = E
    <3>1. x # i
      BY <1>11
    <3>2. j \in 1..(Len(old) + 1) /\ j # Len(old) + 1
      BY <2>2, <3>1, <1>7, <1>8, <1>11
    <3>3. j \in 1..Len(old)
      BY <3>2, <1>7
    <3>4. j \in DOMAIN old /\ q.subsets[E].nodes[j] = old[j]
      BY <3>3, <1>7
    <3> QED BY <2>2, <3>3, <3>4, <1>11 DEF old
  <2> QED BY <2>1, <2>2
<1> SUFFICES ASSUME NEW x \in DOMAIN p.nodes, NEW y \in DOMAIN p.nodes,
                    MustPrecede(p.nodes, p.greedily, x, y), Placed(q, y)
             PROVE  /\ Placed(q, x)
                    /\ \A j \in DOMAIN q.subsets[q.nodeEpoch[x]].nodes :
                       \A k \in DOMAIN q.subsets[q.nodeEpoch[y]].nodes :
                         q.subsets[q.nodeEpoch[x]].nodes[j] = p.nodes[x].id
                         /\ q.subsets[q.nodeEpoch[y]].nodes[k] = p.nodes[y].id
                         => Earlier(q.nodeEpoch[x], j, q.nodeEpoch[y], k)
  BY <1>1 DEF InOrder
<1>12. Placed(p, x)
  <2>1. CASE y = i
    BY <2>1
  <2>2. CASE y # i
    <3>1. Placed(p, y)
      BY <2>2, <1>5 DEF Placed
    <3> QED BY <3>1 DEF InOrder
  <2> QED BY <2>1, <2>2
<1>13. x # i /\ q.nodeEpoch[x] = p.nodeEpoch[x] /\ Placed(q, x)
  BY <1>5, <1>12 DEF Placed
<1>14. ASSUME NEW j \in DOMAIN q.subsets[q.nodeEpoch[x]].nodes,
              NEW k \in DOMAIN q.subsets[q.nodeEpoch[y]].nodes,
              q.subsets[q.nodeEpoch[x]].nodes[j] = p.nodes[x].id,
              q.subsets[q.nodeEpoch[y]].nodes[k] = p.nodes[y].id
       PROVE  Earlier(q.nodeEpoch[x], j, q.nodeEpoch[y], k)
  <2>1. /\ j \in DOMAIN p.subsets[p.nodeEpoch[x]].nodes
        /\ p.subsets[p.nodeEpoch[x]].nodes[j] = p.nodes[x].id
        /\ p.nodeEpoch[x] = E => j \in 1..Len(old)
    BY <1>11, <1>12, <1>13, <1>14
  <2>2. CASE y = i
    <3>1. k \in 1..(Len(old) + 1) /\ q.subsets[E].nodes[k] = p.nodes[i].id
      BY <2>2, <1>6, <1>7, <1>14
    <3>2. k \notin 1..Len(old)
      BY <3>1, <1>7, <1>9
    <3>3. k = Len(old) + 1
      BY <3>1, <3>2, <1>7
    <3>4. p.nodeEpoch[x] \in 1..E
      BY <1>10, <1>12
    <3>5. p.nodeEpoch[x] = E => j < k
      BY <2>1, <3>3, <1>7
    <3>6. p.nodeEpoch[x] # E => p.nodeEpoch[x] < E
      BY <3>4, <1>1
    <3> QED BY <2>2, <3>5, <3>6, <1>6, <1>13 DEF Earlier
  <2>3. CASE y # i
    <3>1. Placed(p, y) /\ q.nodeEpoch[y] = p.nodeEpoch[y]
      BY <2>3, <1>5 DEF Placed
    <3>2. /\ k \in DOMAIN p.subsets[p.nodeEpoch[y]].nodes
          /\ p.subsets[p.nodeEpoch[y]].nodes[k] = p.nodes[y].id
      BY <3>1, <1>11, <1>14
    <3>3. Earlier(p.nodeEpoch[x], j, p.nodeEpoch[y], k)
      BY <2>1, <3>1, <3>2 DEF InOrder
    <3> QED BY <3>1, <3>3, <1>13
  <2> QED BY <2>2, <2>3
<1> QED BY <1>13, <1>14

\* All subsets but the one under construction have nodes.
Full(p) == \A e \in DOMAIN p.subsets : e # Len(p.subsets) => p.subsets[e].nodes # << >>

Building(T, p) == PartitionInv(T, p) /\ Growing(p) /\ Full(p)

\* A node that passes the tests of UpdateNode joins without harm.
LEMMA UpdateNodeKeeps ==
  ASSUME NEW T, NEW p, Building(T, p), NEW i \in DOMAIN p.nodes, Schedulable(p, i),
         ~ p.greedily => \A x \in DOMAIN p.nodes : x < i => Placed(p, x),
         NEW q, q = UpdateNode(p, i)
  PROVE  /\ Building(T, q)
         /\ SameGraph(p, q)
         /\ Placed(q, i)
         /\ \A x \in DOMAIN p.nodes : Placed(p, x) => Placed(q, x)
<1>1. Shape(T, p) /\ Members(p) /\ TensorEpochs(p) /\ InOrder(p) /\ Types(p) /\ Borders(p)
      /\ p.subsets # << >> /\ Full(p)
  BY DEF Building, PartitionInv, Growing
<1>2. /\ ~ Placed(p, i)
      /\ \A t \in p.nodes[i].in : p.tensorEpoch[t] # kEpochNotReady
      /\ p.subsets[Len(p.subsets)].type \in {"unexplored", NodeType(p, i)}
  BY DEF Schedulable, Placed, Last
<1>3. Joins(T, p, i, q)
  BY <1>1, UpdateNodeEffect
<1>4. Shape(T, q)
  BY <1>1, <1>3, JoinKeepsShape
<1>5. Members(q)
  BY <1>1, <1>2, <1>3, JoinKeepsMembers
<1>6. TensorEpochs(q)
  BY <1>1, <1>2, <1>3, JoinKeepsTensors
<1>7. Types(q)
  BY <1>1, <1>2, <1>3, JoinKeepsTypes
<1>8. Borders(q)
  BY <1>1, <1>2, <1>3, JoinKeepsBorders
<1>9. InOrder(q)
  <2>1. \A x \in DOMAIN p.nodes : MustPrecede(p.nodes, p.greedily, x, i) => Placed(p, x)
    BY <1>1, PredecessorsPlaced
  <2> QED BY <2>1, <1>1, <1>2, <1>3, JoinKeepsOrder
<1>10. SameGraph(p, q)
  BY <1>3 DEF Joins
<1>11. Len(p.subsets) \in Nat /\ Len(p.subsets) # kEpochNotReady
       /\ Len(p.subsets) \in DOMAIN p.subsets
  BY <1>1 DEF Shape, kEpochNotReady
<1>12. q.nodeEpoch = [p.nodeEpoch EXCEPT ![i] = Len(p.subsets)]
  BY <1>3 DEF Joins
<1>13. Placed(q, i) /\ \A x \in DOMAIN p.nodes : Placed(p, x) => Placed(q, x)
  BY <1>1, <1>11, <1>12 DEF Shape, Placed
<1>14. Growing(q)
  <2>1. Len(q.subsets) = Len(p.subsets) /\ q.subsets # << >>
    BY <1>1, <1>3, <1>11 DEF Joins
  <2>2. q.subsets[Len(p.subsets)].type # "unexplored"
    BY <1>3 DEF Joins, NodeType
  <2>3. p.subsets[Len(p.subsets)] \in SubsetOf(T) /\ p.nodes[i] \in NodeOf(T)
    BY <1>1, <1>11 DEF Shape, GraphNodes
  <2>4. q.subsets[Len(p.subsets)].nodes # << >>
    <3>1. q.subsets[Len(p.subsets)].nodes = Append(p.subsets[Len(p.subsets)].nodes, p.nodes[i].id)
      BY <1>3 DEF Joins
    <3>2. p.subsets[Len(p.subsets)].nodes \in Seq(Nat) /\ p.nodes[i].id \in Nat
      BY <2>3 DEF SubsetOf, NodeOf
    <3> QED BY <3>1, <3>2
  <2> QED BY <2>1, <2>2, <2>4 DEF Growing
<1>15. Full(q)
  <2>1. Len(q.subsets) = Len(p.subsets) /\ DOMAIN q.subsets = DOMAIN p.subsets
    BY <1>1, <1>3 DEF Joins, Shape
  <2>2. \A e \in DOMAIN p.subsets : e # Len(p.subsets) => q.subsets[e].nodes = p.subsets[e].nodes
    BY <1>3 DEF Joins
  <2> QED BY <2>1, <2>2, <1>1 DEF Full
<1> QED BY <1>4, <1>5, <1>6, <1>7, <1>8, <1>9, <1>10, <1>13, <1>14, <1>15 DEF Building, PartitionInv

-----------------------------------------------------------------------------
(* The loops.                                                              *)

\* A loop under way, from the partitioner p.
Looping(T, p, c) ==
  /\ DOMAIN c = {"p", "did", "stop"} /\ c.did \in BOOLEAN /\ c.stop \in BOOLEAN
  /\ Building(T, c.p) /\ SameGraph(p, c.p)

AllPlaced(p) == \A x \in DOMAIN p.nodes : Placed(p, x)

\* Not greedy: the loop stops at the first node it cannot place.
TurnGood(a, c, k) ==
  /\ Looping(a[1], a[2], c)
  /\ ~ c.p.greedily /\ ~ c.stop =>
       /\ \A x \in DOMAIN c.p.nodes : x <= k => Placed(c.p, x)
       /\ c.did \/ c.p.subsets[Len(c.p.subsets)].nodes = << >> \/ AllPlaced(c.p)

TurnStep(a, c, i) == Turn(c, i)

Turns == INSTANCE FoldInvariant WITH Step <- TurnStep, Good <- TurnGood

\* One turn of the loop over the nodes (BuildNodeSubset).
LEMMA TurnKeeps ==
  ASSUME NEW T, NEW p, NEW c, NEW k \in DOMAIN c.p.nodes, TurnGood(<<T, p>>, c, k - 1)
  PROVE  TurnGood(<<T, p>>, Turn(c, k), k)
<1>1. Looping(T, p, c)
  BY DEF TurnGood
<1>2. ~ c.p.greedily /\ ~ c.stop =>
        /\ \A x \in DOMAIN c.p.nodes : x <= k - 1 => Placed(c.p, x)
        /\ c.did \/ c.p.subsets[Len(c.p.subsets)].nodes = << >> \/ AllPlaced(c.p)
  BY DEF TurnGood
<1>3. DOMAIN c.p.nodes = 1..Len(c.p.nodes) /\ Len(c.p.nodes) \in Nat /\ Shape(T, c.p)
  BY <1>1 DEF Looping, Building, PartitionInv, Shape, GraphNodes
<1>4. k \in Nat /\ k >= 1
  BY <1>3
<1>5. \A x \in DOMAIN c.p.nodes : x < k => x <= k - 1
  BY <1>3, <1>4
<1>6. \A x \in DOMAIN c.p.nodes : x <= k => x <= k - 1 \/ x = k
  BY <1>3, <1>4
<1>7. CASE c.stop
  <2>1. Turn(c, k) = c
    BY <1>7 DEF Turn
  <2> QED BY <2>1, <1>1, <1>7 DEF TurnGood
<1>8. CASE ~ c.stop /\ Schedulable(c.p, k)
  <2> DEFINE q == UpdateNode(c.p, k)
             d == Turn(c, k)
  <2>1. d = [c EXCEPT !.p = q, !.did = TRUE]
    BY <1>8 DEF Turn
  <2>2. Building(T, c.p) /\ SameGraph(p, c.p)
    BY <1>1 DEF Looping
  <2>3. ~ c.p.greedily => \A x \in DOMAIN c.p.nodes : x < k => Placed(c.p, x)
    BY <1>2, <1>5, <1>8
  <2>4. Building(T, q) /\ SameGraph(c.p, q) /\ Placed(q, k)
        /\ \A x \in DOMAIN c.p.nodes : Placed(c.p, x) => Placed(q, x)
    BY <2>2, <2>3, <1>8, UpdateNodeKeeps
  <2> HIDE DEF q, d
  <2>5. d.p = q /\ d.did = TRUE /\ d.stop = c.stop /\ DOMAIN d = DOMAIN c
    BY <2>1, <1>1 DEF Looping
  <2>6. SameGraph(p, q)
    BY <2>2, <2>4 DEF SameGraph
  <2>7. Looping(T, p, d)
    BY <2>4, <2>5, <2>6, <1>1 DEF Looping
  <2>8. ~ q.greedily => \A x \in DOMAIN q.nodes : x <= k => Placed(q, x)
    <3>1. q.greedily = c.p.greedily /\ q.nodes = c.p.nodes
      BY <2>4 DEF SameGraph
    <3> QED BY <3>1, <2>3, <2>4, <1>2, <1>6, <1>8
  <2>9. TurnGood(<<T, p>>, d, k)
    BY <2>5, <2>7, <2>8 DEF TurnGood
  <2> QED BY <2>9 DEF d
<1>9. CASE ~ c.stop /\ ~ Schedulable(c.p, k)
  <2> DEFINE d == Turn(c, k)
  <2>1. d = [c EXCEPT !.stop = c.did /\ ~ c.p.greedily]
    BY <1>9 DEF Turn
  <2>2. d.p = c.p /\ d.did = c.did /\ DOMAIN d = DOMAIN c
        /\ d.stop = (c.did /\ ~ c.p.greedily)
    BY <2>1, <1>1 DEF Looping
  <2> HIDE DEF d
  <2>3. d.stop \in BOOLEAN
    BY <2>2
  <2>4. Looping(T, p, d)
    BY <2>2, <2>3, <1>1 DEF Looping
  <2>5. ASSUME ~ c.p.greedily, ~ d.stop PROVE Placed(c.p, k)
    <3>1. ~ c.did
      BY <2>2, <2>5
    <3>2. CASE AllPlaced(c.p)
      BY <3>2 DEF AllPlaced
    <3>3. CASE c.p.subsets[Len(c.p.subsets)].nodes = << >>
      <4> SUFFICES ASSUME ~ Placed(c.p, k) PROVE FALSE
        OBVIOUS
      <4>1. c.p.subsets[Len(c.p.subsets)].type = "unexplored"
        BY <3>3, <1>1 DEF Looping, Building, Growing
      <4>2. c.p.edges = {}
        BY <2>5, <1>3 DEF Shape, ControlEdges
      <4>3. ASSUME NEW t \in c.p.nodes[k].in PROVE c.p.tensorEpoch[t] # kEpochNotReady
        <5>1. TensorEpochs(c.p)
          BY <1>1 DEF Looping, Building, PartitionInv
        <5>2. CASE t \in Produced(c.p.nodes)
          <6>1. PICK x \in DOMAIN c.p.nodes : t \in c.p.nodes[x].out
            BY <5>2 DEF Produced
          <6>2. x < k
            <7>1. c.p.nodes[x].out \intersect c.p.nodes[k].in # {}
              BY <6>1
            <7> QED BY <7>1, <1>3 DEF Shape, GraphNodes
          <6>3. Placed(c.p, x)
            BY <6>2, <1>2, <1>5, <1>9, <2>5
          <6> QED BY <6>1, <6>3, <5>1 DEF TensorEpochs, Placed
        <5>3. CASE t \notin Produced(c.p.nodes)
          <6>1. t \in DOMAIN c.p.tensorEpoch
            BY <1>3 DEF Shape
          <6>2. c.p.tensorEpoch[t] = kEpochAlwaysReady
            BY <5>1, <5>3, <6>1 DEF TensorEpochs
          <6> QED BY <6>2 DEF kEpochAlwaysReady, kEpochNotReady
        <5> QED BY <5>2, <5>3
      <4>4. Schedulable(c.p, k)
        BY <3>3, <4>1, <4>2, <4>3 DEF Schedulable, Placed, Last
      <4> QED BY <4>4, <1>9
    <3> QED BY <3>1, <3>2, <3>3, <2>5, <1>2, <1>9
  <2>6. TurnGood(<<T, p>>, d, k)
    BY <2>2, <2>4, <2>5, <1>2, <1>6, <1>9 DEF TurnGood
  <2> QED BY <2>6 DEF d
<1> QED BY <1>7, <1>8, <1>9

\* The whole loop over the nodes.
LEMMA TurnsKeep ==
  ASSUME NEW T, NEW p, NEW c, TurnGood(<<T, p>>, c, 0)
  PROVE  TurnGood(<<T, p>>, FoldLeft(Turn, c, Indices(Len(c.p.nodes))), Len(c.p.nodes))
<1> DEFINE a == <<T, p>>
           N == Len(c.p.nodes)
           seq == Indices(N)
<1>1. c.p.nodes = p.nodes /\ N \in Nat /\ DOMAIN p.nodes = 1..N
  BY DEF TurnGood, Looping, Building, PartitionInv, SameGraph, Shape, GraphNodes
<1>2. DOMAIN seq = 1..N /\ \A k \in 1..N : seq[k] = k
  BY <1>1 DEF Indices
<1>3. ASSUME NEW k \in 1..N, NEW d, TurnGood(a, d, k - 1)
      PROVE  TurnGood(a, TurnStep(a, d, seq[k]), k)
  <2>1. k \in DOMAIN d.p.nodes
    BY <1>1, <1>3 DEF TurnGood, Looping, SameGraph
  <2>2. TurnGood(<<T, p>>, Turn(d, k), k)
    BY <2>1, <1>3, TurnKeeps
  <2> QED BY <2>2, <1>2 DEF TurnStep
<1>4. TurnGood(a, Turns!Fold(a, c, seq), N)
  <2> HIDE DEF a, N, seq
  <2>1. TurnGood(a, c, 0)
    BY DEF a
  <2>2. N \in Nat
    BY <1>1
  <2> QED BY <2>1, <2>2, <1>2, <1>3, Turns!FoldKeeps
<1>5. Turns!Fold(a, c, seq) = FoldLeft(Turn, c, seq)
  <2> HIDE DEF a, N, seq
  <2> QED BY DEF Turns!Fold, Turns!FoldLeft, Turns!MapThenFoldSet, Turns!Max,
                 FoldLeft, MapThenFoldSet, Max, TurnStep
<1> QED BY <1>4, <1>5

PassGood(a, c, k) ==
  /\ Looping(a[1], a[2], c)
  /\ ~ c.p.greedily /\ ~ c.stop =>
       c.p.subsets[Len(c.p.subsets)].nodes = << >> \/ AllPlaced(c.p)

PassStep(a, c, k) == Pass(c, k)

Passes == INSTANCE FoldInvariant WITH Step <- PassStep, Good <- PassGood

LEMMA PassKeeps ==
  ASSUME NEW T, NEW p, NEW c, NEW k, NEW l, PassGood(<<T, p>>, c, l)
  PROVE  PassGood(<<T, p>>, Pass(c, k), k)
<1>1. CASE c.stop
  BY <1>1 DEF Pass, PassGood
<1>2. CASE ~ c.stop
  <2> DEFINE b == [c EXCEPT !.did = FALSE]
             d == FoldLeft(Turn, b, Indices(Len(c.p.nodes)))
             e == EndPass(d)
  <2>1. Pass(c, k) = e
    BY <1>2 DEF Pass
  <2>2. DOMAIN b = {"p", "did", "stop"} /\ b.p = c.p /\ b.did = FALSE /\ b.stop = c.stop
    BY DEF PassGood, Looping
  <2>3. Looping(T, p, b)
    <3> HIDE DEF b
    <3> QED BY <2>2 DEF PassGood, Looping
  <2>4. DOMAIN c.p.nodes = 1..Len(c.p.nodes) /\ Len(c.p.nodes) \in Nat
    BY DEF PassGood, Looping, Building, PartitionInv, Shape, GraphNodes
  <2>5. TurnGood(<<T, p>>, b, 0)
    <3> HIDE DEF b
    <3>1. \A x \in DOMAIN b.p.nodes : ~ (x <= 0)
      BY <2>2, <2>4
    <3> QED BY <3>1, <2>2, <2>3 DEF TurnGood, PassGood
  <2>6. TurnGood(<<T, p>>, d, Len(c.p.nodes))
    <3>1. TurnGood(<<T, p>>, FoldLeft(Turn, b, Indices(Len(b.p.nodes))), Len(b.p.nodes))
      <4> HIDE DEF b
      <4> QED BY <2>5, TurnsKeep
    <3> QED BY <3>1, <2>2
  <2> HIDE DEF b, d
  <2>7. Looping(T, p, d)
    BY <2>6 DEF TurnGood
  <2>8. DOMAIN e = DOMAIN d /\ e.p = d.p /\ e.did = d.did /\ e.stop = (d.stop \/ ~ d.did)
    BY <2>7 DEF EndPass, Looping
  <2>9. e.stop \in BOOLEAN
    BY <2>8
  <2>10. Looping(T, p, e)
    <3> HIDE DEF e
    <3> QED BY <2>7, <2>8, <2>9 DEF Looping
  <2>11. d.p.nodes = c.p.nodes
    BY <2>7 DEF Looping, SameGraph, PassGood
  <2>12. ~ d.p.greedily /\ ~ d.stop => AllPlaced(d.p)
    BY <2>4, <2>6, <2>11 DEF TurnGood, AllPlaced
  <2>13. PassGood(<<T, p>>, e, k)
    <3> HIDE DEF e
    <3> QED BY <2>8, <2>10, <2>12 DEF PassGood
  <2> QED BY <2>1, <2>13
<1> QED BY <1>1, <1>2

\* Every pass: a subset is built.
LEMMA PassesKeep ==
  ASSUME NEW T, NEW p, NEW c, NEW N \in Nat, PassGood(<<T, p>>, c, 0)
  PROVE  PassGood(<<T, p>>, FoldLeft(Pass, c, Indices(N)), N)
<1> DEFINE a == <<T, p>>
           seq == Indices(N)
<1>1. DOMAIN seq = 1..N /\ \A k \in 1..N : seq[k] = k
  BY DEF Indices
<1>2. ASSUME NEW k \in 1..N, NEW d, PassGood(a, d, k - 1)
      PROVE  PassGood(a, PassStep(a, d, seq[k]), k)
  <2>1. PassGood(<<T, p>>, Pass(d, k), k)
    BY <1>2, PassKeeps
  <2> QED BY <2>1, <1>1 DEF PassStep
<1>3. PassGood(a, Passes!Fold(a, c, seq), N)
  <2> HIDE DEF a, seq
  <2>1. PassGood(a, c, 0)
    BY DEF a
  <2> QED BY <2>1, <1>1, <1>2, Passes!FoldKeeps
<1>4. Passes!Fold(a, c, seq) = FoldLeft(Pass, c, seq)
  <2> HIDE DEF a, seq
  <2> QED BY DEF Passes!Fold, Passes!FoldLeft, Passes!MapThenFoldSet, Passes!Max,
                 FoldLeft, MapThenFoldSet, Max, PassStep
<1> QED BY <1>3, <1>4

AllFull(p) == \A e \in DOMAIN p.subsets : p.subsets[e].nodes # << >>

\* Empty subsets come and go without harm.
LEMMA EmptySubsetsKeep ==
  ASSUME NEW T, NEW p, PartitionInv(T, p), NEW q,
         DOMAIN q = DOMAIN p, SameGraph(p, q), q.edges = p.edges,
         q.nodeEpoch = p.nodeEpoch, q.tensorEpoch = p.tensorEpoch,
         q.subsets \in Seq(SubsetOf(T)),
         \A x \in DOMAIN p.nodes : Placed(p, x) => p.nodeEpoch[x] \in DOMAIN q.subsets,
         \A e \in DOMAIN q.subsets :
           \/ e \in DOMAIN p.subsets /\ q.subsets[e] = p.subsets[e]
           \/ e \notin DOMAIN p.subsets /\ q.subsets[e] = NewSubset
  PROVE  PartitionInv(T, q)
<1>1. Shape(T, p) /\ Members(p) /\ TensorEpochs(p) /\ InOrder(p) /\ Types(p) /\ Borders(p)
  BY DEF PartitionInv
<1>2. NewSubset.nodes = << >> /\ NewSubset.in = {} /\ NewSubset.out = {}
  BY DEF NewSubset
<1>3. q.nodes = p.nodes /\ q.claimed = p.claimed /\ q.greedily = p.greedily
  BY DEF SameGraph
<1>4. \A x : Placed(q, x) <=> Placed(p, x)
  BY DEF Placed
<1>5. \A x : NodeType(q, x) = NodeType(p, x)
  BY <1>3 DEF NodeType
<1>6. \A x \in DOMAIN p.nodes : Placed(p, x) =>
        p.nodeEpoch[x] \in DOMAIN p.subsets /\ q.subsets[q.nodeEpoch[x]] = p.subsets[p.nodeEpoch[x]]
  BY <1>1 DEF Shape, Placed
<1>7. Shape(T, q)
  <2>1. q.nodeEpoch \in [DOMAIN q.nodes -> {kEpochNotReady} \union DOMAIN q.subsets]
    <3>1. \A x \in DOMAIN p.nodes : p.nodeEpoch[x] \in {kEpochNotReady} \union DOMAIN q.subsets
      BY DEF Placed
    <3> QED BY <3>1, <1>1, <1>3 DEF Shape
  <2> QED BY <2>1, <1>1 DEF Shape, SameGraph
<1>8. \A e \in DOMAIN q.subsets : \A j \in DOMAIN q.subsets[e].nodes :
        e \in DOMAIN p.subsets /\ q.subsets[e] = p.subsets[e]
  BY <1>2
<1>9. Members(q)
  <2>1. ASSUME NEW e \in DOMAIN q.subsets, NEW j \in DOMAIN q.subsets[e].nodes
        PROVE  \E i \in DOMAIN q.nodes : q.nodes[i].id = q.subsets[e].nodes[j] /\ q.nodeEpoch[i] = e
    BY <1>1, <1>3, <1>8 DEF Members
  <2>2. ASSUME NEW e \in DOMAIN q.subsets, NEW j \in DOMAIN q.subsets[e].nodes,
               NEW k \in DOMAIN q.subsets[e].nodes, q.subsets[e].nodes[j] = q.subsets[e].nodes[k]
        PROVE  j = k
    BY <2>2, <1>1, <1>8 DEF Members
  <2>3. ASSUME NEW i \in DOMAIN q.nodes, Placed(q, i)
        PROVE  \E j \in DOMAIN q.subsets[q.nodeEpoch[i]].nodes :
                 q.subsets[q.nodeEpoch[i]].nodes[j] = q.nodes[i].id
    <3>1. Placed(p, i) /\ i \in DOMAIN p.nodes
      BY <2>3, <1>3, <1>4
    <3>2. q.subsets[q.nodeEpoch[i]] = p.subsets[p.nodeEpoch[i]]
      BY <3>1, <1>6
    <3>3. \E j \in DOMAIN p.subsets[p.nodeEpoch[i]].nodes :
            p.subsets[p.nodeEpoch[i]].nodes[j] = p.nodes[i].id
      BY <3>1, <1>1 DEF Members
    <3> QED BY <3>2, <3>3, <1>3
  <2> QED BY <2>1, <2>2, <2>3 DEF Members
<1>10. TensorEpochs(q)
  BY <1>1, <1>3, <1>4 DEF TensorEpochs
<1>11. InOrder(q)
  <2>1. ASSUME NEW x \in DOMAIN p.nodes, NEW y \in DOMAIN p.nodes,
               MustPrecede(p.nodes, p.greedily, x, y), Placed(p, y)
        PROVE  /\ Placed(p, x)
               /\ \A j \in DOMAIN q.subsets[q.nodeEpoch[x]].nodes :
                  \A k \in DOMAIN q.subsets[q.nodeEpoch[y]].nodes :
                    q.subsets[q.nodeEpoch[x]].nodes[j] = p.nodes[x].id
                    /\ q.subsets[q.nodeEpoch[y]].nodes[k] = p.nodes[y].id
                    => Earlier(q.nodeEpoch[x], j, q.nodeEpoch[y], k)
    <3>1. Placed(p, x)
      BY <2>1, <1>1 DEF InOrder
    <3>2. q.subsets[q.nodeEpoch[x]] = p.subsets[p.nodeEpoch[x]]
          /\ q.subsets[q.nodeEpoch[y]] = p.subsets[p.nodeEpoch[y]]
      BY <3>1, <2>1, <1>6
    <3> QED BY <2>1, <3>1, <3>2, <1>1 DEF InOrder
  <2> QED BY <2>1, <1>3, <1>4 DEF InOrder
<1>12. Types(q)
  BY <1>1, <1>3, <1>4, <1>5, <1>6 DEF Types
<1>13. Borders(q)
  <2>1. DOMAIN p.subsets = 1..Len(p.subsets) /\ Len(p.subsets) \in Nat
        /\ DOMAIN q.subsets = 1..Len(q.subsets) /\ Len(q.subsets) \in Nat
    BY <1>1 DEF Shape
  <2>2. ASSUME NEW e \in DOMAIN q.subsets, e \notin DOMAIN p.subsets, NEW x \in DOMAIN p.nodes
        PROVE  p.nodeEpoch[x] # e
    <3>1. p.nodeEpoch[x] \in {kEpochNotReady} \union DOMAIN p.subsets
      BY <1>1 DEF Shape
    <3> QED BY <3>1, <2>1, <2>2 DEF kEpochNotReady
  <2>3. ASSUME NEW e \in DOMAIN q.subsets, e \notin DOMAIN p.subsets,
               NEW x \in DOMAIN p.nodes, NEW t \in p.nodes[x].in
        PROVE  p.tensorEpoch[t] # e
    <3>1. t \in DOMAIN p.tensorEpoch
      BY <1>1 DEF Shape
    <3>2. CASE t \in Produced(p.nodes)
      <4>1. PICK y \in DOMAIN p.nodes : t \in p.nodes[y].out
        BY <3>2 DEF Produced
      <4> QED BY <4>1, <2>2, <2>3, <1>1 DEF TensorEpochs
    <3>3. CASE t \notin Produced(p.nodes)
      <4>1. p.tensorEpoch[t] = kEpochAlwaysReady
        BY <3>1, <3>3, <1>1 DEF TensorEpochs
      <4> QED BY <4>1, <2>1 DEF kEpochAlwaysReady
    <3> QED BY <3>2, <3>3
  <2>4. ASSUME NEW e \in DOMAIN q.subsets, NEW t
        PROVE  /\ t \in q.subsets[e].in <=>
                    \E x \in DOMAIN p.nodes : p.nodeEpoch[x] = e /\ t \in p.nodes[x].in
                                              /\ p.tensorEpoch[t] # e
               /\ t \in q.subsets[e].out <=>
                    \E x \in DOMAIN p.nodes : Placed(p, x) /\ p.nodeEpoch[x] # e
                                              /\ t \in p.nodes[x].in /\ p.tensorEpoch[t] = e
    <3>1. CASE e \in DOMAIN p.subsets /\ q.subsets[e] = p.subsets[e]
      BY <3>1, <1>1 DEF Borders
    <3>2. CASE e \notin DOMAIN p.subsets /\ q.subsets[e] = NewSubset
      BY <3>2, <2>2, <2>3, <1>2
    <3> QED BY <3>1, <3>2
  <2> QED BY <2>4, <1>3, <1>4 DEF Borders
<1> QED BY <1>7, <1>9, <1>10, <1>11, <1>12, <1>13 DEF PartitionInv

\* A new subset is added behind the others.
LEMMA NewSubsetKeeps ==
  ASSUME NEW T, NEW p, PartitionInv(T, p), AllFull(p),
         NEW q, q = [p EXCEPT !.subsets = Append(@, NewSubset)]
  PROVE  /\ Building(T, q) /\ SameGraph(p, q)
         /\ q.subsets[Len(q.subsets)].nodes = << >>
<1> DEFINE E == Len(p.subsets)
<1>1. Shape(T, p)
  BY DEF PartitionInv
<1>2. /\ DOMAIN q = DOMAIN p /\ SameGraph(p, q) /\ q.edges = p.edges
      /\ q.nodeEpoch = p.nodeEpoch /\ q.tensorEpoch = p.tensorEpoch
      /\ q.subsets = Append(p.subsets, NewSubset)
  BY <1>1 DEF Shape, SameGraph
<1>3. NewSubset \in SubsetOf(T) /\ NewSubset.type = "unexplored" /\ NewSubset.nodes = << >>
  BY DEF NewSubset, SubsetOf
<1>4. p.subsets \in Seq(SubsetOf(T))
  BY <1>1 DEF Shape
<1>5. /\ q.subsets \in Seq(SubsetOf(T)) /\ Len(q.subsets) = E + 1 /\ E \in Nat
      /\ DOMAIN p.subsets = 1..E /\ DOMAIN q.subsets = 1..(E + 1)
      /\ \A e \in 1..E : q.subsets[e] = p.subsets[e]
      /\ q.subsets[E + 1] = NewSubset
  BY <1>2, <1>3, <1>4
<1> HIDE DEF E
<1>6. \A x \in DOMAIN p.nodes : Placed(p, x) => p.nodeEpoch[x] \in DOMAIN q.subsets
  BY <1>1, <1>5 DEF Shape, Placed
<1>7. \A e \in DOMAIN q.subsets :
        \/ e \in DOMAIN p.subsets /\ q.subsets[e] = p.subsets[e]
        \/ e \notin DOMAIN p.subsets /\ q.subsets[e] = NewSubset
  BY <1>5
<1>8. PartitionInv(T, q)
  BY <1>2, <1>5, <1>6, <1>7, EmptySubsetsKeep
<1>9. Growing(q) /\ q.subsets[Len(q.subsets)].nodes = << >>
  <2>1. q.subsets[Len(q.subsets)] = NewSubset
    BY <1>5
  <2>2. q.subsets # << >>
    <3>1. Len(q.subsets) # Len(<< >>)
      BY <1>5
    <3> QED BY <3>1
  <2> QED BY <2>1, <2>2, <1>3 DEF Growing
<1>10. Full(q)
  <2>1. \A e \in DOMAIN q.subsets : e # Len(q.subsets) => e \in DOMAIN p.subsets /\ q.subsets[e] = p.subsets[e]
    BY <1>5
  <2> QED BY <2>1 DEF Full, AllFull
<1> QED BY <1>2, <1>8, <1>9, <1>10 DEF Building

\* BuildNodeSubset adds a subset to which no node can be added.
LEMMA BuildNodeSubsetKeeps ==
  ASSUME NEW T, NEW p, PartitionInv(T, p), AllFull(p)
  PROVE  Building(T, BuildNodeSubset(p)) /\ SameGraph(p, BuildNodeSubset(p))
<1> DEFINE q == [p EXCEPT !.subsets = Append(@, NewSubset)]
           c == [p |-> q, did |-> FALSE, stop |-> FALSE]
           d == FoldLeft(Pass, c, Indices(Len(p.nodes) + 1))
<1>1. Building(T, q) /\ SameGraph(p, q) /\ q.subsets[Len(q.subsets)].nodes = << >>
  <2> HIDE DEF q
  <2> SUFFICES q = [p EXCEPT !.subsets = Append(@, NewSubset)]
    BY NewSubsetKeeps
  <2> QED BY DEF q
<1>2. Len(p.nodes) + 1 \in Nat
  BY DEF PartitionInv, Shape, GraphNodes
<1> HIDE DEF q
<1>3. PassGood(<<T, p>>, c, 0)
  BY <1>1 DEF PassGood, Looping
<1>4. PassGood(<<T, p>>, d, Len(p.nodes) + 1)
  <2> HIDE DEF c
  <2> QED BY <1>2, <1>3, PassesKeep
<1>5. BuildNodeSubset(p) = d.p
  BY DEF BuildNodeSubset, q
<1> HIDE DEF d
<1> QED BY <1>4, <1>5 DEF PassGood, Looping

EpochGood(a, c, k) ==
  DOMAIN c = {"p", "done"} /\ PartitionInv(a[1], c.p) /\ AllFull(c.p) /\ SameGraph(a[2], c.p)

EpochStep(a, c, k) == Epoch(c, k)

Epochs == INSTANCE FoldInvariant WITH Step <- EpochStep, Good <- EpochGood

\* The last subset is dropped when no node could join it.
LEMMA EndEpochKeeps ==
  ASSUME NEW T, NEW p, Building(T, p), NEW a, SameGraph(a, p)
  PROVE  EpochGood(<<T, a>>, EndEpoch(p), 0)
<1> DEFINE E == Len(p.subsets)
<1>1. Shape(T, p) /\ Members(p) /\ PartitionInv(T, p) /\ Full(p) /\ p.subsets # << >>
  BY DEF Building, PartitionInv, Growing
<1>2. p.subsets \in Seq(SubsetOf(T)) /\ E \in Nat /\ E >= 1 /\ DOMAIN p.subsets = 1..E
  BY <1>1 DEF Shape
<1>3. Last(p.subsets) = p.subsets[E]
  BY DEF Last
<1> HIDE DEF E
<1>4. CASE p.subsets[E].nodes # << >>
  <2>1. EndEpoch(p) = [p |-> p, done |-> FALSE]
    BY <1>3, <1>4 DEF EndEpoch
  <2>2. AllFull(p)
    BY <1>1, <1>4 DEF AllFull, Full, E
  <2> QED BY <2>1, <2>2, <1>1 DEF EpochGood
<1>5. CASE p.subsets[E].nodes = << >>
  <2> DEFINE q == [p EXCEPT !.subsets = Front(@)]
  <2>1. EndEpoch(p) = [p |-> q, done |-> TRUE]
    BY <1>3, <1>5 DEF EndEpoch
  <2>2. /\ DOMAIN q = DOMAIN p /\ SameGraph(p, q) /\ q.edges = p.edges
        /\ q.nodeEpoch = p.nodeEpoch /\ q.tensorEpoch = p.tensorEpoch
        /\ q.subsets = Front(p.subsets)
    BY <1>1 DEF Shape, SameGraph
  <2> HIDE DEF q
  <2>3. /\ q.subsets \in Seq(SubsetOf(T)) /\ DOMAIN q.subsets = 1..(E - 1)
        /\ \A e \in 1..(E - 1) : q.subsets[e] = p.subsets[e]
    <3>1. q.subsets = SubSeq(p.subsets, 1, E - 1)
      BY <2>2 DEF Front, E
    <3> QED BY <3>1, <1>2 DEF E
  <2>4. ASSUME NEW x \in DOMAIN p.nodes, Placed(p, x)
        PROVE  p.nodeEpoch[x] \in DOMAIN q.subsets
    <3>1. p.nodeEpoch[x] \in 1..E
      BY <2>4, <1>1, <1>2 DEF Shape, Placed
    <3>2. \E j \in DOMAIN p.subsets[p.nodeEpoch[x]].nodes : TRUE
      BY <2>4, <1>1 DEF Members
    <3>3. p.nodeEpoch[x] # E
      BY <3>2, <1>5
    <3> QED BY <3>1, <3>3, <2>3, <1>2
  <2>5. \A e \in DOMAIN q.subsets : e \in DOMAIN p.subsets /\ q.subsets[e] = p.subsets[e] /\ e # E
    BY <2>3, <1>2
  <2>6. PartitionInv(T, q)
    BY <2>2, <2>3, <2>4, <2>5, <1>1, EmptySubsetsKeep
  <2>7. AllFull(q)
    BY <2>5, <1>1 DEF AllFull, Full, E
  <2>8. SameGraph(a, q)
    BY <2>2 DEF SameGraph
  <2> QED BY <2>1, <2>6, <2>7, <2>8 DEF EpochGood
<1> QED BY <1>4, <1>5

LEMMA EpochKeeps ==
  ASSUME NEW T, NEW p, NEW c, NEW k, NEW l, EpochGood(<<T, p>>, c, l)
  PROVE  EpochGood(<<T, p>>, Epoch(c, k), k)
<1>1. CASE c.done
  BY <1>1 DEF Epoch, EpochGood
<1>2. CASE ~ c.done
  <2> DEFINE q == BuildNodeSubset(c.p)
  <2>1. Epoch(c, k) = EndEpoch(q)
    BY <1>2 DEF Epoch
  <2>2. Building(T, q) /\ SameGraph(c.p, q)
    BY BuildNodeSubsetKeeps DEF EpochGood
  <2> HIDE DEF q
  <2>3. SameGraph(p, q)
    BY <2>2 DEF EpochGood, SameGraph
  <2>4. EpochGood(<<T, p>>, EndEpoch(q), 0)
    BY <2>2, <2>3, EndEpochKeeps
  <2> QED BY <2>1, <2>4 DEF EpochGood
<1> QED BY <1>1, <1>2

LEMMA BuildNodeSubsetsKeeps ==
  ASSUME NEW T, NEW p, PartitionInv(T, p), AllFull(p), NEW q, q = BuildNodeSubsets(p)
  PROVE  PartitionInv(T, q) /\ AllFull(q) /\ SameGraph(p, q)
<1> DEFINE a == <<T, p>>
           c == [p |-> p, done |-> FALSE]
           N == Len(p.nodes) + 1
           seq == Indices(N)
<1>1. N \in Nat /\ DOMAIN seq = 1..N /\ \A k \in 1..N : seq[k] = k
  BY DEF Indices, PartitionInv, Shape, GraphNodes
<1>2. EpochGood(a, c, 0)
  BY DEF EpochGood, SameGraph
<1>3. ASSUME NEW k \in 1..N, NEW d, EpochGood(a, d, k - 1)
      PROVE  EpochGood(a, EpochStep(a, d, seq[k]), k)
  <2>1. EpochGood(<<T, p>>, Epoch(d, k), k)
    BY <1>3, EpochKeeps
  <2> QED BY <2>1, <1>1 DEF EpochStep
<1>4. EpochGood(a, Epochs!Fold(a, c, seq), N)
  <2> HIDE DEF a, seq, c, N
  <2> QED BY <1>1, <1>2, <1>3, Epochs!FoldKeeps
<1>5. Epochs!Fold(a, c, seq) = FoldLeft(Epoch, c, seq)
  <2> HIDE DEF a, seq, c
  <2> QED BY DEF Epochs!Fold, Epochs!FoldLeft, Epochs!MapThenFoldSet, Epochs!Max,
                 FoldLeft, MapThenFoldSet, Max, EpochStep
<1>6. q = FoldLeft(Epoch, c, seq).p
  BY DEF BuildNodeSubsets
<1> QED BY <1>4, <1>5, <1>6 DEF EpochGood

\* A partitioner starts with nothing placed.
LEMMA NewPartitionerInv ==
  ASSUME NEW T, NEW nodes, GraphNodes(T, nodes), NEW claimed, NEW greedily \in BOOLEAN,
         NEW disableFusion \in BOOLEAN,
         NEW p, p = NewPartitioner(nodes, claimed, greedily, disableFusion)
  PROVE  /\ PartitionInv(T, p) /\ AllFull(p)
         /\ p.nodes = nodes /\ p.claimed = claimed /\ p.greedily = greedily
<1> DEFINE produced == UNION {nodes[i].out : i \in DOMAIN nodes}
           read == UNION {nodes[i].in : i \in DOMAIN nodes}
<1>1. p = [nodes |-> nodes, claimed |-> claimed, edges |-> ControlEdges(nodes, greedily),
           greedily |-> greedily, disableFusion |-> disableFusion, subsets |-> << >>,
           nodeEpoch |-> [i \in DOMAIN nodes |-> kEpochNotReady],
           tensorEpoch |-> [t \in produced \union read |->
                              IF t \in produced THEN kEpochNotReady ELSE kEpochAlwaysReady]]
  BY DEF NewPartitioner
<1>2. \A i \in DOMAIN nodes : nodes[i].out \subseteq produced
  OBVIOUS
<1>3. produced = Produced(nodes)
  BY DEF Produced
<1>4. /\ DOMAIN p = {"nodes", "claimed", "edges", "greedily", "disableFusion", "subsets",
                     "nodeEpoch", "tensorEpoch"}
      /\ p.nodes = nodes /\ p.claimed = claimed /\ p.greedily = greedily
      /\ p.disableFusion = disableFusion /\ p.subsets = << >>
      /\ p.edges = ControlEdges(nodes, greedily)
  BY <1>1
<1> HIDE DEF produced, read
<1>5. /\ p.nodeEpoch = [i \in DOMAIN nodes |-> kEpochNotReady]
      /\ DOMAIN p.tensorEpoch = produced \union read
      /\ \A t \in produced \union read :
           p.tensorEpoch[t] = IF t \in produced THEN kEpochNotReady ELSE kEpochAlwaysReady
  BY <1>1
<1>6. Shape(T, p)
  <2>1. p.subsets \in Seq(SubsetOf(T))
    BY <1>4
  <2>2. p.nodeEpoch \in [DOMAIN p.nodes -> {kEpochNotReady} \union DOMAIN p.subsets]
    BY <1>4, <1>5
  <2>3. DOMAIN p.tensorEpoch = Produced(p.nodes) \union UNION {p.nodes[i].in : i \in DOMAIN p.nodes}
    BY <1>3, <1>4, <1>5 DEF read
  <2> QED BY <2>1, <2>2, <2>3, <1>4 DEF Shape
<1>7. \A i \in DOMAIN p.nodes : ~ Placed(p, i)
  BY <1>4, <1>5 DEF Placed
<1>8. DOMAIN p.subsets = {}
  BY <1>4
<1>9. TensorEpochs(p)
  BY <1>2, <1>3, <1>4, <1>5, <1>7 DEF TensorEpochs
<1>10. Members(p) /\ InOrder(p) /\ Types(p) /\ Borders(p) /\ AllFull(p)
  BY <1>7, <1>8 DEF Members, InOrder, Types, Borders, AllFull
<1> QED BY <1>4, <1>6, <1>9, <1>10 DEF PartitionInv

-----------------------------------------------------------------------------
(* What a partition is.                                                    *)

\* The node i is the j-th of the subset e.
InSlot(nodes, subsets, epoch, i, j) ==
  j \in DOMAIN subsets[epoch[i]].nodes /\ subsets[epoch[i]].nodes[j] = nodes[i].id

\* subsets divide the nodes; epoch is the subset of each node.
IsPartition(T, nodes, claimed, outputs, greedily, subsets, epoch) ==
  /\ subsets \in Seq(SubsetOf(T))
  /\ epoch \in [DOMAIN nodes -> DOMAIN subsets]
  /\ \A e \in DOMAIN subsets : subsets[e].nodes # << >>
  /\ \A e \in DOMAIN subsets : \A j \in DOMAIN subsets[e].nodes :
       \E i \in DOMAIN nodes : nodes[i].id = subsets[e].nodes[j] /\ epoch[i] = e
  /\ \A e \in DOMAIN subsets : \A j, k \in DOMAIN subsets[e].nodes :
       subsets[e].nodes[j] = subsets[e].nodes[k] => j = k
  /\ \A i \in DOMAIN nodes : \E j : InSlot(nodes, subsets, epoch, i, j)
  /\ \A x, y \in DOMAIN nodes : \A j, k :
       /\ MustPrecede(nodes, greedily, x, y)
       /\ InSlot(nodes, subsets, epoch, x, j) /\ InSlot(nodes, subsets, epoch, y, k)
       => Earlier(epoch[x], j, epoch[y], k)
  /\ \A i \in DOMAIN nodes :
       subsets[epoch[i]].type = IF i \in claimed THEN "partition" ELSE "nonPartition"
  /\ \A e \in DOMAIN subsets : \A t :
       t \in subsets[e].in <=>
         /\ \E i \in DOMAIN nodes : epoch[i] = e /\ t \in nodes[i].in
         /\ \A k \in DOMAIN nodes : epoch[k] = e => t \notin nodes[k].out
  /\ \A e \in DOMAIN subsets : \A t :
       t \in subsets[e].out <=>
         \E k \in DOMAIN nodes :
           /\ epoch[k] = e /\ t \in nodes[k].out
           /\ t \in outputs \/ \E i \in DOMAIN nodes : epoch[i] # e /\ t \in nodes[i].in

\* When PartitionGraphIntoIndependentNodeSubsets succeeds it has divided the nodes:
\* each is in one subset of its type, behind all that must precede it, and a subset
\* names the tensors that come into it and those others need of it.
THEOREM PartitionDivides ==
  ASSUME NEW T, NEW nodes, GraphNodes(T, nodes), NEW claimed, NEW outputs,
         NEW greedily \in BOOLEAN, NEW disableFusion \in BOOLEAN,
         NEW r, r = Partition(nodes, claimed, outputs, greedily, disableFusion), r.ok
  PROVE  \E epoch : IsPartition(T, nodes, claimed, outputs, greedily, r.subsets, epoch)
<1> DEFINE b == NewPartitioner(nodes, claimed, greedily, disableFusion)
           p == BuildNodeSubsets(b)
           subs == r.subsets
           epoch == p.nodeEpoch
<1>1. PartitionInv(T, b) /\ AllFull(b) /\ b.nodes = nodes /\ b.claimed = claimed
      /\ b.greedily = greedily
  <2> HIDE DEF b
  <2> SUFFICES b = NewPartitioner(nodes, claimed, greedily, disableFusion)
    BY NewPartitionerInv
  <2> QED BY DEF b
<1>2. PartitionInv(T, p) /\ AllFull(p) /\ SameGraph(b, p)
  <2> HIDE DEF b, p
  <2> SUFFICES p = BuildNodeSubsets(b)
    BY <1>1, BuildNodeSubsetsKeeps
  <2> QED BY DEF p
<1>3. r = Partitioned(p, outputs)
  BY DEF Partition
<1> HIDE DEF b, p
<1>4. r = [ok |-> \A i \in DOMAIN p.nodes : p.nodeEpoch[i] # kEpochNotReady,
           subsets |-> MarkOutputs(p, outputs)]
  BY <1>3 DEF Partitioned
<1>5. p.nodes = nodes /\ p.claimed = claimed /\ p.greedily = greedily
  BY <1>1, <1>2 DEF SameGraph
<1>6. \A i \in DOMAIN nodes : Placed(p, i)
  BY <1>4, <1>5 DEF Placed
<1>7. Shape(T, p) /\ Members(p) /\ TensorEpochs(p) /\ InOrder(p) /\ Types(p) /\ Borders(p)
  BY <1>2 DEF PartitionInv
<1> DEFINE Mark(e) == {t \in outputs \intersect DOMAIN p.tensorEpoch : p.tensorEpoch[t] = e}
<1>8. subs = [e \in DOMAIN p.subsets |-> [p.subsets[e] EXCEPT !.out = @ \union Mark(e)]]
  BY <1>4 DEF MarkOutputs
<1>9. \A e : Mark(e) \subseteq T
  <2>1. DOMAIN p.tensorEpoch \subseteq T
    <3>1. \A i \in DOMAIN p.nodes : p.nodes[i].in \subseteq T /\ p.nodes[i].out \subseteq T
      <4>1. \A i \in DOMAIN p.nodes : p.nodes[i] \in NodeOf(T)
        BY <1>7 DEF Shape, GraphNodes
      <4> QED BY <4>1 DEF NodeOf
    <3> QED BY <3>1, <1>7 DEF Shape, Produced
  <2> QED BY <2>1
<1> HIDE DEF Mark
<1>10. ASSUME NEW e \in DOMAIN p.subsets
       PROVE  /\ subs[e].type = p.subsets[e].type
              /\ subs[e].nodes = p.subsets[e].nodes
              /\ subs[e].in = p.subsets[e].in
              /\ subs[e].out = p.subsets[e].out \union Mark(e)
              /\ subs[e] \in SubsetOf(T)
  <2> DEFINE a == p.subsets[e]
             x == a.out \union Mark(e)
             s == subs[e]
  <2>1. a \in SubsetOf(T)
    BY <1>7 DEF Shape
  <2>2. x \in SUBSET T
    BY <2>1, <1>9 DEF SubsetOf
  <2>3. s = [a EXCEPT !.out = x]
    BY <1>8
  <2> HIDE DEF a, x, s
  <2>4. s.type = a.type /\ s.nodes = a.nodes /\ s.in = a.in /\ s.out = x /\ s \in SubsetOf(T)
    BY <2>1, <2>2, <2>3 DEF SubsetOf
  <2> QED BY <2>4 DEF a, x, s
<1>11. DOMAIN subs = DOMAIN p.subsets /\ subs \in Seq(SubsetOf(T))
  <2>1. DOMAIN p.subsets = 1..Len(p.subsets) /\ Len(p.subsets) \in Nat
    BY <1>7 DEF Shape
  <2>2. subs = [e \in 1..Len(p.subsets) |-> subs[e]]
    BY <2>1, <1>8
  <2>3. \A e \in 1..Len(p.subsets) : subs[e] \in SubsetOf(T)
    BY <2>1, <1>10
  <2> HIDE DEF subs
  <2> QED BY <2>1, <2>2, <2>3
<1> HIDE DEF subs
<1>12. epoch \in [DOMAIN nodes -> DOMAIN subs]
  BY <1>5, <1>6, <1>7, <1>11 DEF Shape, Placed
<1>13. \A e \in DOMAIN subs : subs[e].nodes = p.subsets[e].nodes /\ subs[e].nodes # << >>
  BY <1>2, <1>10, <1>11 DEF AllFull
<1>14. \A e \in DOMAIN subs : \A j \in DOMAIN subs[e].nodes :
         \E i \in DOMAIN nodes : nodes[i].id = subs[e].nodes[j] /\ epoch[i] = e
  BY <1>5, <1>7, <1>11, <1>13 DEF Members
<1>15. \A e \in DOMAIN subs : \A j, k \in DOMAIN subs[e].nodes :
         subs[e].nodes[j] = subs[e].nodes[k] => j = k
  BY <1>7, <1>11, <1>13 DEF Members
<1>16. ASSUME NEW i \in DOMAIN nodes PROVE \E j : InSlot(nodes, subs, epoch, i, j)
  <2>1. epoch[i] \in DOMAIN subs
    BY <1>12
  <2>2. \E j \in DOMAIN p.subsets[p.nodeEpoch[i]].nodes :
          p.subsets[p.nodeEpoch[i]].nodes[j] = nodes[i].id
    BY <1>5, <1>6, <1>7 DEF Members
  <2> QED BY <2>1, <2>2, <1>13 DEF InSlot
<1>17. ASSUME NEW x \in DOMAIN nodes, NEW y \in DOMAIN nodes, NEW j, NEW k,
              MustPrecede(nodes, greedily, x, y),
              InSlot(nodes, subs, epoch, x, j), InSlot(nodes, subs, epoch, y, k)
       PROVE  Earlier(epoch[x], j, epoch[y], k)
  <2>1. epoch[x] \in DOMAIN subs /\ epoch[y] \in DOMAIN subs
    BY <1>12
  <2>2. /\ j \in DOMAIN p.subsets[p.nodeEpoch[x]].nodes
        /\ p.subsets[p.nodeEpoch[x]].nodes[j] = nodes[x].id
        /\ k \in DOMAIN p.subsets[p.nodeEpoch[y]].nodes
        /\ p.subsets[p.nodeEpoch[y]].nodes[k] = nodes[y].id
    BY <2>1, <1>13, <1>17 DEF InSlot
  <2> QED BY <2>2, <1>5, <1>6, <1>7, <1>17 DEF InOrder
<1>18. \A i \in DOMAIN nodes :
         subs[epoch[i]].type = IF i \in claimed THEN "partition" ELSE "nonPartition"
  BY <1>5, <1>6, <1>7, <1>10, <1>11, <1>12 DEF Types, NodeType
<1>19. \A k \in DOMAIN nodes : \A t \in nodes[k].out : p.tensorEpoch[t] = epoch[k]
  BY <1>5, <1>7 DEF TensorEpochs
<1>20. \A e \in DOMAIN subs : e # kEpochAlwaysReady
  BY <1>11 DEF kEpochAlwaysReady
<1>21. ASSUME NEW t \in DOMAIN p.tensorEpoch, NEW e \in DOMAIN subs, p.tensorEpoch[t] = e
       PROVE  \E k \in DOMAIN nodes : epoch[k] = e /\ t \in nodes[k].out
  <2>1. t \in Produced(nodes)
    BY <1>5, <1>7, <1>20, <1>21 DEF TensorEpochs
  <2>2. PICK k \in DOMAIN nodes : t \in nodes[k].out
    BY <2>1 DEF Produced
  <2> QED BY <2>2, <1>19, <1>21
<1>22. ASSUME NEW e \in DOMAIN subs, NEW t
       PROVE  t \in subs[e].in <=>
                /\ \E i \in DOMAIN nodes : epoch[i] = e /\ t \in nodes[i].in
                /\ \A k \in DOMAIN nodes : epoch[k] = e => t \notin nodes[k].out
  <2>1. t \in subs[e].in <=>
          \E i \in DOMAIN nodes : epoch[i] = e /\ t \in nodes[i].in /\ p.tensorEpoch[t] # e
    BY <1>5, <1>7, <1>10, <1>11 DEF Borders
  <2>2. \A i \in DOMAIN nodes : t \in nodes[i].in => t \in DOMAIN p.tensorEpoch
    BY <1>5, <1>7 DEF Shape
  <2> QED BY <2>1, <2>2, <1>19, <1>21
<1>23. ASSUME NEW e \in DOMAIN subs, NEW t
       PROVE  t \in subs[e].out <=>
                \E k \in DOMAIN nodes :
                  /\ epoch[k] = e /\ t \in nodes[k].out
                  /\ t \in outputs \/ \E i \in DOMAIN nodes : epoch[i] # e /\ t \in nodes[i].in
  <2>1. t \in subs[e].out <=> t \in p.subsets[e].out \/ t \in Mark(e)
    BY <1>10, <1>11
  <2>2. t \in p.subsets[e].out <=>
          \E i \in DOMAIN nodes : epoch[i] # e /\ t \in nodes[i].in /\ p.tensorEpoch[t] = e
    BY <1>5, <1>6, <1>7, <1>11 DEF Borders
  <2>3. \A i \in DOMAIN nodes : t \in nodes[i].in \union nodes[i].out => t \in DOMAIN p.tensorEpoch
    BY <1>5, <1>7 DEF Shape, Produced
  <2>4. t \in Mark(e) <=> t \in outputs /\ t \in DOMAIN p.tensorEpoch /\ p.tensorEpoch[t] = e
    BY DEF Mark
  <2> QED BY <2>1, <2>2, <2>3, <2>4, <1>19, <1>21
<1>24. IsPartition(T, nodes, claimed, outputs, greedily, subs, epoch)
  BY <1>11, <1>12, <1>13, <1>14, <1>15, <1>16, <1>17, <1>18, <1>22, <1>23 DEF IsPartition
<1> QED BY <1>24 DEF subs

-----------------------------------------------------------------------------
(* Sequences of sequences (FlattenSeq).                                    *)

\* F lists the elements of the first n sequences: the p-th is element col[p] of
\* sequence row[p], in the order of rows and columns.
Flattens(seqs, n, F, row, col) ==
  /\ row \in [DOMAIN F -> 1..n]
  /\ col \in [DOMAIN F -> Nat]
  /\ \A p \in DOMAIN F : col[p] \in DOMAIN seqs[row[p]] /\ F[p] = seqs[row[p]][col[p]]
  /\ \A p, q \in DOMAIN F : p < q => Earlier(row[p], col[p], row[q], col[q])
  /\ \A i \in 1..n : \A j \in DOMAIN seqs[i] : \E p \in DOMAIN F : row[p] = i /\ col[p] = j

IsFlat(S, seqs, n, F) == F \in Seq(S) /\ \E row, col : Flattens(seqs, n, F, row, col)

\* One sequence more.
LEMMA FlattensMore ==
  ASSUME NEW S, NEW seqs \in Seq(Seq(S)), NEW n \in Nat, n + 1 \in DOMAIN seqs,
         NEW F, IsFlat(S, seqs, n, F)
  PROVE  IsFlat(S, seqs, n + 1, F \o seqs[n + 1])
<1> DEFINE s == seqs[n + 1]
           G == F \o s
           l == Len(F)
<1>1. s \in Seq(S) /\ F \in Seq(S)
  BY DEF IsFlat
<1>2. PICK row, col : Flattens(seqs, n, F, row, col)
  BY DEF IsFlat
<1>3. /\ G \in Seq(S) /\ l \in Nat /\ Len(s) \in Nat
      /\ DOMAIN G = 1..(l + Len(s)) /\ DOMAIN F = 1..l /\ DOMAIN s = 1..Len(s)
      /\ \A p \in 1..l : G[p] = F[p]
      /\ \A p \in 1..(l + Len(s)) : p > l => G[p] = s[p - l]
  BY <1>1
<1> DEFINE r == [p \in DOMAIN G |-> IF p <= l THEN row[p] ELSE n + 1]
           c == [p \in DOMAIN G |-> IF p <= l THEN col[p] ELSE p - l]
<1> HIDE DEF G, l, s
<1>4. \A p \in DOMAIN G : p \in Nat /\ (p <= l => p \in DOMAIN F)
                          /\ (p > l => p - l \in DOMAIN s /\ p - l \in Nat)
  BY <1>3
<1>5. \A p \in DOMAIN F : p \in DOMAIN G /\ p <= l
  BY <1>3
<1>6. \A p \in DOMAIN F : row[p] \in 1..n /\ col[p] \in Nat
  BY <1>2 DEF Flattens
<1>7. \A p \in DOMAIN F : col[p] \in DOMAIN seqs[row[p]] /\ F[p] = seqs[row[p]][col[p]]
  BY <1>2 DEF Flattens
<1>8. r \in [DOMAIN G -> 1..(n + 1)]
  <2> SUFFICES ASSUME NEW p \in DOMAIN G PROVE (IF p <= l THEN row[p] ELSE n + 1) \in 1..(n + 1)
    OBVIOUS
  <2> QED BY <1>4, <1>6
<1>9. c \in [DOMAIN G -> Nat]
  <2> SUFFICES ASSUME NEW p \in DOMAIN G PROVE (IF p <= l THEN col[p] ELSE p - l) \in Nat
    OBVIOUS
  <2> QED BY <1>3, <1>4, <1>6
<1>10. \A p \in DOMAIN G : /\ p <= l => r[p] = row[p] /\ c[p] = col[p]
                           /\ p > l => r[p] = n + 1 /\ c[p] = p - l
  BY <1>3, <1>4
<1> HIDE DEF r, c
<1>11. ASSUME NEW p \in DOMAIN G
       PROVE  c[p] \in DOMAIN seqs[r[p]] /\ G[p] = seqs[r[p]][c[p]]
  <2>1. CASE p <= l
    <3>1. p \in DOMAIN F /\ r[p] = row[p] /\ c[p] = col[p] /\ G[p] = F[p]
      BY <2>1, <1>3, <1>4, <1>10
    <3> QED BY <3>1, <1>7
  <2>2. CASE p > l
    <3>1. r[p] = n + 1 /\ c[p] = p - l /\ G[p] = s[p - l] /\ p - l \in DOMAIN s
      BY <2>2, <1>3, <1>4, <1>10
    <3> QED BY <3>1 DEF s
  <2> QED BY <2>1, <2>2, <1>3, <1>4
<1>12. ASSUME NEW p \in DOMAIN G, NEW q \in DOMAIN G, p < q
       PROVE  Earlier(r[p], c[p], r[q], c[q])
  <2>1. CASE q <= l
    <3>1. p <= l /\ p \in DOMAIN F /\ q \in DOMAIN F
      BY <2>1, <1>3, <1>4, <1>12
    <3>2. Earlier(row[p], col[p], row[q], col[q])
      BY <3>1, <1>2, <1>12 DEF Flattens
    <3> QED BY <2>1, <3>1, <3>2, <1>10
  <2>2. CASE p <= l /\ q > l
    <3>1. r[p] \in 1..n /\ r[q] = n + 1
      BY <2>2, <1>4, <1>6, <1>10
    <3> QED BY <3>1 DEF Earlier
  <2>3. CASE p > l /\ q > l
    <3>1. r[p] = n + 1 /\ r[q] = n + 1 /\ c[p] = p - l /\ c[q] = q - l
      BY <2>3, <1>10
    <3>2. c[p] < c[q]
      BY <3>1, <1>3, <1>4, <1>12
    <3> QED BY <3>1, <3>2 DEF Earlier
  <2> QED BY <2>1, <2>2, <2>3, <1>3, <1>4, <1>12
<1>13. ASSUME NEW i \in 1..(n + 1), NEW j \in DOMAIN seqs[i]
       PROVE  \E p \in DOMAIN G : r[p] = i /\ c[p] = j
  <2>1. CASE i \in 1..n
    <3>1. PICK p \in DOMAIN F : row[p] = i /\ col[p] = j
      BY <2>1, <1>2 DEF Flattens
    <3> QED BY <3>1, <1>5, <1>10
  <2>2. CASE i = n + 1
    <3>1. j \in 1..Len(s)
      BY <2>2, <1>3 DEF s
    <3>2. l + j \in DOMAIN G /\ l + j > l /\ (l + j) - l = j
      BY <3>1, <1>3, SMTT(40)
    <3> QED BY <2>2, <3>2, <1>10
  <2> QED BY <2>1, <2>2
<1>14. Flattens(seqs, n + 1, G, r, c)
  BY <1>8, <1>9, <1>11, <1>12, <1>13 DEF Flattens
<1>15. IsFlat(S, seqs, n + 1, G)
  BY <1>3, <1>14 DEF IsFlat
<1> QED BY <1>15 DEF G, s

\* The recursive function of FlattenSeq for the first m sequences.
Flatten(seqs, m, f) == f = [i \in 1..m |-> IF i = 1 THEN seqs[i] ELSE f[i - 1] \o seqs[i]]

LEMMA FlattenExtends ==
  ASSUME NEW seqs, NEW m \in Nat, NEW f, Flatten(seqs, m, f)
  PROVE  \E g : Flatten(seqs, m + 1, g)
<1> DEFINE g == [i \in 1..(m + 1) |->
                   IF i <= m THEN f[i] ELSE IF i = 1 THEN seqs[i] ELSE f[i - 1] \o seqs[i]]
<1>1. ASSUME NEW i \in 1..(m + 1)
      PROVE  g[i] = IF i = 1 THEN seqs[i] ELSE g[i - 1] \o seqs[i]
  <2>1. CASE i = 1
    BY <2>1 DEF Flatten
  <2>2. CASE i # 1
    <3>1. i - 1 \in 1..(m + 1) /\ i - 1 <= m
      BY <2>2
    <3>2. g[i - 1] = f[i - 1]
      BY <3>1
    <3>3. i <= m => f[i] = f[i - 1] \o seqs[i]
      <4>1. \A j \in 1..m : f[j] = IF j = 1 THEN seqs[j] ELSE f[j - 1] \o seqs[j]
        <5> HIDE DEF g
        <5> QED BY DEF Flatten
      <4>2. i <= m => i \in 1..m
        OBVIOUS
      <4> HIDE DEF g
      <4> QED BY <4>1, <4>2, <2>2
    <3> QED BY <2>2, <3>2, <3>3
  <2> QED BY <2>1, <2>2
<1>2. g = [i \in 1..(m + 1) |-> IF i = 1 THEN seqs[i] ELSE g[i - 1] \o seqs[i]]
  <2>1. g = [i \in 1..(m + 1) |-> g[i]]
    OBVIOUS
  <2> HIDE DEF g
  <2> QED BY <1>1, <2>1
<1> HIDE DEF g
<1> QED BY <1>2 DEF Flatten

LEMMA FlattenExists ==
  ASSUME NEW seqs, NEW n \in Nat
  PROVE  \E f : Flatten(seqs, n, f)
<1> DEFINE P(m) == \E f : Flatten(seqs, m, f)
           B == {m \in Nat : ~ P(m)}
<1>1. P(0)
  <2> DEFINE f == [i \in 1..0 |-> seqs[1]]
  <2>1. \A i \in 1..0 : FALSE
    OBVIOUS
  <2>2. Flatten(seqs, 0, f)
    BY <2>1 DEF Flatten
  <2> QED BY <2>2
<1>2. \A m \in Nat : P(m) => P(m + 1)
  BY FlattenExtends
<1> HIDE DEF P
<1>3. SUFFICES ASSUME B # {} PROVE FALSE
  <2>1. P(n)
    BY <1>3
  <2> QED BY <2>1 DEF P
<1>4. PICK m \in B : \A k \in B : m <= k
  <2>1. B \in SUBSET Nat
    OBVIOUS
  <2> QED BY <1>3, <2>1, LeastExists
<1>5. m # 0
  BY <1>1, <1>4
<1>6. m - 1 \in Nat /\ m - 1 \notin B
  BY <1>4, <1>5
<1>7. P(m - 1)
  BY <1>6
<1>8. P(m - 1 + 1)
  BY <1>2, <1>6, <1>7
<1> QED BY <1>4, <1>8

\* FlattenSeq lists all elements of all sequences, row by row.
LEMMA FlattenSeqIsFlat ==
  ASSUME NEW S, NEW seqs \in Seq(Seq(S))
  PROVE  IsFlat(S, seqs, Len(seqs), FlattenSeq(seqs))
<1> DEFINE n == Len(seqs)
<1>0. n \in Nat /\ DOMAIN seqs = 1..n
  OBVIOUS
<1>1. CASE n = 0
  <2>1. seqs = << >> /\ FlattenSeq(seqs) = << >>
    BY <1>1 DEF FlattenSeq
  <2> DEFINE row == [p \in {} |-> 1]
             col == [p \in {} |-> 0]
  <2>2. DOMAIN << >> = {} /\ 1..0 = {}
    OBVIOUS
  <2>3. Flattens(seqs, 0, << >>, row, col)
    BY <2>2 DEF Flattens
  <2>4. IsFlat(S, seqs, 0, << >>)
    <3> HIDE DEF row, col
    <3> QED BY <2>3 DEF IsFlat
  <2> QED BY <2>1, <2>4, <1>1
<1>2. CASE n # 0
  <2> DEFINE f == CHOOSE flatten : flatten = [i \in 1..Len(seqs) |->
                    IF i = 1 THEN seqs[i] ELSE flatten[i - 1] \o seqs[i]]
  <2>1. FlattenSeq(seqs) = f[n]
    BY <1>2 DEF FlattenSeq
  <2>2. \E flatten : flatten = [i \in 1..Len(seqs) |->
                    IF i = 1 THEN seqs[i] ELSE flatten[i - 1] \o seqs[i]]
    <3>1. PICK h : Flatten(seqs, n, h)
      BY <1>0, FlattenExists
    <3> QED BY <3>1 DEF Flatten
  <2>3. f = [i \in 1..n |-> IF i = 1 THEN seqs[i] ELSE f[i - 1] \o seqs[i]]
    BY <2>2
  <2> HIDE DEF f, n
  <2>4. IsFlat(S, seqs, 1, f[1])
    <3>1. f[1] = seqs[1] /\ 1 \in DOMAIN seqs
      BY <2>3, <1>0, <1>2
    <3>2. seqs[1] \in Seq(S)
      BY <3>1
    <3> DEFINE s == seqs[1]
               row == [p \in DOMAIN s |-> 1]
               col == [p \in DOMAIN s |-> p]
    <3>3. row \in [DOMAIN s -> 1..1] /\ col \in [DOMAIN s -> Nat]
      BY <3>2
    <3>4. \A p \in DOMAIN s : row[p] = 1 /\ col[p] = p
      OBVIOUS
    <3>5. \A i \in 1..1 : i = 1
      OBVIOUS
    <3> HIDE DEF row, col
    <3>6. Flattens(seqs, 1, s, row, col)
      BY <3>3, <3>4, <3>5 DEF Flattens, Earlier
    <3> QED BY <3>1, <3>2, <3>6 DEF IsFlat
  <2> DEFINE B == {m \in 1..n : ~ IsFlat(S, seqs, m, f[m])}
  <2>5. SUFFICES ASSUME B # {} PROVE FALSE
    <3>1. IsFlat(S, seqs, n, f[n])
      BY <2>5, <1>0, <1>2
    <3> QED BY <3>1, <2>1 DEF n
  <2>6. PICK m \in B : \A k \in B : m <= k
    <3>1. B \in SUBSET Nat
      OBVIOUS
    <3> QED BY <2>5, <3>1, LeastExists
  <2>7. m # 1
    BY <2>4, <2>6
  <2>8. m - 1 \in 1..n /\ m - 1 \notin B /\ m - 1 \in Nat
    BY <2>6, <2>7, <1>0
  <2>9. IsFlat(S, seqs, m - 1, f[m - 1])
    BY <2>8
  <2>10. m - 1 + 1 \in DOMAIN seqs /\ m - 1 + 1 = m
    BY <2>6, <1>0
  <2>11. IsFlat(S, seqs, m - 1 + 1, f[m - 1] \o seqs[m - 1 + 1])
    BY <2>8, <2>9, <2>10, FlattensMore
  <2>12. f[m] = f[m - 1] \o seqs[m]
    BY <2>3, <2>6, <2>7
  <2> QED BY <2>6, <2>10, <2>11, <2>12
<1> QED BY <1>1, <1>2

=============================================================================
