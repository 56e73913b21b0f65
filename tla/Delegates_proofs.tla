--------------------------- MODULE Delegates_proofs ---------------------------
(***************************************************************************)
(* The properties of Delegates for every graph, every set of delegates and *)
(* every sequence of calls and failures. The predicates take the graph g   *)
(* and the subgraph s as parameters: the operators of the model work on    *)
(* subgraphs that no state of the system shows.                            *)
(***************************************************************************)
EXTENDS Delegates, GraphInfo_proofs, FiniteSetTheorems, SequenceTheorems, TLAPS

TensorsOf(g) == g.inputs \union UNION {g.ops[i].out : i \in DOMAIN g.ops}

HasEffect(g, in, out) == (in \union out) \intersect g.resources # {}

\* The node of op i, and the nodes there can be.
OpNode(g, i) ==
  [in |-> g.ops[i].in, out |-> g.ops[i].out, effect |-> HasEffect(g, g.ops[i].in, g.ops[i].out),
   by |-> NoDelegate, runs |-> <<i>>, live |-> TRUE]

Nodes(g) ==
  [in : SUBSET TensorsOf(g), out : SUBSET TensorsOf(g), effect : BOOLEAN,
   by : Delegates \union {NoDelegate}, runs : Seq(DOMAIN g.ops), live : BOOLEAN]

-----------------------------------------------------------------------------
(* The invariant.                                                          *)

Fields ==
  {"nodes", "plan", "pre", "applied", "undone", "state", "marks", "hasPlanner", "lifetimes",
   "allocated", "prepared", "nextPrepare", "status"}

\* What holds of a subgraph even when a delegate failed half way.
Base(g, s) ==
  /\ DOMAIN s = Fields
  /\ s.nodes \in Seq(Nodes(g))
  /\ Len(g.ops) <= Len(s.nodes)
  /\ \A i \in DOMAIN g.ops : s.nodes[i] = OpNode(g, i)
  /\ s.plan \in Seq(DOMAIN s.nodes)
  /\ s.applied \in Seq(Delegates) /\ s.undone \in BOOLEAN
  /\ s.marks \in [TensorsOf(g) -> Delegates \union {NoDelegate}]

MemoryTypes(g, s) ==
  /\ s.state \in {"uninvokable", "invokable", "immutable"}
  /\ s.hasPlanner \in BOOLEAN
  /\ s.lifetimes \in Seq(SUBSET TensorsOf(g))
  /\ s.allocated \in SUBSET TensorsOf(g)
  /\ s.prepared \in SUBSET DOMAIN s.nodes
  /\ s.nextPrepare \in 1..(Len(g.ops) + 1)

RunsOp(node, a) == \E j \in DOMAIN node.runs : node.runs[j] = a

Reads(g, node, t) == \E a \in DOMAIN g.ops : RunsOp(node, a) /\ t \in g.ops[a].in

Makes(g, node, t) == \E a \in DOMAIN g.ops : RunsOp(node, a) /\ t \in g.ops[a].out

Needed(g, node, t) ==
  t \in g.outputs \/ \E a \in DOMAIN g.ops : ~ RunsOp(node, a) /\ t \in g.ops[a].in

\* A node names the tensors that come into its ops from outside, and those they
\* make that are needed elsewhere; a kernel names no others.
Names(g, node) ==
  /\ node.live /\ node.runs # << >>
  /\ node.effect = HasEffect(g, node.in, node.out)
  /\ \A t \in TensorsOf(g) :
       /\ t \in node.in <=> Reads(g, node, t) /\ ~ Makes(g, node, t)
       /\ t \in node.out => Makes(g, node, t)
       /\ Makes(g, node, t) /\ Needed(g, node, t) => t \in node.out
       /\ t \in node.out /\ node.by # NoDelegate => Needed(g, node, t)

Step(s, i) == s.nodes[s.plan[i]]

\* A node of the plan is one of the model or a kernel for ops that were claimed.
Origin(g, node) ==
  IF node.by = NoDelegate
  THEN \E a \in DOMAIN g.ops : node = OpNode(g, a)
  ELSE \A j \in DOMAIN node.runs : \E d \in Delegates : node.runs[j] \in g.claims[d]

\* Op a uses handle t.
UsesHandle(g, a, t) == t \in g.resources /\ (t \in g.ops[a].in \/ t \in g.ops[a].out)

\* Op a uses a handle that no kernel makes. Effects are ordered by the handles that
\* nodes name, and a kernel need not name those it makes.
ShowsHandle(g, a) ==
  \E t : /\ UsesHandle(g, a, t)
        /\ \A d \in Delegates : \A b \in g.claims[d] : t \notin g.ops[b].out

\* Op a has to stay before op b.
OpMustPrecede(g, a, b) ==
  /\ a < b
  /\ \/ g.ops[a].out \intersect g.ops[b].in # {}
     \/ \E t : UsesHandle(g, a, t) /\ UsesHandle(g, b, t)
     \/ ShowsHandle(g, a) /\ ShowsHandle(g, b)
     \/ ~ g.greedily

\* The steps of the plan run every op once, in an order that is allowed.
Scheduled(g, s) ==
  /\ \A i \in DOMAIN s.plan : Names(g, Step(s, i)) /\ Origin(g, Step(s, i))
  /\ \A i, k \in DOMAIN s.plan : \A j \in DOMAIN Step(s, i).runs, l \in DOMAIN Step(s, k).runs :
       /\ Step(s, i).runs[j] = Step(s, k).runs[l] => i = k /\ j = l
       /\ OpMustPrecede(g, Step(s, i).runs[j], Step(s, k).runs[l]) => Earlier(i, j, k, l)
  /\ \A a \in DOMAIN g.ops : \E i \in DOMAIN s.plan : RunsOp(Step(s, i), a)

\* The plan of the model is the current plan or kept for later.
Original(g, s) == s.plan = Indices(Len(g.ops)) /\ s.pre = << >>

Kept(g, s) == s.pre = Indices(Len(g.ops)) /\ ~ s.undone

Controlled(g, s) ==
  /\ s.applied = << >> \/ s.undone => Original(g, s)
  /\ s.applied # << >> /\ ~ s.undone => Kept(g, s)
  /\ s.applied = << >> => ~ s.undone
  /\ IsInjective(s.applied)

\* All sizes are known.
AllSized(g, s) ==
  \A i \in DOMAIN s.plan :
    /\ Step(s, i).by \notin g.makesDynamic
    /\ \A j \in DOMAIN Step(s, i).runs : Step(s, i).runs[j] \notin g.unsized

Covered(s) ==
  \A i \in DOMAIN s.plan : s.plan[i] \in s.prepared /\ Step(s, i).in \union Step(s, i).out \subseteq s.allocated

\* What immutable promises.
Ready(g, s) ==
  s.state = "immutable" =>
    /\ ~ s.undone /\ s.hasPlanner
    /\ \E i \in DOMAIN s.applied : s.applied[i] \notin g.allowDynamic
    /\ AllSized(g, s)
    /\ Covered(s)

\* A subgraph between two calls.
Stable(g, s) ==
  Base(g, s) /\ MemoryTypes(g, s) /\ Scheduled(g, s) /\ Controlled(g, s) /\ Ready(g, s)

Statuses == {"ok", "delegateError", "applicationError", "error"}

Inv == graph \in Graphs /\ Stable(graph, sub) /\ sub.status \in Statuses

-----------------------------------------------------------------------------
(* The graph.                                                              *)

LEMMA GraphFacts ==
  ASSUME NEW g \in Graphs
  PROVE  /\ Len(g.ops) \in Nat /\ Len(g.ops) >= 1 /\ DOMAIN g.ops = 1..Len(g.ops)
         /\ \A i \in DOMAIN g.ops : g.ops[i].in \in SUBSET TensorsOf(g)
                                    /\ g.ops[i].out \in SUBSET TensorsOf(g)
         /\ \A i \in DOMAIN g.ops : g.ops[i].out \intersect g.inputs = {}
         /\ \A i, j \in DOMAIN g.ops : g.ops[i].out \intersect g.ops[j].out # {} => i = j
         /\ \A i, j \in DOMAIN g.ops : g.ops[i].out \intersect g.ops[j].in # {} => i < j
         /\ \A j \in DOMAIN g.ops : \A t \in g.ops[j].in :
              t \in g.inputs \/ \E i \in DOMAIN g.ops : i < j /\ t \in g.ops[i].out
<1> DEFINE n == Len(g.ops)
<1>1. g.ops \in Seq([in : SUBSET Int, out : SUBSET Int]) /\ g.ops # << >>
  BY GraphsAssumption
<1>2. n \in Nat /\ n >= 1 /\ DOMAIN g.ops = 1..n
  BY <1>1
<1> HIDE DEF n
<1>3. \A i \in 1..n : /\ g.ops[i].in \subseteq g.inputs \union UNION {g.ops[j].out : j \in 1..(i - 1)}
                      /\ g.ops[i].out \intersect g.inputs = {}
                      /\ \A j \in 1..(i - 1) : g.ops[i].out \intersect g.ops[j].out = {}
  BY <1>2, GraphsAssumption
<1>4. \A j \in 1..n : \A t \in g.ops[j].in :
              t \in g.inputs \/ \E i \in 1..n : i < j /\ t \in g.ops[i].out
  <2> SUFFICES ASSUME NEW j \in 1..n, NEW t \in g.ops[j].in, t \notin g.inputs
               PROVE  \E i \in 1..n : i < j /\ t \in g.ops[i].out
    OBVIOUS
  <2>1. PICK i \in 1..(j - 1) : t \in g.ops[i].out
    BY <1>3
  <2>2. i \in 1..n /\ i < j
    BY <1>2
  <2> QED BY <2>1, <2>2
<1>5. \A i, j \in 1..n : g.ops[i].out \intersect g.ops[j].out # {} => i = j
  <2> SUFFICES ASSUME NEW i \in 1..n, NEW j \in 1..n, g.ops[i].out \intersect g.ops[j].out # {},
                      i # j
               PROVE  FALSE
    OBVIOUS
  <2>1. CASE i < j
    <3>1. i \in 1..(j - 1)
      BY <2>1, <1>2
    <3> QED BY <3>1, <1>3
  <2>2. CASE j < i
    <3>1. j \in 1..(i - 1)
      BY <2>2, <1>2
    <3> QED BY <3>1, <1>3
  <2> QED BY <2>1, <2>2, <1>2
<1>6. \A i, j \in 1..n : g.ops[i].out \intersect g.ops[j].in # {} => i < j
  <2> SUFFICES ASSUME NEW i \in 1..n, NEW j \in 1..n, NEW t, t \in g.ops[i].out, t \in g.ops[j].in
               PROVE  i < j
    OBVIOUS
  <2>1. t \notin g.inputs
    BY <1>3
  <2>2. PICK k \in 1..n : k < j /\ t \in g.ops[k].out
    BY <2>1, <1>4
  <2>3. i = k
    BY <2>2, <1>5
  <2> QED BY <2>2, <2>3
<1>7. \A i \in 1..n : g.ops[i].out \in SUBSET TensorsOf(g)
  BY <1>2 DEF TensorsOf
<1>8. \A i \in 1..n : g.ops[i].in \in SUBSET TensorsOf(g)
  BY <1>4, <1>7 DEF TensorsOf
<1> QED BY <1>2, <1>3, <1>4, <1>5, <1>6, <1>7, <1>8 DEF n

LEMMA BaseFacts ==
  ASSUME NEW g, NEW s, Base(g, s)
  PROVE  /\ Len(s.plan) \in Nat /\ DOMAIN s.plan = 1..Len(s.plan)
         /\ Len(s.nodes) \in Nat /\ DOMAIN s.nodes = 1..Len(s.nodes)
         /\ \A i \in DOMAIN s.nodes : s.nodes[i] \in Nodes(g)
         /\ \A i \in DOMAIN s.plan : s.plan[i] \in DOMAIN s.nodes /\ Step(s, i) \in Nodes(g)
<1>1. s.nodes \in Seq(Nodes(g)) /\ s.plan \in Seq(DOMAIN s.nodes)
  BY DEF Base
<1> QED BY <1>1 DEF Step

-----------------------------------------------------------------------------
(* Preparation and memory leave the schedule alone.                        *)

SameSchedule(s, q) ==
  /\ DOMAIN q = DOMAIN s
  /\ q.nodes = s.nodes /\ q.plan = s.plan /\ q.pre = s.pre
  /\ q.applied = s.applied /\ q.undone = s.undone /\ q.marks = s.marks

LEMMA SameScheduleKeeps ==
  ASSUME NEW g, NEW s, NEW q, SameSchedule(s, q)
  PROVE  /\ Base(g, s) => Base(g, q)
         /\ Scheduled(g, s) => Scheduled(g, q)
         /\ Controlled(g, s) => Controlled(g, q)
         /\ Original(g, s) => Original(g, q)
         /\ Kept(g, s) => Kept(g, q)
         /\ AllSized(g, s) => AllSized(g, q)
         /\ \A i : Step(q, i) = Step(s, i)
<1>1. \A i : Step(q, i) = Step(s, i)
  BY DEF SameSchedule, Step
<1>2. Base(g, s) => Base(g, q)
  BY DEF SameSchedule, Base
<1>3. Scheduled(g, s) => Scheduled(g, q)
  BY <1>1 DEF SameSchedule, Scheduled
<1>4. AllSized(g, s) => AllSized(g, q)
  BY <1>1 DEF SameSchedule, AllSized
<1>5. /\ Original(g, s) => Original(g, q)
      /\ Kept(g, s) => Kept(g, q)
  BY DEF SameSchedule, Original, Kept
<1>6. Controlled(g, s) => Controlled(g, q)
  BY DEF SameSchedule, Controlled, Original, Kept
<1> QED BY <1>1, <1>2, <1>3, <1>4, <1>5, <1>6

\* Every step has been prepared and its outputs have memory.
Served(g, s) ==
  /\ s.hasPlanner
  /\ g.inputs \subseteq s.allocated
  /\ \A i \in DOMAIN s.plan : s.plan[i] \in s.prepared /\ Step(s, i).out \subseteq s.allocated

Short(g, s) == Len(s.plan) <= Len(g.ops)

LEMMA SizesKnown ==
  ASSUME NEW s, Base(graph, s)
  PROVE  HasDynamicTensors(s) <=> ~ AllSized(graph, s)
BY DEF HasDynamicTensors, AllSized, IsUnsized, Step

LEMMA LastPrepared ==
  ASSUME NEW s, Base(graph, s), NEW first \in Nat \ {0}
  PROVE  /\ LastToPrepare(s, first) \in Nat
         /\ LastToPrepare(s, first) <= Len(s.plan)
         /\ AllSized(graph, s) => LastToPrepare(s, first) = Len(s.plan)
<1> DEFINE stops == {i \in first..Len(s.plan) : IsUnsized(s.nodes[s.plan[i]])}
<1>1. LastToPrepare(s, first) =
        IF stops = {} THEN Len(s.plan) ELSE CHOOSE i \in stops : \A j \in stops : i <= j
  BY DEF LastToPrepare
<1>2. Len(s.plan) \in Nat /\ DOMAIN s.plan = 1..Len(s.plan)
  BY BaseFacts
<1>3. AllSized(graph, s) => stops = {}
  <2>1. \A i \in first..Len(s.plan) : i \in DOMAIN s.plan
    BY <1>2
  <2>2. AllSized(graph, s) => \A i \in DOMAIN s.plan : ~ IsUnsized(s.nodes[s.plan[i]])
    BY DEF AllSized, IsUnsized, Step
  <2> QED BY <2>1, <2>2
<1>4. stops \in SUBSET Nat /\ \A i \in stops : i <= Len(s.plan)
  BY <1>2
<1> HIDE DEF stops
<1>5. stops # {} => \E i \in stops : \A j \in stops : i <= j
  BY <1>4, LeastExists
<1>6. CASE stops = {}
  BY <1>1, <1>2, <1>6
<1>7. CASE stops # {}
  <2>1. LastToPrepare(s, first) \in stops
    BY <1>1, <1>5, <1>7
  <2> QED BY <2>1, <1>3, <1>4, <1>7
<1> QED BY <1>6, <1>7

\* A subgraph that memory can be given to.
Sound(g, s) == Base(g, s) /\ MemoryTypes(g, s) /\ Short(g, s)

LEMMA SoundKept ==
  ASSUME NEW g, NEW s, NEW q, Sound(g, s), SameSchedule(s, q), MemoryTypes(g, q)
  PROVE  Sound(g, q)
<1>1. Base(g, q)
  BY SameScheduleKeeps DEF Sound
<1> QED BY <1>1 DEF Sound, Short, SameSchedule

\* What preparing and allocating may do to a subgraph s.
Prepared(g, s, q) ==
  /\ SameSchedule(s, q) /\ MemoryTypes(g, q) /\ q.state = s.state
  /\ s.prepared \subseteq q.prepared
  /\ s.hasPlanner => q.hasPlanner /\ s.allocated \subseteq q.allocated

LEMMA PrepareStartingKeeps ==
  ASSUME NEW s, Sound(graph, s), NEW first \in Nat \ {0}, NEW faults,
         NEW r, r = PrepareOpsStartingAt(s, first, faults)
  PROVE  /\ r.ok \in BOOLEAN
         /\ Prepared(graph, s, r.s)
         /\ r.s.nextPrepare = s.nextPrepare /\ r.s.hasPlanner = s.hasPlanner
         /\ r.s.lifetimes = s.lifetimes /\ r.s.allocated = s.allocated
         /\ r.ok /\ first = 1 /\ AllSized(graph, s) =>
              \A i \in DOMAIN s.plan : s.plan[i] \in r.s.prepared
<1> DEFINE last == LastToPrepare(s, first)
           bad == {i \in first..last : "prepare" \in faults /\ s.nodes[s.plan[i]].by # NoDelegate}
           more == {s.plan[i] : i \in {j \in first..last : \A k \in bad : j < k}}
<1>1. r = [ok |-> bad = {}, s |-> [s EXCEPT !.prepared = @ \union more]]
  BY DEF PrepareOpsStartingAt
<1>2. Base(graph, s) /\ MemoryTypes(graph, s)
  BY DEF Sound
<1>3. last \in Nat /\ last <= Len(s.plan) /\ (AllSized(graph, s) => last = Len(s.plan))
  BY <1>2, LastPrepared
<1>4. Len(s.plan) \in Nat /\ DOMAIN s.plan = 1..Len(s.plan)
      /\ \A i \in DOMAIN s.plan : s.plan[i] \in DOMAIN s.nodes
  BY <1>2, BaseFacts
<1> HIDE DEF last
<1>5. more \in SUBSET DOMAIN s.nodes
  <2>1. \A i \in first..last : i \in DOMAIN s.plan
    BY <1>3, <1>4
  <2> QED BY <2>1, <1>4
<1>6. bad = {} /\ first = 1 /\ AllSized(graph, s) => \A i \in DOMAIN s.plan : s.plan[i] \in more
  <2> SUFFICES ASSUME bad = {}, first = 1, AllSized(graph, s), NEW i \in DOMAIN s.plan
               PROVE  s.plan[i] \in more
    OBVIOUS
  <2>1. i \in first..last
    BY <1>3, <1>4
  <2> QED BY <2>1
<1> HIDE DEF bad, more
<1>7. DOMAIN s = Fields
  BY <1>2 DEF Base
<1>8. SameSchedule(s, r.s)
  BY <1>1, <1>7 DEF SameSchedule, Fields
<1>9. /\ r.s.state = s.state /\ r.s.nextPrepare = s.nextPrepare /\ r.s.hasPlanner = s.hasPlanner
      /\ r.s.lifetimes = s.lifetimes /\ r.s.allocated = s.allocated
      /\ r.s.prepared = s.prepared \union more /\ r.s.nodes = s.nodes
      /\ r.ok = (bad = {})
  BY <1>1, <1>7 DEF Fields
<1>10. MemoryTypes(graph, r.s)
  BY <1>2, <1>5, <1>9 DEF MemoryTypes
<1> QED BY <1>6, <1>8, <1>9, <1>10 DEF Prepared

LEMMA LifetimesType ==
  ASSUME NEW g, NEW s, Base(g, s)
  PROVE  /\ Lifetimes(s) \in Seq(SUBSET TensorsOf(g))
         /\ DOMAIN Lifetimes(s) = DOMAIN s.plan
         /\ \A i \in DOMAIN s.plan : Lifetimes(s)[i] = Step(s, i).out
<1>1. Len(s.plan) \in Nat /\ DOMAIN s.plan = 1..Len(s.plan)
      /\ \A i \in DOMAIN s.plan : Step(s, i) \in Nodes(g)
  BY BaseFacts
<1>2. Lifetimes(s) = [i \in 1..Len(s.plan) |-> Step(s, i).out]
  BY <1>1 DEF Lifetimes, Step
<1>3. \A i \in 1..Len(s.plan) : Step(s, i).out \in SUBSET TensorsOf(g)
  BY <1>1 DEF Nodes
<1> QED BY <1>1, <1>2, <1>3

LEMMA PlanAllocationsKeeps ==
  ASSUME NEW g, NEW s, Base(g, s), MemoryTypes(g, s), NEW q, q = PlanAllocations(s)
  PROVE  /\ SameSchedule(s, q) /\ MemoryTypes(g, q) /\ q.state = s.state
         /\ q.prepared = s.prepared /\ q.nextPrepare = s.nextPrepare
         /\ q.hasPlanner /\ q.lifetimes = Lifetimes(q)
<1>1. q = [s EXCEPT !.hasPlanner = TRUE, !.lifetimes = Lifetimes(s), !.allocated = {}]
  BY DEF PlanAllocations
<1>2. DOMAIN s = Fields
  BY DEF Base
<1>3. /\ SameSchedule(s, q) /\ q.state = s.state /\ q.prepared = s.prepared
      /\ q.nextPrepare = s.nextPrepare /\ q.hasPlanner = TRUE
      /\ q.lifetimes = Lifetimes(s) /\ q.allocated = {} /\ q.nodes = s.nodes
  BY <1>1, <1>2 DEF SameSchedule, Fields
<1>4. Lifetimes(s) = Lifetimes(q)
  BY <1>3 DEF Lifetimes, SameSchedule
<1>5. MemoryTypes(g, q)
  BY <1>3, LifetimesType, ZenonT(40) DEF MemoryTypes
<1> QED BY <1>3, <1>4, <1>5

LEMMA EnsurePlannerKeeps ==
  ASSUME NEW g, NEW s, Base(g, s), MemoryTypes(g, s), NEW q, q = EnsurePlanner(s)
  PROVE  /\ Prepared(g, s, q) /\ q.prepared = s.prepared /\ q.nextPrepare = s.nextPrepare
         /\ q.hasPlanner
         /\ (s.hasPlanner => s.lifetimes = Lifetimes(s)) => q.lifetimes = Lifetimes(q)
<1>1. CASE s.hasPlanner
  <2>1. q = s
    BY <1>1 DEF EnsurePlanner
  <2> QED BY <2>1, <1>1 DEF Prepared, SameSchedule
<1>2. CASE ~ s.hasPlanner
  <2>1. q = PlanAllocations(s)
    BY <1>2 DEF EnsurePlanner
  <2> QED BY <2>1, <1>2, PlanAllocationsKeeps DEF Prepared
<1> QED BY <1>1, <1>2

LEMMA ExecuteKeeps ==
  ASSUME graph \in Graphs, NEW s, Base(graph, s), MemoryTypes(graph, s), s.hasPlanner,
         NEW last, NEW faults, NEW r, r = ExecuteAllocations(s, last, faults)
  PROVE  /\ r.ok \in BOOLEAN /\ Prepared(graph, s, r.s) /\ r.s.prepared = s.prepared
         /\ r.s.nextPrepare = s.nextPrepare
         /\ r.ok /\ s.lifetimes = Lifetimes(s) /\ last = Len(s.plan) =>
              /\ graph.inputs \subseteq r.s.allocated
              /\ \A i \in DOMAIN s.plan : Step(s, i).out \subseteq r.s.allocated
<1> DEFINE some == {j \in DOMAIN s.lifetimes : j <= last}
           more == UNION {s.lifetimes[i] : i \in some}
           q == [s EXCEPT !.allocated = @ \union graph.inputs \union more]
<1>1. r.ok = ("memory" \notin faults) /\ r.s = IF "memory" \in faults THEN s ELSE q
  BY DEF ExecuteAllocations
<1>2. DOMAIN s = Fields
  BY DEF Base
<1>3. /\ SameSchedule(s, q) /\ q.state = s.state /\ q.hasPlanner = s.hasPlanner
      /\ q.lifetimes = s.lifetimes /\ q.prepared = s.prepared /\ q.nextPrepare = s.nextPrepare
      /\ q.nodes = s.nodes /\ q.allocated = s.allocated \union graph.inputs \union more
  BY <1>2 DEF SameSchedule, Fields
<1>4. more \in SUBSET TensorsOf(graph)
  <2>1. s.lifetimes \in Seq(SUBSET TensorsOf(graph))
    BY DEF MemoryTypes
  <2>2. \A i \in some : s.lifetimes[i] \in SUBSET TensorsOf(graph)
    BY <2>1
  <2> HIDE DEF some
  <2> QED BY <2>2
<1>5. s.lifetimes = Lifetimes(s) /\ last = Len(s.plan) =>
        \A i \in DOMAIN s.plan : Step(s, i).out \subseteq more
  <2> SUFFICES ASSUME s.lifetimes = Lifetimes(s), last = Len(s.plan), NEW i \in DOMAIN s.plan
               PROVE  Step(s, i).out \subseteq more
    OBVIOUS
  <2>1. DOMAIN s.lifetimes = DOMAIN s.plan /\ s.lifetimes[i] = Step(s, i).out
    BY LifetimesType
  <2>2. DOMAIN s.plan = 1..Len(s.plan) /\ Len(s.plan) \in Nat
    BY BaseFacts
  <2>3. i \in some
    BY <2>1, <2>2
  <2> HIDE DEF some
  <2> QED BY <2>1, <2>3
<1> HIDE DEF q, more
<1>6. MemoryTypes(graph, q)
  <2>1. graph.inputs \in SUBSET TensorsOf(graph)
    BY DEF TensorsOf
  <2> QED BY <2>1, <1>3, <1>4 DEF MemoryTypes
<1>7. Prepared(graph, s, q) /\ Prepared(graph, s, s)
  BY <1>3, <1>6 DEF Prepared, SameSchedule
<1> QED BY <1>1, <1>3, <1>5, <1>7

LEMMA PreparedTwice ==
  ASSUME NEW g, NEW s, NEW q, NEW z, Prepared(g, s, q), Prepared(g, q, z)
  PROVE  Prepared(g, s, z)
BY DEF Prepared, SameSchedule

LEMMA PrepareTensorsKeeps ==
  ASSUME graph \in Graphs, NEW s, Sound(graph, s), NEW faults,
         NEW r, r = PrepareOpsAndTensors(s, faults)
  PROVE  /\ r.ok \in BOOLEAN /\ Prepared(graph, s, r.s)
         /\ /\ r.ok /\ s.nextPrepare = 1 /\ AllSized(graph, s)
            /\ s.hasPlanner => s.lifetimes = Lifetimes(s)
            => Served(graph, r.s)
<1> DEFINE last == LastToPrepare(s, s.nextPrepare)
           a == PrepareOpsStartingAt(s, s.nextPrepare, faults)
           b == [a.s EXCEPT !.nextPrepare = last + 1]
           c == EnsurePlanner(b)
<1>1. /\ ~ a.ok => r = a
      /\ a.ok => r = ExecuteAllocations(c, last, faults)
  BY DEF PrepareOpsAndTensors, AllocatePrepared
<1>2. Base(graph, s) /\ MemoryTypes(graph, s) /\ Len(s.plan) <= Len(graph.ops)
  BY DEF Sound, Short
<1>3. s.nextPrepare \in Nat \ {0}
  <2>1. Len(graph.ops) \in Nat
    BY GraphFacts
  <2>2. s.nextPrepare \in 1..(Len(graph.ops) + 1)
    BY <1>2 DEF MemoryTypes
  <2> QED BY <2>1, <2>2
<1>4. /\ last \in Nat /\ last <= Len(s.plan)
      /\ AllSized(graph, s) => last = Len(s.plan)
  BY <1>2, <1>3, LastPrepared
<1>5. /\ a.ok \in BOOLEAN
      /\ Prepared(graph, s, a.s)
      /\ a.s.hasPlanner = s.hasPlanner /\ a.s.lifetimes = s.lifetimes
      /\ a.ok /\ s.nextPrepare = 1 /\ AllSized(graph, s) =>
           \A i \in DOMAIN s.plan : s.plan[i] \in a.s.prepared
  <2> HIDE DEF a
  <2> SUFFICES a = PrepareOpsStartingAt(s, s.nextPrepare, faults)
    BY <1>3, PrepareStartingKeeps
  <2> QED BY DEF a
<1> HIDE DEF a, last
<1>6. SameSchedule(s, a.s) /\ MemoryTypes(graph, a.s) /\ a.s.state = s.state
  BY <1>5 DEF Prepared
<1>7. DOMAIN a.s = Fields /\ Base(graph, a.s)
  <2>1. Base(graph, a.s)
    BY <1>2, <1>6, SameScheduleKeeps
  <2> QED BY <2>1 DEF Base
<1>8. /\ SameSchedule(a.s, b) /\ b.state = a.s.state /\ b.hasPlanner = a.s.hasPlanner
      /\ b.lifetimes = a.s.lifetimes /\ b.allocated = a.s.allocated
      /\ b.prepared = a.s.prepared /\ b.nextPrepare = last + 1 /\ b.nodes = a.s.nodes
  BY <1>7 DEF SameSchedule, Fields
<1> HIDE DEF b
<1>9. MemoryTypes(graph, b)
  <2>1. last + 1 \in 1..(Len(graph.ops) + 1)
    BY <1>2, <1>4, GraphFacts, BaseFacts
  <2> QED BY <2>1, <1>6, <1>8 DEF MemoryTypes
<1>10. Base(graph, b) /\ Prepared(graph, a.s, b)
  BY <1>7, <1>8, <1>9, SameScheduleKeeps DEF Prepared
<1>11. /\ Prepared(graph, b, c) /\ c.prepared = b.prepared /\ c.hasPlanner
       /\ (b.hasPlanner => b.lifetimes = Lifetimes(b)) => c.lifetimes = Lifetimes(c)
  <2> HIDE DEF c
  <2> SUFFICES c = EnsurePlanner(b)
    BY <1>9, <1>10, EnsurePlannerKeeps
  <2> QED BY DEF c
<1> HIDE DEF c
<1>12. SameSchedule(b, c) /\ MemoryTypes(graph, c) /\ Base(graph, c)
  BY <1>10, <1>11, SameScheduleKeeps DEF Prepared
<1>13. CASE ~ a.ok
  BY <1>13, <1>1, <1>5
<1>14. CASE a.ok
  <2>1. r = ExecuteAllocations(c, last, faults)
    BY <1>1, <1>14
  <2>2. /\ r.ok \in BOOLEAN /\ Prepared(graph, c, r.s) /\ r.s.prepared = c.prepared
        /\ r.ok /\ c.lifetimes = Lifetimes(c) /\ last = Len(c.plan) =>
              /\ graph.inputs \subseteq r.s.allocated
              /\ \A i \in DOMAIN c.plan : Step(c, i).out \subseteq r.s.allocated
    BY <2>1, <1>11, <1>12, ExecuteKeeps
  <2>3. Prepared(graph, s, r.s)
    BY <2>2, <1>5, <1>10, <1>11, PreparedTwice
  <2>4. ASSUME r.ok, s.nextPrepare = 1, AllSized(graph, s),
               s.hasPlanner => s.lifetimes = Lifetimes(s)
        PROVE  Served(graph, r.s)
    <3>1. c.plan = s.plan /\ b.plan = s.plan /\ b.nodes = s.nodes
      BY <1>6, <1>8, <1>12 DEF SameSchedule
    <3>2. Lifetimes(b) = Lifetimes(s)
      BY <3>1 DEF Lifetimes
    <3>3. c.lifetimes = Lifetimes(c)
      BY <2>4, <3>2, <1>5, <1>8, <1>11
    <3>4. /\ graph.inputs \subseteq r.s.allocated
          /\ \A i \in DOMAIN c.plan : Step(c, i).out \subseteq r.s.allocated
      BY <2>2, <2>4, <3>1, <3>3, <1>4
    <3>5. SameSchedule(c, r.s) /\ r.s.hasPlanner
      BY <2>2, <1>11 DEF Prepared
    <3>6. r.s.plan = c.plan /\ \A i : Step(r.s, i) = Step(c, i)
      BY <3>5 DEF SameSchedule, Step
    <3>7. \A i \in DOMAIN s.plan : s.plan[i] \in r.s.prepared
      BY <2>2, <2>4, <1>5, <1>8, <1>11, <1>14
    <3> QED BY <3>1, <3>4, <3>5, <3>6, <3>7 DEF Served
  <2> QED BY <2>2, <2>3, <2>4
<1> QED BY <1>5, <1>13, <1>14

\* AllocateTensors gives memory to a subgraph that has none.
LEMMA AllocateRedoneKeeps ==
  ASSUME graph \in Graphs, NEW s, Sound(graph, s), NEW faults,
         NEW r, r = AllocateRedone(s, faults)
  PROVE  /\ r.ok \in BOOLEAN /\ SameSchedule(s, r.s) /\ MemoryTypes(graph, r.s)
         /\ s.state # "uninvokable" => r.s = s
         /\ s.state = "uninvokable" =>
              /\ r.s.state # "immutable"
              /\ /\ r.ok /\ AllSized(graph, s)
                 /\ s.hasPlanner => s.lifetimes = Lifetimes(s)
                 => Served(graph, r.s)
<1>1. CASE s.state # "uninvokable"
  <2>1. r = [ok |-> TRUE, s |-> s]
    BY <1>1 DEF AllocateRedone
  <2> QED BY <2>1, <1>1 DEF SameSchedule, Sound
<1>2. CASE s.state = "uninvokable"
  <2> DEFINE b == [s EXCEPT !.nextPrepare = 1, !.prepared = {}, !.allocated = {}]
             a == PrepareOpsAndTensors(b, faults)
  <2>1. r = MakeInvokable(a)
    BY <1>2 DEF AllocateRedone
  <2>2. DOMAIN s = Fields /\ MemoryTypes(graph, s)
    BY DEF Sound, Base
  <2>3. /\ SameSchedule(s, b) /\ b.state = s.state /\ b.hasPlanner = s.hasPlanner
        /\ b.lifetimes = s.lifetimes /\ b.allocated = {} /\ b.prepared = {}
        /\ b.nextPrepare = 1 /\ b.nodes = s.nodes
    BY <2>2 DEF SameSchedule, Fields
  <2> HIDE DEF b
  <2>4. MemoryTypes(graph, b)
    <3>1. 1 \in 1..(Len(graph.ops) + 1)
      BY GraphFacts
    <3> QED BY <3>1, <2>2, <2>3 DEF MemoryTypes
  <2>5. Sound(graph, b)
    BY <2>3, <2>4, SoundKept
  <2>6. /\ a.ok \in BOOLEAN /\ Prepared(graph, b, a.s)
        /\ /\ a.ok /\ b.nextPrepare = 1 /\ AllSized(graph, b)
           /\ b.hasPlanner => b.lifetimes = Lifetimes(b)
           => Served(graph, a.s)
    <3> HIDE DEF a
    <3> SUFFICES a = PrepareOpsAndTensors(b, faults)
      BY <2>5, PrepareTensorsKeeps
    <3> QED BY DEF a
  <2> HIDE DEF a
  <2>7. SameSchedule(s, a.s) /\ MemoryTypes(graph, a.s) /\ a.s.state = "uninvokable"
    BY <2>3, <2>6, <1>2 DEF Prepared, SameSchedule
  <2>8. a.ok /\ AllSized(graph, s) /\ (s.hasPlanner => s.lifetimes = Lifetimes(s))
          => Served(graph, a.s)
    <3>1. AllSized(graph, s) => AllSized(graph, b)
      BY <2>3, SameScheduleKeeps
    <3>2. Lifetimes(b) = Lifetimes(s)
      BY <2>3 DEF Lifetimes, SameSchedule
    <3> QED BY <3>1, <3>2, <2>3, <2>6
  <2>9. CASE ~ a.ok
    <3>1. r = a
      BY <2>1, <2>9 DEF MakeInvokable
    <3> QED BY <3>1, <2>6, <2>7, <2>9, <1>2
  <2>10. CASE a.ok
    <3>1. r = [a EXCEPT !.s.state = "invokable"]
      BY <2>1, <2>10 DEF MakeInvokable
    <3>2. DOMAIN a.s = Fields /\ a = [ok |-> a.ok, s |-> a.s]
      <4>1. DOMAIN a.s = Fields
        BY <2>2, <2>7 DEF SameSchedule
      <4>2. DOMAIN a = {"ok", "s"} /\ a = [x \in {"ok", "s"} |-> a[x]]
        BY DEF a, PrepareOpsAndTensors, AllocatePrepared, PrepareOpsStartingAt, ExecuteAllocations
      <4> QED BY <4>1, <4>2
    <3>3. r.ok = a.ok /\ r.s = [a.s EXCEPT !.state = "invokable"]
      BY <3>1, <3>2, <2>10
    <3>4. /\ SameSchedule(a.s, r.s) /\ r.s.state = "invokable" /\ r.s.hasPlanner = a.s.hasPlanner
          /\ r.s.lifetimes = a.s.lifetimes /\ r.s.allocated = a.s.allocated
          /\ r.s.prepared = a.s.prepared /\ r.s.nextPrepare = a.s.nextPrepare
          /\ r.s.nodes = a.s.nodes
      BY <3>2, <3>3 DEF SameSchedule, Fields
    <3>5. MemoryTypes(graph, r.s) /\ SameSchedule(s, r.s)
      BY <3>4, <2>7 DEF MemoryTypes, SameSchedule
    <3>6. Served(graph, a.s) => Served(graph, r.s)
      BY <3>4 DEF Served, SameSchedule, Step
    <3>7. r.ok \in BOOLEAN /\ r.s.state # "immutable"
      BY <3>3, <3>4, <2>6
    <3>8. a.ok
      BY <2>10
    <3> QED BY <3>5, <3>6, <3>7, <3>8, <2>8, <1>2
  <2> QED BY <2>6, <2>9, <2>10
<1> QED BY <1>1, <1>2

LEMMA EnsureMemoryKeeps ==
  ASSUME graph \in Graphs, NEW s, Sound(graph, s), NEW faults,
         NEW r, r = EnsureMemoryAllocations(s, faults)
  PROVE  /\ r.ok \in BOOLEAN /\ SameSchedule(s, r.s) /\ MemoryTypes(graph, r.s)
         /\ s.state # "immutable" => r.s.state # "immutable"
         /\ s.state = "uninvokable" /\ r.ok /\ AllSized(graph, s) => Served(graph, r.s)
<1>1. CASE s.hasPlanner
  <2> DEFINE a == [s EXCEPT !.state = "uninvokable"]
             b == PlanAllocations(a)
  <2>1. r = AllocateRedone(b, faults)
    BY <1>1 DEF EnsureMemoryAllocations
  <2>2. DOMAIN s = Fields /\ MemoryTypes(graph, s)
    BY DEF Sound, Base
  <2>3. /\ SameSchedule(s, a) /\ a.state = "uninvokable" /\ a.hasPlanner = s.hasPlanner
        /\ a.lifetimes = s.lifetimes /\ a.allocated = s.allocated /\ a.prepared = s.prepared
        /\ a.nextPrepare = s.nextPrepare /\ a.nodes = s.nodes
    BY <2>2 DEF SameSchedule, Fields
  <2> HIDE DEF a
  <2>4. MemoryTypes(graph, a)
    BY <2>2, <2>3 DEF MemoryTypes
  <2>5. Sound(graph, a) /\ Base(graph, a)
    BY <2>3, <2>4, SoundKept DEF Sound
  <2>6. /\ SameSchedule(a, b) /\ MemoryTypes(graph, b) /\ b.state = a.state
        /\ b.lifetimes = Lifetimes(b)
    <3> HIDE DEF b
    <3> SUFFICES b = PlanAllocations(a)
      BY <2>4, <2>5, PlanAllocationsKeeps
    <3> QED BY DEF b
  <2> HIDE DEF b
  <2>7. SameSchedule(s, b) /\ Sound(graph, b) /\ b.state = "uninvokable"
    BY <2>3, <2>5, <2>6, SoundKept DEF SameSchedule
  <2>8. /\ r.ok \in BOOLEAN /\ SameSchedule(b, r.s) /\ MemoryTypes(graph, r.s)
        /\ r.s.state # "immutable"
        /\ r.ok /\ AllSized(graph, b) => Served(graph, r.s)
    BY <2>1, <2>6, <2>7, AllocateRedoneKeeps
  <2>9. SameSchedule(s, r.s)
    BY <2>7, <2>8 DEF SameSchedule
  <2>10. AllSized(graph, s) => AllSized(graph, b)
    BY <2>7, SameScheduleKeeps
  <2> QED BY <2>8, <2>9, <2>10
<1>2. CASE ~ s.hasPlanner
  <2>1. r = AllocateRedone(s, faults)
    BY <1>2 DEF EnsureMemoryAllocations
  <2> QED BY <2>1, <1>2, AllocateRedoneKeeps
<1> QED BY <1>1, <1>2

-----------------------------------------------------------------------------
(* The plan of the model, and the way back to it.                          *)

LEMMA IndicesFacts ==
  ASSUME NEW n \in Nat
  PROVE  /\ Indices(n) \in Seq(Nat) /\ Len(Indices(n)) = n /\ DOMAIN Indices(n) = 1..n
         /\ \A i \in 1..n : Indices(n)[i] = i
BY DEF Indices

LEMMA OneElement ==
  ASSUME NEW S, NEW x \in S
  PROVE  <<x>> \in Seq(S) /\ Len(<<x>>) = 1 /\ DOMAIN <<x>> = 1..1 /\ <<x>>[1] = x
OBVIOUS

LEMMA OpNodeNames ==
  ASSUME NEW g \in Graphs, NEW a \in DOMAIN g.ops
  PROVE  OpNode(g, a) \in Nodes(g) /\ Names(g, OpNode(g, a))
<1> DEFINE node == OpNode(g, a)
<1>1. /\ node.in = g.ops[a].in /\ node.out = g.ops[a].out /\ node.live = TRUE
      /\ node.effect = HasEffect(g, g.ops[a].in, g.ops[a].out)
      /\ node.by = NoDelegate /\ node.runs = <<a>>
  BY DEF OpNode
<1>2. \A b : RunsOp(node, b) <=> b = a
  BY <1>1 DEF RunsOp
<1>3. node \in Nodes(g)
  <2>1. g.ops[a].in \in SUBSET TensorsOf(g) /\ g.ops[a].out \in SUBSET TensorsOf(g)
    BY GraphFacts
  <2>2. HasEffect(g, g.ops[a].in, g.ops[a].out) \in BOOLEAN
    BY DEF HasEffect
  <2>3. <<a>> \in Seq(DOMAIN g.ops)
    BY OneElement
  <2> DEFINE i == g.ops[a].in
             o == g.ops[a].out
             e == HasEffect(g, i, o)
             w == <<a>>
  <2>4. node = [in |-> i, out |-> o, effect |-> e, by |-> NoDelegate, runs |-> w, live |-> TRUE]
    BY DEF OpNode
  <2> HIDE DEF i, o, e, w, node
  <2> QED BY <2>1, <2>2, <2>3, <2>4 DEF Nodes, i, o, e, w
<1> HIDE DEF node
<1>4. g.ops[a].in \intersect g.ops[a].out = {}
  <2>1. Len(g.ops) \in Nat /\ a \in 1..Len(g.ops)
    BY GraphFacts
  <2>2. g.ops[a].out \intersect g.ops[a].in # {} => a < a
    BY GraphFacts
  <2> QED BY <2>1, <2>2
<1>5. Names(g, node)
  <2>1. node.live /\ node.runs # << >>
    BY <1>1
  <2>2. \A t : (Reads(g, node, t) <=> t \in node.in) /\ (Makes(g, node, t) <=> t \in node.out)
    BY <1>1, <1>2 DEF Reads, Makes
  <2> QED BY <2>1, <2>2, <1>1, <1>4 DEF Names
<1> QED BY <1>3, <1>5 DEF node

LEMMA OriginalScheduled ==
  ASSUME NEW g \in Graphs, NEW s, Base(g, s), s.plan = Indices(Len(g.ops))
  PROVE  Scheduled(g, s) /\ Short(g, s)
<1> DEFINE n == Len(g.ops)
<1>1. n \in Nat /\ DOMAIN g.ops = 1..n
  BY GraphFacts
<1>2. DOMAIN s.plan = 1..n /\ Len(s.plan) = n /\ \A i \in 1..n : s.plan[i] = i
  BY <1>1, IndicesFacts
<1>3. \A i \in 1..n : Step(s, i) = OpNode(g, i)
  BY <1>1, <1>2 DEF Step, Base
<1>4. \A i \in 1..n : Step(s, i).runs = <<i>>
  BY <1>3 DEF OpNode
<1>5. \A i \in 1..n : Names(g, Step(s, i)) /\ Origin(g, Step(s, i))
  <2>1. \A i \in 1..n : Names(g, Step(s, i))
    BY <1>1, <1>3, OpNodeNames
  <2>2. \A i \in 1..n : Step(s, i).by = NoDelegate
    BY <1>3 DEF OpNode
  <2> QED BY <2>1, <2>2, <1>1, <1>3 DEF Origin
<1>6. \A i \in 1..n : DOMAIN Step(s, i).runs = {1} /\ Step(s, i).runs[1] = i
  BY <1>4
<1>7. \A a \in DOMAIN g.ops : \E i \in DOMAIN s.plan : RunsOp(Step(s, i), a)
  BY <1>1, <1>2, <1>6 DEF RunsOp
<1> HIDE DEF n
<1>8. ASSUME NEW i \in 1..n, NEW k \in 1..n, NEW j \in DOMAIN Step(s, i).runs,
             NEW l \in DOMAIN Step(s, k).runs
      PROVE  /\ Step(s, i).runs[j] = Step(s, k).runs[l] => i = k /\ j = l
             /\ OpMustPrecede(g, Step(s, i).runs[j], Step(s, k).runs[l]) => Earlier(i, j, k, l)
  <2>1. j = 1 /\ l = 1 /\ Step(s, i).runs[j] = i /\ Step(s, k).runs[l] = k
    BY <1>6, <1>8
  <2> QED BY <2>1 DEF OpMustPrecede, Earlier
<1>9. Scheduled(g, s)
  BY <1>2, <1>5, <1>7, <1>8 DEF Scheduled
<1>10. Short(g, s)
  BY <1>1, <1>2 DEF Short, n
<1> QED BY <1>9, <1>10

LEMMA UndoRestores ==
  ASSUME NEW g \in Graphs, NEW s, Base(g, s), MemoryTypes(g, s), s.pre = Indices(Len(g.ops)),
         NEW q, q = UndoAllDelegates(s)
  PROVE  /\ Base(g, q) /\ MemoryTypes(g, q) /\ Original(g, q)
         /\ q.undone /\ q.applied = s.applied /\ q.state = "uninvokable"
<1> DEFINE n == Len(g.ops)
           Freed(i) == IF i \in Range(s.plan) /\ s.nodes[i].by # NoDelegate
                       THEN [s.nodes[i] EXCEPT !.live = FALSE] ELSE s.nodes[i]
           freed == [i \in DOMAIN s.nodes |-> Freed(i)]
           max == CHOOSE i \in Range(s.pre) : \A j \in Range(s.pre) : j <= i
           z == [s EXCEPT !.plan = s.pre, !.pre = << >>, !.nodes = SubSeq(freed, 1, max),
                          !.prepared = @ \intersect 1..max, !.state = "uninvokable",
                          !.undone = TRUE]
<1>1. n \in Nat /\ n >= 1 /\ DOMAIN g.ops = 1..n
  BY GraphFacts
<1>2. /\ Indices(n) \in Seq(Nat) /\ Len(Indices(n)) = n /\ DOMAIN Indices(n) = 1..n
      /\ \A i \in 1..n : Indices(n)[i] = i
  BY <1>1, IndicesFacts
<1>3. s.pre # << >>
  <2>1. DOMAIN << >> = {} /\ 1 \in 1..n
    BY <1>1
  <2> QED BY <2>1, <1>2
<1>4. q = z
  BY <1>3 DEF UndoAllDelegates
<1>5. Range(s.pre) = 1..n
  BY <1>1, <1>2 DEF Range
<1>6. max = n
  <2>1. \E i \in Range(s.pre) : \A j \in Range(s.pre) : j <= i
    BY <1>1, <1>5
  <2>2. max \in 1..n /\ \A j \in 1..n : j <= max
    BY <2>1, <1>5
  <2> HIDE DEF max, n
  <2> QED BY <2>2, <1>1
<1>7. /\ Len(s.nodes) \in Nat /\ DOMAIN s.nodes = 1..Len(s.nodes) /\ n <= Len(s.nodes)
      /\ \A i \in DOMAIN s.nodes : s.nodes[i] \in Nodes(g)
      /\ \A i \in DOMAIN g.ops : s.nodes[i] = OpNode(g, i)
  BY BaseFacts DEF Base
<1>8. ASSUME NEW i \in DOMAIN s.nodes
      PROVE  Freed(i) \in Nodes(g) /\ (s.nodes[i].by = NoDelegate => Freed(i) = s.nodes[i])
  BY <1>7 DEF Nodes
<1>9. \A i \in DOMAIN g.ops : Freed(i) = OpNode(g, i)
  <2>1. \A i \in DOMAIN g.ops : OpNode(g, i).by = NoDelegate
    BY DEF OpNode
  <2> HIDE DEF Freed
  <2> QED BY <2>1, <1>1, <1>7, <1>8
<1> DEFINE nodes == SubSeq(freed, 1, max)
<1>10. nodes \in Seq(Nodes(g)) /\ Len(nodes) = n /\ DOMAIN nodes = 1..n
       /\ \A i \in 1..n : nodes[i] = OpNode(g, i)
  <2> HIDE DEF Freed, max, n
  <2>1. freed \in Seq(Nodes(g)) /\ Len(freed) = Len(s.nodes)
    BY <1>7, <1>8
  <2>2. \A i \in 1..n : freed[i] = OpNode(g, i)
    BY <1>1, <1>7, <1>9
  <2> HIDE DEF freed
  <2>3. 1 \in 1..(Len(freed) + 1) /\ n \in (1 - 1)..Len(freed)
    BY <2>1, <1>1, <1>7
  <2>4. /\ SubSeq(freed, 1, n) \in Seq(Nodes(g))
        /\ Len(SubSeq(freed, 1, n)) = n
        /\ \A i \in 1..n : SubSeq(freed, 1, n)[i] = freed[i]
    <3>1. \A i \in 1..(n - 1 + 1) : i \in 1..n /\ 1 + i - 1 = i
      BY <1>1
    <3>2. n - 1 + 1 = n
      BY <1>1
    <3> QED BY <2>1, <2>3, <3>1, <3>2, <1>1, <1>7, SubSeqProperties
  <2> QED BY <2>2, <2>4, <1>6
<1> HIDE DEF nodes
<1>11. DOMAIN s = Fields
  BY DEF Base
<1>12. /\ DOMAIN z = Fields /\ z.plan = s.pre /\ z.pre = << >> /\ z.nodes = nodes
       /\ z.prepared = s.prepared \intersect (1..max) /\ z.state = "uninvokable"
       /\ z.undone = TRUE
       /\ z.applied = s.applied /\ z.marks = s.marks /\ z.hasPlanner = s.hasPlanner
       /\ z.lifetimes = s.lifetimes /\ z.allocated = s.allocated
       /\ z.nextPrepare = s.nextPrepare
  BY <1>11 DEF Fields, nodes
<1> HIDE DEF z, max
<1>13. z.plan \in Seq(DOMAIN z.nodes)
  <2>1. \A i \in 1..n : Indices(n)[i] \in 1..n
    BY <1>2
  <2>2. Indices(n) \in Seq(1..n)
    <3> HIDE DEF n
    <3> QED BY <2>1, <1>1, <1>2
  <2> QED BY <2>2, <1>10, <1>12
<1>14. Base(g, z)
  <2>1. s.applied \in Seq(Delegates) /\ s.marks \in [TensorsOf(g) -> Delegates \union {NoDelegate}]
    BY DEF Base
  <2>2. z.nodes \in Seq(Nodes(g)) /\ Len(g.ops) <= Len(z.nodes) /\ z.undone \in BOOLEAN
    <3>1. z.nodes \in Seq(Nodes(g))
      BY <1>10, <1>12
    <3>2. Len(g.ops) <= Len(z.nodes)
      BY <1>1, <1>10, <1>12
    <3>3. z.undone \in BOOLEAN
      BY <1>12
    <3> QED BY <3>1, <3>2, <3>3
  <2>3. \A i \in DOMAIN g.ops : z.nodes[i] = OpNode(g, i)
    BY <1>1, <1>10, <1>12
  <2> HIDE DEF n
  <2> QED BY <2>1, <2>2, <2>3, <1>12, <1>13 DEF Base
<1>15. MemoryTypes(g, z)
  <2>1. z.prepared \in SUBSET DOMAIN z.nodes
    BY <1>6, <1>10, <1>12
  <2> QED BY <2>1, <1>12 DEF MemoryTypes
<1>16. Original(g, z)
  BY <1>12 DEF Original
<1> QED BY <1>4, <1>12, <1>14, <1>15, <1>16

LEMMA WithoutDelegates ==
  ASSUME NEW g \in Graphs, NEW s, Base(g, s), MemoryTypes(g, s), Original(g, s),
         s.applied = << >>, s.undone = FALSE, s.state # "immutable"
  PROVE  Stable(g, s) /\ Sound(g, s)
<1>1. Scheduled(g, s) /\ Short(g, s)
  BY OriginalScheduled DEF Original
<1>2. IsInjective(s.applied)
  BY DEF IsInjective
<1>3. Controlled(g, s)
  BY <1>2 DEF Controlled
<1> QED BY <1>1, <1>3 DEF Stable, Sound, Ready

\* The delegates can be removed: their plan replaced that of the model, or it
\* is still there.
Removable(g, s) == s.pre = Indices(Len(g.ops)) \/ (Original(g, s) /\ s.state # "immutable")

LEMMA RemoveAllRestores ==
  ASSUME graph \in Graphs, NEW s, Base(graph, s), MemoryTypes(graph, s), Removable(graph, s),
         NEW faults, NEW r, r = RemoveAll(s, faults)
  PROVE  /\ r.ok \in BOOLEAN /\ Stable(graph, r.s)
         /\ r.s.applied = << >> /\ r.s.state # "immutable"
<1> DEFINE u == UndoAllDelegates(s)
           z == [u EXCEPT !.applied = << >>, !.undone = FALSE]
<1>1. r = EnsureMemoryAllocations(z, faults)
  BY DEF RemoveAll
<1>2. Base(graph, u) /\ MemoryTypes(graph, u) /\ Original(graph, u) /\ u.state # "immutable"
  <2> HIDE DEF u
  <2> SUFFICES ASSUME u = UndoAllDelegates(s)
               PROVE  Base(graph, u) /\ MemoryTypes(graph, u) /\ Original(graph, u)
                      /\ u.state # "immutable"
    BY DEF u
  <2>1. CASE s.pre = Indices(Len(graph.ops))
    BY <2>1, UndoRestores
  <2>2. CASE Original(graph, s) /\ s.state # "immutable"
    <3>1. u = s
      BY <2>2 DEF UndoAllDelegates, Original
    <3> QED BY <3>1, <2>2
  <2> QED BY <2>1, <2>2 DEF Removable
<1> HIDE DEF u
<1>3. DOMAIN u = Fields
  BY <1>2 DEF Base
<1>4. /\ DOMAIN z = Fields /\ z.applied = << >> /\ z.undone = FALSE
      /\ z.nodes = u.nodes /\ z.plan = u.plan /\ z.pre = u.pre /\ z.marks = u.marks
      /\ z.state = u.state /\ z.hasPlanner = u.hasPlanner /\ z.lifetimes = u.lifetimes
      /\ z.allocated = u.allocated /\ z.prepared = u.prepared /\ z.nextPrepare = u.nextPrepare
  BY <1>3 DEF Fields
<1> HIDE DEF z
<1>5. Base(graph, z)
  <2>1. z.applied \in Seq(Delegates) /\ z.undone \in BOOLEAN
    <3>1. z.applied \in Seq(Delegates)
      <4>1. << >> \in Seq(Delegates)
        OBVIOUS
      <4> QED BY <4>1, <1>4
    <3>2. z.undone \in BOOLEAN
      BY <1>4
    <3> QED BY <3>1, <3>2
  <2> QED BY <2>1, <1>2, <1>4 DEF Base
<1>6. MemoryTypes(graph, z) /\ Original(graph, z) /\ z.state # "immutable"
  BY <1>2, <1>4 DEF MemoryTypes, Original
<1>7. Sound(graph, z)
  BY <1>4, <1>5, <1>6, WithoutDelegates
<1>8. /\ r.ok \in BOOLEAN /\ SameSchedule(z, r.s) /\ MemoryTypes(graph, r.s)
      /\ r.s.state # "immutable"
  BY <1>1, <1>6, <1>7, EnsureMemoryKeeps
<1>9. Base(graph, r.s) /\ Original(graph, r.s)
  BY <1>5, <1>6, <1>8, SameScheduleKeeps
<1>10. r.s.applied = << >> /\ r.s.undone = FALSE
  BY <1>4, <1>8 DEF SameSchedule
<1> QED BY <1>8, <1>9, <1>10, WithoutDelegates

\* The outcome of a delegate that failed: all delegates are gone.
LEMMA ResetRestores ==
  ASSUME graph \in Graphs, NEW s, Base(graph, s), MemoryTypes(graph, s), Removable(graph, s),
         NEW faults, NEW status \in Statuses \ {"ok"},
         NEW c, c = FailsWith(status, RemoveAll(s, faults))
  PROVE  /\ c.status \in Statuses \ {"ok"} /\ Stable(graph, c.s)
         /\ c.s.applied = << >> /\ c.s.state # "immutable"
<1> DEFINE r == RemoveAll(s, faults)
<1>1. /\ r.ok \in BOOLEAN /\ Stable(graph, r.s) /\ r.s.applied = << >> /\ r.s.state # "immutable"
  <2> HIDE DEF r
  <2> SUFFICES r = RemoveAll(s, faults)
    BY RemoveAllRestores
  <2> QED BY DEF r
<1>2. c = [status |-> IF r.ok THEN status ELSE "error", s |-> r.s]
  BY DEF FailsWith
<1> HIDE DEF r
<1>3. c.s = r.s /\ c.status \in {status, "error"}
  BY <1>2
<1> QED BY <1>1, <1>3 DEF Statuses

-----------------------------------------------------------------------------
(* The steps of a plan are a graph that can be divided.                    *)

LEMMA NamesTensor ==
  ASSUME NEW g \in Graphs, NEW node \in Nodes(g), Names(g, node), NEW t
  PROVE  /\ t \in node.in <=> Reads(g, node, t) /\ ~ Makes(g, node, t)
         /\ t \in node.out => Makes(g, node, t)
         /\ Makes(g, node, t) /\ Needed(g, node, t) => t \in node.out
         /\ t \in node.out /\ node.by # NoDelegate => Needed(g, node, t)
<1>1. CASE t \in TensorsOf(g)
  BY <1>1 DEF Names
<1>2. CASE t \notin TensorsOf(g)
  <2>1. t \notin node.in /\ t \notin node.out
    BY <1>2 DEF Nodes
  <2>2. ~ Reads(g, node, t) /\ ~ Makes(g, node, t)
    BY <1>2, GraphFacts DEF Reads, Makes
  <2> QED BY <2>1, <2>2
<1> QED BY <1>1, <1>2

LEMMA RunsApart ==
  ASSUME NEW g, NEW s, Scheduled(g, s), NEW x \in DOMAIN s.plan, NEW y \in DOMAIN s.plan,
         NEW a, RunsOp(Step(s, x), a), RunsOp(Step(s, y), a)
  PROVE  x = y
BY DEF Scheduled, RunsOp

\* A tensor that passes from one step to another.
LEMMA TensorPasses ==
  ASSUME NEW g \in Graphs, NEW s, Base(g, s), Scheduled(g, s),
         NEW x \in DOMAIN s.plan, NEW y \in DOMAIN s.plan, x # y,
         NEW a \in DOMAIN g.ops, NEW b \in DOMAIN g.ops,
         RunsOp(Step(s, x), a), RunsOp(Step(s, y), b), NEW t, t \in g.ops[a].out, t \in g.ops[b].in
  PROVE  t \in Step(s, x).out /\ t \in Step(s, y).in
<1>1. /\ Step(s, x) \in Nodes(g) /\ Step(s, y) \in Nodes(g)
      /\ Names(g, Step(s, x)) /\ Names(g, Step(s, y))
  BY BaseFacts DEF Scheduled
<1>2. ~ RunsOp(Step(s, x), b) /\ ~ RunsOp(Step(s, y), a)
  BY RunsApart
<1>3. Makes(g, Step(s, x), t) /\ Needed(g, Step(s, x), t)
  BY <1>2 DEF Makes, Needed
<1>4. Reads(g, Step(s, y), t)
  BY DEF Reads
<1>5. ~ Makes(g, Step(s, y), t)
  <2> SUFFICES ASSUME NEW c \in DOMAIN g.ops, RunsOp(Step(s, y), c), t \in g.ops[c].out
               PROVE  FALSE
    BY DEF Makes
  <2>1. c = a
    BY GraphFacts
  <2> QED BY <2>1, <1>2
<1> QED BY <1>1, <1>3, <1>4, <1>5, NamesTensor

LEMMA PlanIsGraph ==
  ASSUME NEW g \in Graphs, NEW s, Base(g, s), Scheduled(g, s)
  PROVE  /\ GraphNodes(TensorsOf(g), PlanNodes(s))
         /\ DOMAIN PlanNodes(s) = DOMAIN s.plan
         /\ \A i \in DOMAIN s.plan :
              /\ PlanNodes(s)[i].id = s.plan[i] /\ PlanNodes(s)[i].in = Step(s, i).in
              /\ PlanNodes(s)[i].out = Step(s, i).out /\ PlanNodes(s)[i].effect = Step(s, i).effect
<1> DEFINE N(i) == [id |-> s.plan[i], in |-> Step(s, i).in, out |-> Step(s, i).out,
                    effect |-> Step(s, i).effect]
           nodes == PlanNodes(s)
<1>1. nodes = [i \in DOMAIN s.plan |-> N(i)]
  BY DEF PlanNodes, Step
<1>2. /\ Len(s.plan) \in Nat /\ DOMAIN s.plan = 1..Len(s.plan)
      /\ DOMAIN s.nodes = 1..Len(s.nodes) /\ Len(s.nodes) \in Nat
      /\ \A i \in DOMAIN s.plan : s.plan[i] \in DOMAIN s.nodes /\ Step(s, i) \in Nodes(g)
  BY BaseFacts
<1>3. \A i \in DOMAIN s.plan : N(i) \in NodeOf(TensorsOf(g))
  <2> SUFFICES ASSUME NEW i \in DOMAIN s.plan PROVE N(i) \in NodeOf(TensorsOf(g))
    OBVIOUS
  <2>1. s.plan[i] \in Nat /\ Step(s, i) \in Nodes(g)
    BY <1>2
  <2>2. Step(s, i).in \in SUBSET TensorsOf(g) /\ Step(s, i).out \in SUBSET TensorsOf(g)
        /\ Step(s, i).effect \in BOOLEAN
    BY <2>1 DEF Nodes
  <2> QED BY <2>1, <2>2 DEF NodeOf
<1>4. DOMAIN nodes = DOMAIN s.plan /\ \A i \in DOMAIN s.plan : nodes[i] = N(i)
  BY <1>1
<1>5. \A i \in DOMAIN s.plan :
        /\ nodes[i].id = s.plan[i] /\ nodes[i].in = Step(s, i).in
        /\ nodes[i].out = Step(s, i).out /\ nodes[i].effect = Step(s, i).effect
  <2> SUFFICES ASSUME NEW i \in DOMAIN s.plan
               PROVE  /\ nodes[i].id = s.plan[i] /\ nodes[i].in = Step(s, i).in
                      /\ nodes[i].out = Step(s, i).out /\ nodes[i].effect = Step(s, i).effect
    OBVIOUS
  <2>1. nodes[i] = N(i)
    BY <1>4
  <2> HIDE DEF nodes
  <2> DEFINE a == s.plan[i]
             b == Step(s, i).in
             c == Step(s, i).out
             d == Step(s, i).effect
  <2>2. nodes[i] = [id |-> a, in |-> b, out |-> c, effect |-> d]
    BY <2>1
  <2> HIDE DEF a, b, c, d, N
  <2>3. nodes[i].id = a /\ nodes[i].in = b /\ nodes[i].out = c /\ nodes[i].effect = d
    BY <2>2
  <2> QED BY <2>3 DEF a, b, c, d
<1>6. nodes \in Seq(NodeOf(TensorsOf(g)))
  <2> HIDE DEF N, nodes
  <2> QED BY <1>1, <1>2, <1>3
<1> HIDE DEF N, nodes
<1>7. ASSUME NEW x \in DOMAIN s.plan, NEW y \in DOMAIN s.plan, s.plan[x] = s.plan[y]
      PROVE  x = y
  <2>1. Step(s, x) = Step(s, y)
    BY <1>7 DEF Step
  <2>2. Step(s, x).runs # << >> /\ Step(s, x).runs \in Seq(DOMAIN g.ops)
    BY <1>2 DEF Scheduled, Names, Nodes
  <2>3. 1 \in DOMAIN Step(s, x).runs
    BY <2>2
  <2>4. RunsOp(Step(s, x), Step(s, x).runs[1])
    BY <2>3 DEF RunsOp
  <2> QED BY <2>1, <2>4, RunsApart
<1>8. ASSUME NEW x \in DOMAIN s.plan, NEW y \in DOMAIN s.plan,
             NEW t, t \in Step(s, x).out, t \in Step(s, y).out
      PROVE  x = y
  <2>1. Names(g, Step(s, x)) /\ Names(g, Step(s, y))
    BY DEF Scheduled
  <2>2. Makes(g, Step(s, x), t) /\ Makes(g, Step(s, y), t)
    BY <2>1, <1>2, <1>8, NamesTensor
  <2>3. PICK a \in DOMAIN g.ops : RunsOp(Step(s, x), a) /\ t \in g.ops[a].out
    BY <2>2 DEF Makes
  <2>4. PICK b \in DOMAIN g.ops : RunsOp(Step(s, y), b) /\ t \in g.ops[b].out
    BY <2>2 DEF Makes
  <2>5. a = b
    BY <2>3, <2>4, GraphFacts
  <2> QED BY <2>3, <2>4, <2>5, RunsApart
<1>9. ASSUME NEW x \in DOMAIN s.plan, NEW y \in DOMAIN s.plan,
             NEW t, t \in Step(s, x).out, t \in Step(s, y).in
      PROVE  x < y
  <2>1. Names(g, Step(s, x)) /\ Names(g, Step(s, y))
    BY DEF Scheduled
  <2>2. Makes(g, Step(s, x), t) /\ Reads(g, Step(s, y), t) /\ ~ Makes(g, Step(s, y), t)
    BY <2>1, <1>2, <1>9, NamesTensor
  <2>3. PICK a \in DOMAIN g.ops : RunsOp(Step(s, x), a) /\ t \in g.ops[a].out
    BY <2>2 DEF Makes
  <2>4. PICK b \in DOMAIN g.ops : RunsOp(Step(s, y), b) /\ t \in g.ops[b].in
    BY <2>2 DEF Reads
  <2>5. PICK j \in DOMAIN Step(s, x).runs : Step(s, x).runs[j] = a
    BY <2>3 DEF RunsOp
  <2>6. PICK l \in DOMAIN Step(s, y).runs : Step(s, y).runs[l] = b
    BY <2>4 DEF RunsOp
  <2>7. OpMustPrecede(g, a, b)
    <3>1. a < b
      BY <2>3, <2>4, GraphFacts
    <3> QED BY <3>1, <2>3, <2>4 DEF OpMustPrecede
  <2>8. Earlier(x, j, y, l)
    BY <2>5, <2>6, <2>7 DEF Scheduled
  <2>9. x # y
    BY <2>2
  <2> QED BY <2>8, <2>9 DEF Earlier
<1>10. GraphNodes(TensorsOf(g), nodes)
  <2>1. \A x, y \in DOMAIN nodes : nodes[x].id = nodes[y].id => x = y
    BY <1>4, <1>5, <1>7
  <2>2. \A x, y \in DOMAIN nodes : nodes[x].out \intersect nodes[y].out # {} => x = y
    BY <1>4, <1>5, <1>8
  <2>3. \A x, y \in DOMAIN nodes : nodes[x].out \intersect nodes[y].in # {} => x < y
    BY <1>4, <1>5, <1>9
  <2> QED BY <2>1, <2>2, <2>3, <1>6 DEF GraphNodes
<1> QED BY <1>4, <1>5, <1>10 DEF nodes

-----------------------------------------------------------------------------
(* Replacing subsets by kernels.                                           *)

LEMMA SeqLarger ==
  ASSUME NEW S, NEW R, S \subseteq R, NEW x \in Seq(S)
  PROVE  x \in Seq(R)
<1>1. /\ Len(x) \in Nat /\ DOMAIN x = 1..Len(x)
      /\ x = [i \in 1..Len(x) |-> x[i]]
      /\ \A i \in 1..Len(x) : x[i] \in S
  OBVIOUS
<1>2. \A i \in 1..Len(x) : x[i] \in R
  BY <1>1
<1> QED BY <1>1, <1>2

LEMMA AppendFacts ==
  ASSUME NEW S, NEW x \in Seq(S), NEW v \in S
  PROVE  /\ Append(x, v) \in Seq(S) /\ Len(Append(x, v)) = Len(x) + 1 /\ Len(x) \in Nat
         /\ DOMAIN x = 1..Len(x) /\ DOMAIN Append(x, v) = 1..(Len(x) + 1)
         /\ Append(x, v)[Len(x) + 1] = v
         /\ \A i \in 1..Len(x) : Append(x, v)[i] = x[i]
         /\ Append(x, v) = x \o <<v>>
OBVIOUS

\* The ops that a subset of nodes of s runs, and its kernel.
SubsetRuns(s, subset) ==
  FlattenSeq([i \in DOMAIN subset.nodes |-> s.nodes[subset.nodes[i]].runs])

Kernel(g, s, d, subset) ==
  [in |-> subset.in, out |-> subset.out, effect |-> HasEffect(g, subset.in, subset.out),
   by |-> d, runs |-> SubsetRuns(s, subset), live |-> TRUE]

\* A subset that can be replaced in s.
IsSubset(g, s, subset) ==
  /\ subset \in SubsetOf(TensorsOf(g))
  /\ \A i \in DOMAIN subset.nodes : subset.nodes[i] \in DOMAIN s.nodes

\* How far s has been changed into q.
Replacing(g, s, q) ==
  /\ Base(g, q)
  /\ q.pre = s.pre /\ q.applied = s.applied /\ q.undone = s.undone
  /\ q.hasPlanner = s.hasPlanner /\ q.lifetimes = s.lifetimes /\ q.allocated = s.allocated
  /\ q.prepared = s.prepared /\ q.nextPrepare = s.nextPrepare
  /\ q.state \in {s.state, "uninvokable"}
  /\ Len(s.nodes) <= Len(q.nodes)
  /\ \A i \in DOMAIN s.nodes : q.nodes[i] = s.nodes[i]

LEMMA ReplacingTypes ==
  ASSUME NEW g, NEW s, Base(g, s), MemoryTypes(g, s), NEW q, Replacing(g, s, q)
  PROVE  MemoryTypes(g, q) /\ Base(g, q)
<1>1. DOMAIN s.nodes \subseteq DOMAIN q.nodes
  BY BaseFacts DEF Replacing
<1>2. q.prepared \in SUBSET DOMAIN q.nodes
  BY <1>1 DEF Replacing, MemoryTypes
<1>3. q.state \in {"uninvokable", "invokable", "immutable"}
  BY DEF Replacing, MemoryTypes
<1> QED BY <1>2, <1>3 DEF Replacing, MemoryTypes

LEMMA SubsetRunsOps ==
  ASSUME NEW g, NEW s, Base(g, s), NEW subset, IsSubset(g, s, subset)
  PROVE  LET seqs == [i \in DOMAIN subset.nodes |-> s.nodes[subset.nodes[i]].runs]
         IN  /\ seqs \in Seq(Seq(DOMAIN g.ops)) /\ Len(seqs) = Len(subset.nodes)
             /\ SubsetRuns(s, subset) \in Seq(DOMAIN g.ops)
             /\ IsFlat(DOMAIN g.ops, seqs, Len(subset.nodes), SubsetRuns(s, subset))
<1> DEFINE seqs == [i \in DOMAIN subset.nodes |-> s.nodes[subset.nodes[i]].runs]
<1>1. subset.nodes \in Seq(Nat)
  BY DEF IsSubset, SubsetOf
<1>2. DOMAIN subset.nodes = 1..Len(subset.nodes) /\ Len(subset.nodes) \in Nat
  BY <1>1
<1>3. \A i \in DOMAIN subset.nodes : s.nodes[subset.nodes[i]].runs \in Seq(DOMAIN g.ops)
  BY BaseFacts DEF IsSubset, Nodes
<1>4. seqs \in Seq(Seq(DOMAIN g.ops)) /\ Len(seqs) = Len(subset.nodes)
  BY <1>2, <1>3
<1>5. SubsetRuns(s, subset) = FlattenSeq(seqs)
  BY DEF SubsetRuns
<1> HIDE DEF seqs
<1>6. IsFlat(DOMAIN g.ops, seqs, Len(seqs), FlattenSeq(seqs))
  BY <1>4, FlattenSeqIsFlat
<1>7. FlattenSeq(seqs) \in Seq(DOMAIN g.ops)
  BY <1>6 DEF IsFlat
<1> QED BY <1>4, <1>5, <1>6, <1>7 DEF seqs

LEMMA KernelType ==
  ASSUME NEW g, NEW s, Base(g, s), NEW subset, IsSubset(g, s, subset),
         NEW d \in Delegates \union {NoDelegate}
  PROVE  Kernel(g, s, d, subset) \in Nodes(g)
<1>1. SubsetRuns(s, subset) \in Seq(DOMAIN g.ops)
  BY SubsetRunsOps
<1>2. subset.in \in SUBSET TensorsOf(g) /\ subset.out \in SUBSET TensorsOf(g)
  BY DEF IsSubset, SubsetOf
<1>3. HasEffect(g, subset.in, subset.out) \in BOOLEAN
  BY DEF HasEffect
<1> QED BY <1>1, <1>2, <1>3 DEF Kernel, Nodes

\* A node more, with or without a place in the plan.
LEMMA NodeAdded ==
  ASSUME NEW g \in Graphs, NEW q, Base(g, q), NEW node \in Nodes(g), NEW z,
         DOMAIN z = Fields, z.nodes = Append(q.nodes, node),
         z.plan = q.plan \/ z.plan = Append(q.plan, Len(q.nodes) + 1),
         z.applied = q.applied, z.undone = q.undone,
         z.marks \in [TensorsOf(g) -> Delegates \union {NoDelegate}]
  PROVE  /\ Base(g, z) /\ Len(z.nodes) = Len(q.nodes) + 1 /\ Len(q.nodes) \in Nat
         /\ \A i \in DOMAIN q.nodes : z.nodes[i] = q.nodes[i]
         /\ DOMAIN z.nodes = 1..(Len(q.nodes) + 1) /\ z.nodes[Len(q.nodes) + 1] = node
<1> DEFINE m == Len(q.nodes)
<1>1. q.nodes \in Seq(Nodes(g)) /\ q.plan \in Seq(DOMAIN q.nodes)
  BY DEF Base
<1>2. /\ z.nodes \in Seq(Nodes(g)) /\ Len(z.nodes) = m + 1 /\ m \in Nat
      /\ DOMAIN q.nodes = 1..m /\ DOMAIN z.nodes = 1..(m + 1) /\ z.nodes[m + 1] = node
      /\ \A i \in 1..m : z.nodes[i] = q.nodes[i]
  BY <1>1, AppendFacts
<1>3. DOMAIN q.nodes \subseteq DOMAIN z.nodes /\ m + 1 \in DOMAIN z.nodes
  BY <1>2
<1>4. q.plan \in Seq(DOMAIN z.nodes)
  BY <1>1, <1>3, SeqLarger
<1>5. z.plan \in Seq(DOMAIN z.nodes)
  <2>1. Append(q.plan, m + 1) \in Seq(DOMAIN z.nodes)
    <3> HIDE DEF m
    <3> QED BY <1>3, <1>4, AppendFacts
  <2> QED BY <2>1, <1>4
<1>6. Len(g.ops) \in Nat /\ DOMAIN g.ops = 1..Len(g.ops)
  BY GraphFacts
<1>7. Len(g.ops) <= m /\ \A i \in DOMAIN g.ops : q.nodes[i] = OpNode(g, i)
  BY DEF Base
<1> HIDE DEF m
<1>8. Len(g.ops) <= Len(z.nodes) /\ \A i \in DOMAIN g.ops : z.nodes[i] = OpNode(g, i)
  BY <1>2, <1>6, <1>7
<1>9. q.applied \in Seq(Delegates) /\ q.undone \in BOOLEAN
  BY DEF Base
<1>10. Base(g, z)
  BY <1>2, <1>5, <1>8, <1>9 DEF Base
<1> QED BY <1>2, <1>10 DEF m

LEMMA OwnerSet ==
  ASSUME NEW a, NEW b, NEW e, NEW w, NEW x, NEW d, NEW n, NEW m,
         n = [in |-> a, out |-> b, effect |-> e, by |-> x, runs |-> w, live |-> TRUE],
         m = [n EXCEPT !.by = d]
  PROVE  m = [in |-> a, out |-> b, effect |-> e, by |-> d, runs |-> w, live |-> TRUE]
<1>1. m = [y \in {"in", "out", "effect", "by", "runs", "live"} |-> m[y]]
  OBVIOUS
<1>2. m.in = a /\ m.out = b /\ m.effect = e /\ m.by = d /\ m.runs = w /\ m.live = TRUE
  OBVIOUS
<1> QED BY <1>1, <1>2

LEMMA AddKernelAdds ==
  ASSUME graph \in Graphs, NEW s, Base(graph, s), NEW subset, IsSubset(graph, s, subset),
         NEW d \in Delegates, NEW c, Replacing(graph, s, c.s), NEW fails \in BOOLEAN,
         NEW r, r = AddKernel(c, subset, d, fails)
  PROVE  /\ r.ok \in BOOLEAN /\ Replacing(graph, s, r.s)
         /\ r.ok => /\ r.s.nodes = Append(c.s.nodes, Kernel(graph, s, d, subset))
                    /\ r.s.plan = Append(c.s.plan, Len(c.s.nodes) + 1)
<1> DEFINE q == c.s
           id == Len(q.nodes) + 1
           runs == FlattenSeq([i \in DOMAIN subset.nodes |-> q.nodes[subset.nodes[i]].runs])
           node == NewNode(subset.in, subset.out, NoDelegate, runs)
           taken == {t \in subset.out : q.marks[t] \notin {NoDelegate, d}}
           marked == {t \in subset.out : \A u \in taken : t < u}
           marks == [t \in DOMAIN q.marks |-> IF t \in marked THEN d ELSE q.marks[t]]
           freed == [node EXCEPT !.live = FALSE]
           owned == [node EXCEPT !.by = d]
           failed == [q EXCEPT !.state = "uninvokable", !.nodes = Append(@, freed)]
           added == [q EXCEPT !.state = "uninvokable", !.nodes = Append(@, node),
                              !.plan = Append(@, id), !.marks = marks]
           done == [added EXCEPT !.nodes[id].by = d]
<1>1. r = IF fails THEN [ok |-> FALSE, s |-> failed]
          ELSE IF taken # {} THEN [ok |-> FALSE, s |-> added]
          ELSE [ok |-> TRUE, s |-> done]
  BY DEF AddKernel
<1>2. Base(graph, q) /\ DOMAIN q = Fields
  BY DEF Replacing, Base
<1>3. runs = SubsetRuns(s, subset)
  <2>1. \A i \in DOMAIN subset.nodes : q.nodes[subset.nodes[i]].runs = s.nodes[subset.nodes[i]].runs
    BY DEF IsSubset, Replacing
  <2>2. [i \in DOMAIN subset.nodes |-> q.nodes[subset.nodes[i]].runs]
        = [i \in DOMAIN subset.nodes |-> s.nodes[subset.nodes[i]].runs]
    BY <2>1
  <2> QED BY <2>2 DEF SubsetRuns
<1>4. node = Kernel(graph, s, NoDelegate, subset)
  <2> HIDE DEF runs
  <2> QED BY <1>3 DEF NewNode, Kernel, OpMightHaveSideEffect, HasEffect
<1>5. owned = Kernel(graph, s, d, subset)
  <2> DEFINE e == HasEffect(graph, subset.in, subset.out)
             w == SubsetRuns(s, subset)
  <2>1. Kernel(graph, s, NoDelegate, subset) =
          [in |-> subset.in, out |-> subset.out, effect |-> e, by |-> NoDelegate, runs |-> w,
           live |-> TRUE]
    BY DEF Kernel
  <2>2. Kernel(graph, s, d, subset) =
          [in |-> subset.in, out |-> subset.out, effect |-> e, by |-> d, runs |-> w, live |-> TRUE]
    BY DEF Kernel
  <2>3. owned = [node EXCEPT !.by = d]
    OBVIOUS
  <2>4. node = [in |-> subset.in, out |-> subset.out, effect |-> e, by |-> NoDelegate,
                 runs |-> w, live |-> TRUE]
    BY <2>1, <1>4
  <2> DEFINE a == subset.in
             b == subset.out
  <2> HIDE DEF node, e, w, owned, a, b
  <2>5. owned = [in |-> a, out |-> b, effect |-> e, by |-> d, runs |-> w, live |-> TRUE]
    <3>1. node = [in |-> a, out |-> b, effect |-> e, by |-> NoDelegate, runs |-> w, live |-> TRUE]
      BY <2>4 DEF a, b
    <3> QED BY <3>1, <2>3, OwnerSet
  <2> QED BY <2>2, <2>5 DEF a, b
<1>6. node \in Nodes(graph) /\ owned \in Nodes(graph)
  <2> HIDE DEF node, owned
  <2> QED BY <1>4, <1>5, KernelType
<1> HIDE DEF runs, node, owned
<1>7. freed \in Nodes(graph)
  BY <1>6 DEF Nodes
<1>8. marks \in [TensorsOf(graph) -> Delegates \union {NoDelegate}]
      /\ q.marks \in [TensorsOf(graph) -> Delegates \union {NoDelegate}]
  <2>1. q.marks \in [TensorsOf(graph) -> Delegates \union {NoDelegate}]
    BY <1>2 DEF Base
  <2> HIDE DEF q, marked
  <2>2. DOMAIN q.marks = TensorsOf(graph)
        /\ \A t \in TensorsOf(graph) : q.marks[t] \in Delegates \union {NoDelegate}
    BY <2>1
  <2>3. \A t \in TensorsOf(graph) :
          (IF t \in marked THEN d ELSE q.marks[t]) \in Delegates \union {NoDelegate}
    BY <2>2
  <2>4. marks = [t \in TensorsOf(graph) |-> IF t \in marked THEN d ELSE q.marks[t]]
    BY <2>2
  <2> HIDE DEF marks
  <2> QED BY <2>1, <2>3, <2>4
<1> HIDE DEF taken, marks, freed
<1>9. /\ DOMAIN failed = Fields /\ failed.nodes = Append(q.nodes, freed) /\ failed.plan = q.plan
      /\ failed.marks = q.marks /\ failed.state = "uninvokable" /\ failed.pre = q.pre
      /\ failed.applied = q.applied /\ failed.undone = q.undone
      /\ failed.hasPlanner = q.hasPlanner /\ failed.lifetimes = q.lifetimes
      /\ failed.allocated = q.allocated /\ failed.prepared = q.prepared
      /\ failed.nextPrepare = q.nextPrepare
  <2> HIDE DEF q
  <2> QED BY <1>2 DEF Fields
<1>10. /\ DOMAIN added = Fields /\ added.nodes = Append(q.nodes, node)
       /\ added.plan = Append(q.plan, id)
       /\ added.marks = marks /\ added.state = "uninvokable" /\ added.pre = q.pre
       /\ added.applied = q.applied /\ added.undone = q.undone
       /\ added.hasPlanner = q.hasPlanner /\ added.lifetimes = q.lifetimes
       /\ added.allocated = q.allocated /\ added.prepared = q.prepared
       /\ added.nextPrepare = q.nextPrepare
  <2> HIDE DEF q, id
  <2> QED BY <1>2 DEF Fields
<1> HIDE DEF added, failed
<1>11. Append(q.nodes, owned) = [Append(q.nodes, node) EXCEPT ![id].by = d]
  <2>1. q.nodes \in Seq(Nodes(graph))
    BY <1>2 DEF Base
  <2> HIDE DEF q
  <2>2. /\ Append(q.nodes, node)[id] = node
        /\ DOMAIN Append(q.nodes, node) = 1..id /\ DOMAIN Append(q.nodes, owned) = 1..id
        /\ Append(q.nodes, owned)[id] = owned
        /\ \A i \in 1..id : i # id => Append(q.nodes, node)[i] = q.nodes[i]
                                      /\ Append(q.nodes, owned)[i] = q.nodes[i]
        /\ Append(q.nodes, owned) \in Seq(Nodes(graph))
    BY <2>1, <1>6
  <2> DEFINE x == Append(q.nodes, node)
             y == Append(q.nodes, owned)
             e == [x EXCEPT ![id].by = d]
  <2>3. e = [i \in 1..id |-> IF i = id THEN [node EXCEPT !.by = d] ELSE x[i]]
    <3> HIDE DEF x, id
    <3> QED BY <2>2 DEF x
  <2>4. y = [i \in 1..id |-> y[i]]
    BY <2>2
  <2>5. \A i \in 1..id : y[i] = IF i = id THEN [node EXCEPT !.by = d] ELSE x[i]
    <3> HIDE DEF x, y, id
    <3> QED BY <2>2 DEF owned, x, y
  <2> HIDE DEF x, y, id, e
  <2>6. y = e
    BY <2>3, <2>4, <2>5
  <2> QED BY <2>6 DEF x, y, e
<1>12. /\ DOMAIN done = Fields /\ done.nodes = Append(q.nodes, owned)
       /\ done.plan = added.plan
       /\ done.marks = added.marks /\ done.state = added.state /\ done.pre = added.pre
       /\ done.applied = added.applied /\ done.undone = added.undone
       /\ done.hasPlanner = added.hasPlanner /\ done.lifetimes = added.lifetimes
       /\ done.allocated = added.allocated /\ done.prepared = added.prepared
       /\ done.nextPrepare = added.nextPrepare
  <2> HIDE DEF q, id
  <2> QED BY <1>10, <1>11 DEF Fields
<1> HIDE DEF done
<1> DEFINE Grown(z, n) == /\ Base(graph, z) /\ Len(z.nodes) = Len(q.nodes) + 1
                          /\ Len(q.nodes) \in Nat /\ \A i \in DOMAIN q.nodes : z.nodes[i] = q.nodes[i]
<1>13. Grown(failed, freed) /\ Grown(added, node) /\ Grown(done, owned)
  <2> HIDE DEF q
  <2>1. Grown(failed, freed)
    BY <1>2, <1>7, <1>8, <1>9, NodeAdded
  <2>2. Grown(added, node)
    BY <1>2, <1>6, <1>8, <1>10, NodeAdded
  <2>3. Grown(done, owned)
    <3>1. done.plan = Append(q.plan, Len(q.nodes) + 1)
      BY <1>10, <1>12
    <3> QED BY <3>1, <1>2, <1>6, <1>8, <1>10, <1>12, NodeAdded
  <2> QED BY <2>1, <2>2, <2>3
<1>14. /\ q.pre = s.pre /\ q.applied = s.applied /\ q.undone = s.undone
       /\ q.hasPlanner = s.hasPlanner /\ q.lifetimes = s.lifetimes /\ q.allocated = s.allocated
       /\ q.prepared = s.prepared /\ q.nextPrepare = s.nextPrepare
       /\ Len(s.nodes) <= Len(q.nodes) /\ Len(s.nodes) \in Nat
       /\ \A i \in DOMAIN s.nodes : i \in DOMAIN q.nodes /\ q.nodes[i] = s.nodes[i]
  <2>1. /\ Len(s.nodes) \in Nat /\ DOMAIN s.nodes = 1..Len(s.nodes)
        /\ Len(q.nodes) \in Nat /\ DOMAIN q.nodes = 1..Len(q.nodes)
    BY <1>2, BaseFacts
  <2> QED BY <2>1 DEF Replacing
<1> HIDE DEF q
<1>15. Replacing(graph, s, failed)
  BY <1>9, <1>13, <1>14 DEF Replacing
<1>16. Replacing(graph, s, added)
  BY <1>10, <1>13, <1>14 DEF Replacing
<1>17. Replacing(graph, s, done)
  BY <1>10, <1>12, <1>13, <1>14 DEF Replacing
<1>18. done.plan = Append(q.plan, Len(q.nodes) + 1) /\ done.nodes = Append(q.nodes, owned)
  BY <1>10, <1>12
<1> HIDE DEF id, marked, Grown
<1>19. CASE fails
  <2>1. r = [ok |-> FALSE, s |-> failed]
    BY <1>1, <1>19
  <2> QED BY <2>1, <1>15
<1>20. CASE ~ fails /\ taken # {}
  <2>1. r = [ok |-> FALSE, s |-> added]
    BY <1>1, <1>20
  <2> QED BY <2>1, <1>16
<1>21. CASE ~ fails /\ taken = {}
  <2>1. r = [ok |-> TRUE, s |-> done]
    BY <1>1, <1>21
  <2>2. r.s = done /\ r.ok \in BOOLEAN
    BY <2>1
  <2> QED BY <2>2, <1>5, <1>17, <1>18 DEF q
<1> QED BY <1>19, <1>20, <1>21

LEMMA FlatAppend ==
  ASSUME NEW S, NEW seqs \in Seq(Seq(S)), NEW F, IsFlat(S, seqs, Len(seqs), F), NEW x \in Seq(S)
  PROVE  IsFlat(S, Append(seqs, x), Len(seqs) + 1, F \o x)
<1> DEFINE n == Len(seqs)
           more == Append(seqs, x)
<1>1. /\ more \in Seq(Seq(S)) /\ n \in Nat /\ DOMAIN more = 1..(n + 1) /\ more[n + 1] = x
      /\ \A i \in 1..n : more[i] = seqs[i]
  BY AppendFacts
<1> HIDE DEF more, n
<1>2. IsFlat(S, more, n, F)
  <2>1. F \in Seq(S) /\ \E row, col : Flattens(seqs, n, F, row, col)
    BY DEF IsFlat, n
  <2>2. PICK row, col : Flattens(seqs, n, F, row, col)
    BY <2>1
  <2>3. /\ row \in [DOMAIN F -> 1..n]
        /\ \A p \in DOMAIN F : more[row[p]] = seqs[row[p]]
    BY <2>2, <1>1 DEF Flattens
  <2>4. Flattens(more, n, F, row, col)
    <3>1. \A p \in DOMAIN F : col[p] \in DOMAIN more[row[p]] /\ F[p] = more[row[p]][col[p]]
      BY <2>2, <2>3 DEF Flattens
    <3>2. \A i \in 1..n : \A j \in DOMAIN more[i] : \E p \in DOMAIN F : row[p] = i /\ col[p] = j
      <4> SUFFICES ASSUME NEW i \in 1..n, NEW j \in DOMAIN seqs[i]
                   PROVE  \E p \in DOMAIN F : row[p] = i /\ col[p] = j
        BY <1>1
      <4> QED BY <2>2 DEF Flattens
    <3> QED BY <3>1, <3>2, <2>2 DEF Flattens
  <2> QED BY <2>1, <2>4 DEF IsFlat
<1>3. n + 1 \in DOMAIN more
  BY <1>1
<1>4. IsFlat(S, more, n + 1, F \o more[n + 1])
  BY <1>1, <1>2, <1>3, FlattensMore
<1> QED BY <1>1, <1>4 DEF more, n

LEMMA FlatEmpty ==
  ASSUME NEW S
  PROVE  IsFlat(S, << >>, 0, << >>)
<1> DEFINE row == [p \in {} |-> 1]
           col == [p \in {} |-> 0]
<1>1. DOMAIN << >> = {} /\ 1..0 = {} /\ << >> \in Seq(S)
  OBVIOUS
<1>2. Flattens(<< >>, 0, << >>, row, col)
  BY <1>1 DEF Flattens
<1> HIDE DEF row, col
<1> QED BY <1>1, <1>2 DEF IsFlat

\* What a subset becomes in the plan: its kernel, or the nodes it has.
IsPiece(g, s, d, subset, piece, nodes) ==
  IF subset.type = "partition"
  THEN \E id \in DOMAIN nodes : piece = <<id>> /\ nodes[id] = Kernel(g, s, d, subset)
  ELSE piece = subset.nodes

\* The plan of q holds what became of the first k subsets.
Assembled(g, s, d, subsets, k, q) ==
  \E pieces \in Seq(Seq(Nat)) :
    /\ Len(pieces) = k
    /\ IsFlat(Nat, pieces, k, q.plan)
    /\ \A e \in 1..k : IsPiece(g, s, d, subsets[e], pieces[e], q.nodes)

\* One piece more.
LEMMA PieceAdded ==
  ASSUME NEW g, NEW s, NEW d, NEW subsets, NEW k \in Nat, NEW q, NEW z,
         Assembled(g, s, d, subsets, k, q), NEW piece \in Seq(Nat), z.plan = q.plan \o piece,
         IsPiece(g, s, d, subsets[k + 1], piece, z.nodes),
         \A i \in DOMAIN q.nodes : i \in DOMAIN z.nodes /\ z.nodes[i] = q.nodes[i]
  PROVE  Assembled(g, s, d, subsets, k + 1, z)
<1>1. PICK pieces \in Seq(Seq(Nat)) :
        /\ Len(pieces) = k
        /\ IsFlat(Nat, pieces, k, q.plan)
        /\ \A e \in 1..k : IsPiece(g, s, d, subsets[e], pieces[e], q.nodes)
  BY DEF Assembled
<1> DEFINE more == Append(pieces, piece)
<1>2. /\ more \in Seq(Seq(Nat)) /\ Len(more) = k + 1 /\ more[k + 1] = piece
      /\ \A i \in 1..k : more[i] = pieces[i]
  BY <1>1, AppendFacts, SMTT(40)
<1>3. IsFlat(Nat, more, k + 1, z.plan)
  BY <1>1, FlatAppend
<1> HIDE DEF more
<1>4. ASSUME NEW e \in 1..(k + 1)
      PROVE  IsPiece(g, s, d, subsets[e], more[e], z.nodes)
  <2>1. CASE e = k + 1
    BY <2>1, <1>2
  <2>2. CASE e # k + 1
    <3>1. e \in 1..k /\ more[e] = pieces[e]
      BY <2>2, <1>2
    <3>2. IsPiece(g, s, d, subsets[e], pieces[e], q.nodes)
      BY <3>1, <1>1
    <3> QED BY <3>1, <3>2 DEF IsPiece
  <2> QED BY <2>1, <2>2
<1> QED BY <1>2, <1>3, <1>4 DEF Assembled

\* Argument: subgraph, delegate, subsets, the kernels' subsets, the faults.
ReplaceStep(a, c, e) ==
  IF ~c.ok THEN c
  ELSE IF e \in a[4] THEN AddKernel(c, a[3][e], a[2], "init" \in a[5] /\ \A f \in a[4] : f <= e)
  ELSE AddNodes(c, a[3][e])

ReplaceGood(a, c, k) ==
  /\ DOMAIN c = {"ok", "s"} /\ c.ok \in BOOLEAN
  /\ Replacing(graph, a[1], c.s)
  /\ c.ok => Assembled(graph, a[1], a[2], a[3], k, c.s)

Replaces == INSTANCE FoldInvariant WITH Step <- ReplaceStep, Good <- ReplaceGood

LEMMA ReplaceKeeps ==
  ASSUME graph \in Graphs, NEW s, Base(graph, s), NEW d \in Delegates, NEW subsets, NEW n \in Nat,
         \A e \in 1..n : IsSubset(graph, s, subsets[e]), NEW faults,
         NEW kernels, \A e \in 1..n : e \in kernels <=> subsets[e].type = "partition",
         NEW k \in 1..n, NEW c, ReplaceGood(<<s, d, subsets, kernels, faults>>, c, k - 1)
  PROVE  ReplaceGood(<<s, d, subsets, kernels, faults>>,
                     ReplaceStep(<<s, d, subsets, kernels, faults>>, c, k), k)
<1> DEFINE a == <<s, d, subsets, kernels, faults>>
           r == ReplaceStep(a, c, k)
           subset == subsets[k]
<1>1. a[1] = s /\ a[2] = d /\ a[3] = subsets /\ a[4] = kernels /\ a[5] = faults
  OBVIOUS
<1> HIDE DEF a
<1>2. /\ DOMAIN c = {"ok", "s"} /\ c.ok \in BOOLEAN /\ Replacing(graph, s, c.s)
      /\ c.ok => Assembled(graph, s, d, subsets, k - 1, c.s)
  BY <1>1 DEF ReplaceGood, a
<1>3. SUFFICES ReplaceGood(a, r, k)
  BY DEF a
<1>4. IsSubset(graph, s, subset) /\ k - 1 \in Nat /\ k - 1 + 1 = k
  OBVIOUS
<1>5. CASE ~ c.ok
  <2>1. r = c
    BY <1>5 DEF ReplaceStep
  <2> HIDE DEF r
  <2> QED BY <2>1, <1>1, <1>2, <1>5 DEF ReplaceGood
<1>6. CASE c.ok /\ k \in kernels
  <2> DEFINE fails == "init" \in faults /\ \A f \in kernels : f <= k
  <2>1. r = AddKernel(c, subset, d, fails)
    BY <1>1, <1>6 DEF ReplaceStep
  <2>2. fails \in BOOLEAN
    OBVIOUS
  <2> HIDE DEF fails, subset, r
  <2>3. /\ r.ok \in BOOLEAN /\ Replacing(graph, s, r.s)
        /\ r.ok => /\ r.s.nodes = Append(c.s.nodes, Kernel(graph, s, d, subset))
                   /\ r.s.plan = Append(c.s.plan, Len(c.s.nodes) + 1)
    BY <2>1, <2>2, <1>2, <1>4, AddKernelAdds
  <2>4. DOMAIN r = {"ok", "s"}
    BY <2>1 DEF AddKernel
  <2>5. ASSUME r.ok
        PROVE  Assembled(graph, s, d, subsets, k, r.s)
    <3> DEFINE q == c.s
               id == Len(q.nodes) + 1
               kernel == Kernel(graph, s, d, subset)
    <3>1. Base(graph, q) /\ q.nodes \in Seq(Nodes(graph)) /\ kernel \in Nodes(graph)
      BY <1>2, <1>4, KernelType DEF Replacing, Base
    <3> HIDE DEF kernel, q
    <3>2. r.s.nodes = Append(q.nodes, kernel) /\ r.s.plan = Append(q.plan, id)
      BY <2>3, <2>5 DEF kernel, q
    <3>3. /\ Len(q.nodes) \in Nat /\ DOMAIN q.nodes = 1..Len(q.nodes)
          /\ DOMAIN r.s.nodes = 1..id /\ r.s.nodes[id] = kernel
          /\ \A i \in 1..Len(q.nodes) : r.s.nodes[i] = q.nodes[i]
      BY <3>1, <3>2, AppendFacts
    <3>4. id \in Nat /\ id \in DOMAIN r.s.nodes
          /\ \A i \in DOMAIN q.nodes : i \in DOMAIN r.s.nodes /\ r.s.nodes[i] = q.nodes[i]
      BY <3>3
    <3> HIDE DEF id
    <3>5. subset.type = "partition"
      BY <1>6 DEF subset
    <3>6. IsPiece(graph, s, d, subset, <<id>>, r.s.nodes)
      BY <3>3, <3>4, <3>5 DEF IsPiece, kernel
    <3>7. q.plan \in Seq(Nat)
      BY <3>1, <3>3, SeqLarger DEF Base
    <3>8. r.s.plan = q.plan \o <<id>> /\ <<id>> \in Seq(Nat)
      <4>1. <<id>> \in Seq(Nat)
        BY <3>4, OneElement
      <4>2. Append(q.plan, id) = q.plan \o <<id>>
        <5> DEFINE y == q.plan
        <5>1. y \in Seq(Nat) /\ id \in Nat
          BY <3>4, <3>7
        <5> HIDE DEF y
        <5>2. Append(y, id) = y \o <<id>>
          BY <5>1, AppendFacts
        <5> QED BY <5>2 DEF y
      <4> QED BY <4>1, <4>2, <3>2
    <3>9. Assembled(graph, s, d, subsets, k - 1, q)
      BY <1>2, <1>6 DEF q
    <3>10. Assembled(graph, s, d, subsets, k - 1 + 1, r.s)
      BY <3>4, <3>6, <3>8, <3>9, <1>4, PieceAdded DEF subset
    <3> QED BY <3>10, <1>4
  <2> QED BY <2>3, <2>4, <2>5, <1>1 DEF ReplaceGood
<1>7. CASE c.ok /\ k \notin kernels
  <2> DEFINE q == c.s
             z == [q EXCEPT !.plan = @ \o subset.nodes]
  <2>1. r = [c EXCEPT !.s.plan = @ \o subset.nodes]
    BY <1>1, <1>7 DEF ReplaceStep, AddNodes
  <2> HIDE DEF r, subset
  <2>2. DOMAIN r = {"ok", "s"} /\ r.ok = c.ok /\ r.s = z
    BY <2>1, <1>2
  <2>3. Base(graph, q) /\ DOMAIN q = Fields
    BY <1>2 DEF Replacing, Base
  <2> HIDE DEF q
  <2>4. /\ DOMAIN z = Fields /\ z.plan = q.plan \o subset.nodes /\ z.nodes = q.nodes
        /\ z.marks = q.marks /\ z.state = q.state /\ z.pre = q.pre
        /\ z.applied = q.applied /\ z.undone = q.undone
        /\ z.hasPlanner = q.hasPlanner /\ z.lifetimes = q.lifetimes
        /\ z.allocated = q.allocated /\ z.prepared = q.prepared
        /\ z.nextPrepare = q.nextPrepare
    BY <2>3 DEF Fields
  <2> HIDE DEF z
  <2>5. subset.nodes \in Seq(Nat) /\ subset.nodes \in Seq(DOMAIN q.nodes)
    <3>1. subset.nodes \in Seq(Nat) /\ \A i \in DOMAIN subset.nodes : subset.nodes[i] \in DOMAIN s.nodes
      BY <1>4 DEF IsSubset, SubsetOf
    <3>2. DOMAIN s.nodes \subseteq DOMAIN q.nodes
      BY <2>3, <1>2, BaseFacts DEF Replacing, q
    <3>3. /\ Len(subset.nodes) \in Nat /\ DOMAIN subset.nodes = 1..Len(subset.nodes)
          /\ subset.nodes = [i \in 1..Len(subset.nodes) |-> subset.nodes[i]]
      BY <3>1
    <3>4. \A i \in 1..Len(subset.nodes) : subset.nodes[i] \in DOMAIN q.nodes
      BY <3>1, <3>2, <3>3
    <3> DEFINE D == DOMAIN q.nodes
               x == subset.nodes
    <3>5. x = [i \in 1..Len(x) |-> x[i]] /\ Len(x) \in Nat /\ \A i \in 1..Len(x) : x[i] \in D
      BY <3>3, <3>4
    <3> HIDE DEF D, x
    <3>6. x \in Seq(D)
      BY <3>5
    <3> QED BY <3>1, <3>6 DEF D, x
  <2>6. z.plan \in Seq(DOMAIN z.nodes)
    <3>1. q.plan \in Seq(DOMAIN q.nodes)
      BY <2>3 DEF Base
    <3> DEFINE D == DOMAIN q.nodes
               x == subset.nodes
               y == q.plan
    <3>2. x \in Seq(D) /\ y \in Seq(D)
      BY <3>1, <2>5
    <3> HIDE DEF D, x, y
    <3>3. y \o x \in Seq(D)
      BY <3>2
    <3> QED BY <3>3, <2>4 DEF D, x, y
  <2>7. Base(graph, z)
    BY <2>3, <2>4, <2>6 DEF Base
  <2>8. Replacing(graph, s, z)
    <3>1. Replacing(graph, s, q)
      BY <1>2 DEF q
    <3> QED BY <3>1, <2>4, <2>7 DEF Replacing
  <2>9. Assembled(graph, s, d, subsets, k, z)
    <3>1. Assembled(graph, s, d, subsets, k - 1, q)
      BY <1>2, <1>7 DEF q
    <3>2. IsPiece(graph, s, d, subset, subset.nodes, z.nodes)
      BY <1>7 DEF IsPiece, subset
    <3>3. Assembled(graph, s, d, subsets, k - 1 + 1, z)
      BY <3>1, <3>2, <2>4, <2>5, <1>4, PieceAdded DEF subset
    <3> QED BY <3>3, <1>4
  <2> QED BY <2>2, <2>8, <2>9, <1>1, <1>2 DEF ReplaceGood
<1> QED BY <1>2, <1>5, <1>6, <1>7

\* ReplaceNodeSubsetsWithDelegateKernels on the subsets of a partition.
LEMMA ReplaceSubsetsAssembles ==
  ASSUME graph \in Graphs, NEW s, Base(graph, s), NEW d \in Delegates, NEW parts, parts.ok,
         NEW n \in Nat, Len(parts.subsets) = n, DOMAIN parts.subsets = 1..n,
         \A e \in 1..n : IsSubset(graph, s, parts.subsets[e]), NEW faults,
         NEW r, r = ReplaceSubsets(s, d, parts, faults)
  PROVE  /\ r.ok \in BOOLEAN /\ Replacing(graph, s, r.s)
         /\ r.ok => Assembled(graph, s, d, parts.subsets, n, r.s)
<1> DEFINE kernels == {e \in DOMAIN parts.subsets : parts.subsets[e].type = "partition"}
           a == <<s, d, parts.subsets, kernels, faults>>
           q == [s EXCEPT !.plan = << >>]
           base == [ok |-> TRUE, s |-> q]
<1>1. r = Replaces!Fold(a, base, Indices(n))
  <2>1. ReplaceSubsets(s, d, parts, faults) = Replaces!Fold(a, base, Indices(Len(parts.subsets)))
    BY DEF ReplaceSubsets, Replaces!Fold, Replaces!FoldLeft, Replaces!MapThenFoldSet,
             Replaces!Max, FoldLeft, MapThenFoldSet, Max, ReplaceStep
  <2> QED BY <2>1
<1>2. DOMAIN s = Fields
  BY DEF Base
<1>3. /\ DOMAIN q = Fields /\ q.plan = << >> /\ q.nodes = s.nodes
      /\ q.marks = s.marks /\ q.state = s.state /\ q.pre = s.pre
      /\ q.applied = s.applied /\ q.undone = s.undone
      /\ q.hasPlanner = s.hasPlanner /\ q.lifetimes = s.lifetimes
      /\ q.allocated = s.allocated /\ q.prepared = s.prepared
      /\ q.nextPrepare = s.nextPrepare
  BY <1>2 DEF Fields
<1> HIDE DEF q
<1>4. Replacing(graph, s, q)
  <2>1. << >> \in Seq(DOMAIN q.nodes)
    OBVIOUS
  <2>2. Base(graph, q)
    BY <2>1, <1>3 DEF Base
  <2>3. Len(s.nodes) \in Nat
    BY BaseFacts
  <2> QED BY <2>2, <2>3, <1>3 DEF Replacing
<1>5. Assembled(graph, s, d, parts.subsets, 0, q)
  <2>1. << >> \in Seq(Seq(Nat)) /\ Len(<< >>) = 0 /\ 1..0 = {}
    OBVIOUS
  <2>2. IsFlat(Nat, << >>, 0, q.plan)
    BY <1>3, FlatEmpty
  <2> QED BY <2>1, <2>2 DEF Assembled
<1>6. a[1] = s /\ a[2] = d /\ a[3] = parts.subsets
  OBVIOUS
<1>7. ReplaceGood(a, base, 0)
  <2>1. DOMAIN base = {"ok", "s"} /\ base.ok = TRUE /\ base.s = q
    OBVIOUS
  <2> HIDE DEF a, base
  <2> QED BY <2>1, <1>4, <1>5, <1>6 DEF ReplaceGood
<1>8. DOMAIN Indices(n) = 1..n /\ \A k \in 1..n : Indices(n)[k] = k
  BY IndicesFacts
<1>9. \A k \in 1..n : \A c : ReplaceGood(a, c, k - 1) =>
         ReplaceGood(a, ReplaceStep(a, c, Indices(n)[k]), k)
  <2> SUFFICES ASSUME NEW k \in 1..n, NEW c, ReplaceGood(a, c, k - 1)
               PROVE  ReplaceGood(a, ReplaceStep(a, c, k), k)
    BY <1>8
  <2>1. \A e \in 1..n : e \in kernels <=> parts.subsets[e].type = "partition"
    OBVIOUS
  <2>2. \A e \in 1..n : IsSubset(graph, s, parts.subsets[e])
    OBVIOUS
  <2> HIDE DEF kernels
  <2> QED BY <2>1, <2>2, ReplaceKeeps
<1> HIDE DEF a, base
<1>10. ReplaceGood(a, Replaces!Fold(a, base, Indices(n)), n)
  BY <1>7, <1>8, <1>9, Replaces!FoldKeeps
<1>11. ReplaceGood(a, r, n)
  BY <1>1, <1>10
<1> QED BY <1>6, <1>11 DEF ReplaceGood

-----------------------------------------------------------------------------
(* The plan after a partition.                                             *)

\* Step x of the plan is node m of its subset.
At(s, subsets, epoch, x, m) ==
  /\ m \in DOMAIN subsets[epoch[x]].nodes
  /\ subsets[epoch[x]].nodes[m] = s.plan[x]

\* The partition of the steps of s, as PartitionDivides has it.
Divided(g, s, claimed, subsets, epoch) ==
  /\ subsets \in Seq(SubsetOf(TensorsOf(g)))
  /\ epoch \in [DOMAIN s.plan -> DOMAIN subsets]
  /\ \A e \in DOMAIN subsets : subsets[e].nodes # << >>
  /\ \A e \in DOMAIN subsets : \A m \in DOMAIN subsets[e].nodes :
       \E x \in DOMAIN s.plan : epoch[x] = e /\ subsets[e].nodes[m] = s.plan[x]
  /\ \A e \in DOMAIN subsets : \A m, k \in DOMAIN subsets[e].nodes :
       subsets[e].nodes[m] = subsets[e].nodes[k] => m = k
  /\ \A x \in DOMAIN s.plan : \E m : At(s, subsets, epoch, x, m)
  /\ \A x, y \in DOMAIN s.plan : \A m, k :
       /\ x < y
       /\ \/ Step(s, x).out \intersect Step(s, y).in # {}
          \/ Step(s, x).effect /\ Step(s, y).effect
          \/ ~ g.greedily
       /\ At(s, subsets, epoch, x, m) /\ At(s, subsets, epoch, y, k)
       => Earlier(epoch[x], m, epoch[y], k)
  /\ \A x \in DOMAIN s.plan :
       subsets[epoch[x]].type = IF x \in claimed THEN "partition" ELSE "nonPartition"
  /\ \A e \in DOMAIN subsets : \A t :
       t \in subsets[e].in <=>
         /\ \E x \in DOMAIN s.plan : epoch[x] = e /\ t \in Step(s, x).in
         /\ \A y \in DOMAIN s.plan : epoch[y] = e => t \notin Step(s, y).out
  /\ \A e \in DOMAIN subsets : \A t :
       t \in subsets[e].out <=>
         \E x \in DOMAIN s.plan :
           /\ epoch[x] = e /\ t \in Step(s, x).out
           /\ t \in g.outputs \/ \E y \in DOMAIN s.plan : epoch[y] # e /\ t \in Step(s, y).in

LEMMA PartitionIsDivided ==
  ASSUME NEW g \in Graphs, NEW s, Base(g, s), Scheduled(g, s), NEW claimed, NEW subsets, NEW epoch,
         IsPartition(TensorsOf(g), PlanNodes(s), claimed, g.outputs, g.greedily, subsets, epoch)
  PROVE  Divided(g, s, claimed, subsets, epoch)
<1> DEFINE nodes == PlanNodes(s)
<1>1. /\ DOMAIN nodes = DOMAIN s.plan
      /\ \A i \in DOMAIN s.plan :
           /\ nodes[i].id = s.plan[i] /\ nodes[i].in = Step(s, i).in
           /\ nodes[i].out = Step(s, i).out /\ nodes[i].effect = Step(s, i).effect
  BY PlanIsGraph
<1>2. IsPartition(TensorsOf(g), nodes, claimed, g.outputs, g.greedily, subsets, epoch)
  OBVIOUS
<1> HIDE DEF nodes
<1>3. \A x \in DOMAIN s.plan : \A m :
        InSlot(nodes, subsets, epoch, x, m) <=> At(s, subsets, epoch, x, m)
  BY <1>1 DEF InSlot, At
<1>4. /\ subsets \in Seq(SubsetOf(TensorsOf(g)))
      /\ epoch \in [DOMAIN s.plan -> DOMAIN subsets]
      /\ \A e \in DOMAIN subsets : subsets[e].nodes # << >>
      /\ \A e \in DOMAIN subsets : \A m, k \in DOMAIN subsets[e].nodes :
           subsets[e].nodes[m] = subsets[e].nodes[k] => m = k
      /\ \A x \in DOMAIN s.plan :
           subsets[epoch[x]].type = IF x \in claimed THEN "partition" ELSE "nonPartition"
  BY <1>1, <1>2 DEF IsPartition
<1>5. \A e \in DOMAIN subsets : \A m \in DOMAIN subsets[e].nodes :
       \E x \in DOMAIN s.plan : epoch[x] = e /\ subsets[e].nodes[m] = s.plan[x]
  <2> SUFFICES ASSUME NEW e \in DOMAIN subsets, NEW m \in DOMAIN subsets[e].nodes
               PROVE  \E x \in DOMAIN s.plan : epoch[x] = e /\ subsets[e].nodes[m] = s.plan[x]
    OBVIOUS
  <2>1. PICK x \in DOMAIN nodes : nodes[x].id = subsets[e].nodes[m] /\ epoch[x] = e
    BY <1>2 DEF IsPartition
  <2> QED BY <2>1, <1>1
<1>6. \A x \in DOMAIN s.plan : \E m : At(s, subsets, epoch, x, m)
  BY <1>1, <1>2, <1>3 DEF IsPartition
<1>7. ASSUME NEW x \in DOMAIN s.plan, NEW y \in DOMAIN s.plan, NEW m, NEW k, x < y,
             \/ Step(s, x).out \intersect Step(s, y).in # {}
             \/ Step(s, x).effect /\ Step(s, y).effect
             \/ ~ g.greedily,
             At(s, subsets, epoch, x, m), At(s, subsets, epoch, y, k)
      PROVE  Earlier(epoch[x], m, epoch[y], k)
  <2>1. MustPrecede(nodes, g.greedily, x, y)
    BY <1>1, <1>7 DEF MustPrecede
  <2>2. InSlot(nodes, subsets, epoch, x, m) /\ InSlot(nodes, subsets, epoch, y, k)
    BY <1>3, <1>7
  <2> QED BY <2>1, <2>2, <1>1, <1>2 DEF IsPartition
<1>8. ASSUME NEW e \in DOMAIN subsets, NEW t
      PROVE  t \in subsets[e].in <=>
               /\ \E x \in DOMAIN s.plan : epoch[x] = e /\ t \in Step(s, x).in
               /\ \A y \in DOMAIN s.plan : epoch[y] = e => t \notin Step(s, y).out
  <2>1. t \in subsets[e].in <=>
               /\ \E x \in DOMAIN nodes : epoch[x] = e /\ t \in nodes[x].in
               /\ \A y \in DOMAIN nodes : epoch[y] = e => t \notin nodes[y].out
    BY <1>2 DEF IsPartition
  <2> QED BY <2>1, <1>1
<1>9. ASSUME NEW e \in DOMAIN subsets, NEW t
      PROVE  t \in subsets[e].out <=>
         \E x \in DOMAIN s.plan :
           /\ epoch[x] = e /\ t \in Step(s, x).out
           /\ t \in g.outputs \/ \E y \in DOMAIN s.plan : epoch[y] # e /\ t \in Step(s, y).in
  <2>1. t \in subsets[e].out <=>
         \E x \in DOMAIN nodes :
           /\ epoch[x] = e /\ t \in nodes[x].out
           /\ t \in g.outputs \/ \E y \in DOMAIN nodes : epoch[y] # e /\ t \in nodes[y].in
    BY <1>2 DEF IsPartition
  <2> QED BY <2>1, <1>1
<1> QED BY <1>4, <1>5, <1>6, <1>7, <1>8, <1>9 DEF Divided

\* The ops of a kernel are those of the steps in its subset.
LEMMA KernelOps ==
  ASSUME NEW g \in Graphs, NEW s, Base(g, s), Scheduled(g, s), NEW claimed, NEW subsets, NEW epoch,
         Divided(g, s, claimed, subsets, epoch), NEW e \in DOMAIN subsets, NEW d \in Delegates
  PROVE  /\ IsSubset(g, s, subsets[e])
         /\ \A a : RunsOp(Kernel(g, s, d, subsets[e]), a) <=>
              \E x \in DOMAIN s.plan : epoch[x] = e /\ RunsOp(Step(s, x), a)
<1> DEFINE subset == subsets[e]
           seqs == [i \in DOMAIN subset.nodes |-> s.nodes[subset.nodes[i]].runs]
           runs == SubsetRuns(s, subset)
<1>1. subset \in SubsetOf(TensorsOf(g))
  BY DEF Divided
<1>2. \A m \in DOMAIN subset.nodes :
        \E x \in DOMAIN s.plan : epoch[x] = e /\ subset.nodes[m] = s.plan[x]
  BY DEF Divided
<1>3. \A x \in DOMAIN s.plan : epoch[x] = e =>
        \E m \in DOMAIN subset.nodes : subset.nodes[m] = s.plan[x]
  BY DEF Divided, At
<1> HIDE DEF subset
<1>4. IsSubset(g, s, subset)
  BY <1>1, <1>2, BaseFacts DEF IsSubset
<1>5. IsFlat(DOMAIN g.ops, seqs, Len(subset.nodes), runs)
  BY <1>4, SubsetRunsOps
<1>6. DOMAIN subset.nodes = 1..Len(subset.nodes)
  BY <1>1 DEF SubsetOf
<1>7. PICK row, col : Flattens(seqs, Len(subset.nodes), runs, row, col)
  BY <1>5 DEF IsFlat
<1>8. \A m \in DOMAIN subset.nodes : seqs[m] = s.nodes[subset.nodes[m]].runs
  OBVIOUS
<1> HIDE DEF seqs, runs
<1>9. ASSUME NEW l \in DOMAIN runs
      PROVE  \E x \in DOMAIN s.plan : epoch[x] = e /\ RunsOp(Step(s, x), runs[l])
  <2>1. row[l] \in DOMAIN subset.nodes /\ col[l] \in DOMAIN seqs[row[l]]
        /\ runs[l] = seqs[row[l]][col[l]]
    BY <1>6, <1>7 DEF Flattens
  <2>2. PICK x \in DOMAIN s.plan : epoch[x] = e /\ subset.nodes[row[l]] = s.plan[x]
    BY <2>1, <1>2
  <2>3. seqs[row[l]] = Step(s, x).runs
    BY <2>1, <2>2, <1>8 DEF Step
  <2> QED BY <2>1, <2>2, <2>3 DEF RunsOp
<1>10. ASSUME NEW x \in DOMAIN s.plan, epoch[x] = e, NEW j \in DOMAIN Step(s, x).runs
       PROVE  \E l \in DOMAIN runs : runs[l] = Step(s, x).runs[j]
  <2>1. PICK m \in DOMAIN subset.nodes : subset.nodes[m] = s.plan[x]
    BY <1>3, <1>10
  <2>2. seqs[m] = Step(s, x).runs
    BY <2>1, <1>8 DEF Step
  <2>3. PICK l \in DOMAIN runs : row[l] = m /\ col[l] = j
    BY <2>1, <2>2, <1>6, <1>7 DEF Flattens
  <2>4. runs[l] = seqs[row[l]][col[l]]
    BY <1>7 DEF Flattens
  <2> QED BY <2>2, <2>3, <2>4
<1>11. Kernel(g, s, d, subset).runs = runs
  BY DEF Kernel, runs
<1>12. \A a : RunsOp(Kernel(g, s, d, subset), a) <=>
              \E x \in DOMAIN s.plan : epoch[x] = e /\ RunsOp(Step(s, x), a)
  BY <1>9, <1>10, <1>11 DEF RunsOp
<1> QED BY <1>4, <1>12 DEF subset

\* A kernel names the tensors that its ops exchange with the others.
LEMMA KernelNames ==
  ASSUME NEW g \in Graphs, NEW s, Base(g, s), Scheduled(g, s), NEW claimed, NEW subsets, NEW epoch,
         Divided(g, s, claimed, subsets, epoch), NEW e \in DOMAIN subsets, NEW d \in Delegates
  PROVE  Names(g, Kernel(g, s, d, subsets[e]))
<1> DEFINE kernel == Kernel(g, s, d, subsets[e])
           subset == subsets[e]
           In(x) == epoch[x] = e
<1>1. kernel \in Nodes(g) /\ subset \in SubsetOf(TensorsOf(g))
  BY KernelOps, KernelType DEF IsSubset
<1>2. \A a : RunsOp(kernel, a) <=> \E x \in DOMAIN s.plan : In(x) /\ RunsOp(Step(s, x), a)
  BY KernelOps
<1>3. /\ kernel.in = subset.in /\ kernel.out = subset.out /\ kernel.live = TRUE
      /\ kernel.effect = HasEffect(g, subset.in, subset.out)
  BY DEF Kernel
<1>4. \A t : t \in subset.in <=>
         /\ \E x \in DOMAIN s.plan : In(x) /\ t \in Step(s, x).in
         /\ \A y \in DOMAIN s.plan : In(y) => t \notin Step(s, y).out
  BY DEF Divided
<1>5. \A t : t \in subset.out <=>
         \E x \in DOMAIN s.plan :
           /\ In(x) /\ t \in Step(s, x).out
           /\ t \in g.outputs \/ \E y \in DOMAIN s.plan : ~ In(y) /\ t \in Step(s, y).in
  BY DEF Divided
<1>6. \A x \in DOMAIN s.plan : Step(s, x) \in Nodes(g) /\ Names(g, Step(s, x))
  BY BaseFacts DEF Scheduled
<1>7. kernel.runs # << >>
  <2>1. subset.nodes # << >> /\ subset.nodes \in Seq(Nat)
    BY <1>1 DEF Divided, SubsetOf
  <2>2. 1 \in DOMAIN subset.nodes
    BY <2>1
  <2>3. PICK x \in DOMAIN s.plan : epoch[x] = e
    BY <2>2 DEF Divided
  <2>4. Step(s, x).runs # << >> /\ Step(s, x).runs \in Seq(DOMAIN g.ops)
    BY <1>6 DEF Names, Nodes
  <2>5. RunsOp(Step(s, x), Step(s, x).runs[1])
    BY <2>4 DEF RunsOp
  <2>6. \E j \in DOMAIN kernel.runs : TRUE
    <3> HIDE DEF kernel
    <3> QED BY <2>3, <2>5, <1>2 DEF RunsOp
  <2>7. DOMAIN << >> = {}
    OBVIOUS
  <2> HIDE DEF kernel
  <2> QED BY <2>6, <2>7
<1>8. \A a \in DOMAIN g.ops : \E x \in DOMAIN s.plan : RunsOp(Step(s, x), a)
  BY DEF Scheduled
<1> HIDE DEF kernel, subset, In
<1>9. ASSUME NEW t
      PROVE  Makes(g, kernel, t) <=>
               \E x \in DOMAIN s.plan : In(x) /\ Makes(g, Step(s, x), t)
  BY <1>2 DEF Makes
<1>10. ASSUME NEW t
       PROVE  Reads(g, kernel, t) <=>
                \E x \in DOMAIN s.plan : In(x) /\ Reads(g, Step(s, x), t)
  BY <1>2 DEF Reads
<1>11. ASSUME NEW t, t \in kernel.in
       PROVE  Reads(g, kernel, t) /\ ~ Makes(g, kernel, t)
  <2>1. PICK x \in DOMAIN s.plan : In(x) /\ t \in Step(s, x).in
    BY <1>3, <1>4, <1>11
  <2>2. Reads(g, Step(s, x), t) /\ ~ Makes(g, Step(s, x), t)
    BY <2>1, <1>6, NamesTensor
  <2>3. PICK b \in DOMAIN g.ops : RunsOp(Step(s, x), b) /\ t \in g.ops[b].in
    BY <2>2 DEF Reads
  <2>4. ASSUME NEW y \in DOMAIN s.plan, In(y), Makes(g, Step(s, y), t)
        PROVE  FALSE
    <3>1. PICK a \in DOMAIN g.ops : RunsOp(Step(s, y), a) /\ t \in g.ops[a].out
      BY <2>4 DEF Makes
    <3>2. y # x
      BY <2>2, <2>4
    <3>3. t \in Step(s, y).out
      BY <3>1, <3>2, <2>3, TensorPasses
    <3> QED BY <3>3, <2>4, <1>3, <1>4, <1>11
  <2> QED BY <2>1, <2>2, <2>4, <1>9, <1>10
<1>12. ASSUME NEW t, Reads(g, kernel, t), ~ Makes(g, kernel, t)
       PROVE  t \in kernel.in
  <2>1. PICK x \in DOMAIN s.plan : In(x) /\ Reads(g, Step(s, x), t)
    BY <1>10, <1>12
  <2>2. \A y \in DOMAIN s.plan : In(y) => ~ Makes(g, Step(s, y), t)
    BY <1>9, <1>12
  <2>3. t \in Step(s, x).in
    BY <2>1, <2>2, <1>6, NamesTensor
  <2>4. \A y \in DOMAIN s.plan : In(y) => t \notin Step(s, y).out
    BY <2>2, <1>6, NamesTensor
  <2> QED BY <2>1, <2>3, <2>4, <1>3, <1>4
<1>13. ASSUME NEW t, t \in kernel.out
       PROVE  Makes(g, kernel, t) /\ Needed(g, kernel, t)
  <2>1. PICK x \in DOMAIN s.plan :
           /\ In(x) /\ t \in Step(s, x).out
           /\ t \in g.outputs \/ \E y \in DOMAIN s.plan : ~ In(y) /\ t \in Step(s, y).in
    BY <1>3, <1>5, <1>13
  <2>2. Makes(g, kernel, t)
    BY <2>1, <1>6, <1>9, NamesTensor
  <2>3. ASSUME NEW y \in DOMAIN s.plan, ~ In(y), t \in Step(s, y).in
        PROVE  Needed(g, kernel, t)
    <3>1. Reads(g, Step(s, y), t)
      BY <2>3, <1>6, NamesTensor
    <3>2. PICK b \in DOMAIN g.ops : RunsOp(Step(s, y), b) /\ t \in g.ops[b].in
      BY <3>1 DEF Reads
    <3>3. ~ RunsOp(kernel, b)
      BY <3>2, <2>3, <1>2, RunsApart
    <3> QED BY <3>2, <3>3 DEF Needed
  <2>4. t \in g.outputs => Needed(g, kernel, t)
    BY DEF Needed
  <2> QED BY <2>1, <2>2, <2>3, <2>4
<1>14. ASSUME NEW t, Makes(g, kernel, t), Needed(g, kernel, t)
       PROVE  t \in kernel.out
  <2>1. PICK x \in DOMAIN s.plan : In(x) /\ Makes(g, Step(s, x), t)
    BY <1>9, <1>14
  <2>2. PICK a \in DOMAIN g.ops : RunsOp(Step(s, x), a) /\ t \in g.ops[a].out
    BY <2>1 DEF Makes
  <2>3. CASE t \in g.outputs
    <3>1. Needed(g, Step(s, x), t)
      BY <2>3 DEF Needed
    <3>2. t \in Step(s, x).out
      BY <3>1, <2>1, <1>6, NamesTensor
    <3> QED BY <3>2, <2>1, <2>3, <1>3, <1>5
  <2>4. CASE t \notin g.outputs
    <3>1. PICK b \in DOMAIN g.ops : ~ RunsOp(kernel, b) /\ t \in g.ops[b].in
      BY <2>4, <1>14 DEF Needed
    <3>2. PICK y \in DOMAIN s.plan : RunsOp(Step(s, y), b)
      BY <1>8
    <3>3. ~ In(y) /\ y # x
      BY <3>1, <3>2, <2>1, <1>2
    <3>4. t \in Step(s, x).out /\ t \in Step(s, y).in
      BY <3>1, <3>2, <3>3, <2>2, TensorPasses
    <3> QED BY <3>3, <3>4, <2>1, <1>3, <1>5
  <2> QED BY <2>3, <2>4
<1>15. kernel.effect = HasEffect(g, kernel.in, kernel.out) /\ kernel.live
  BY <1>3
<1>16. Names(g, kernel)
  BY <1>7, <1>11, <1>12, <1>13, <1>14, <1>15 DEF Names
<1> QED BY <1>16 DEF kernel

\* Where op a was: run j of the node m of the subset e.
OpAt(s, subsets, epoch, a, e, m, j) ==
  \E x \in DOMAIN s.plan :
    /\ epoch[x] = e /\ At(s, subsets, epoch, x, m)
    /\ j \in DOMAIN Step(s, x).runs /\ Step(s, x).runs[j] = a

Before(e, m, j, f, k, l) == Earlier(e, m, f, k) \/ (e = f /\ m = k /\ j < l)

LEMMA OpHasPlace ==
  ASSUME NEW g \in Graphs, NEW s, Base(g, s), Scheduled(g, s), NEW claimed, NEW subsets, NEW epoch,
         Divided(g, s, claimed, subsets, epoch), NEW a \in DOMAIN g.ops
  PROVE  \E e, m, j : OpAt(s, subsets, epoch, a, e, m, j)
<1>1. PICK x \in DOMAIN s.plan : RunsOp(Step(s, x), a)
  BY DEF Scheduled
<1>2. PICK j \in DOMAIN Step(s, x).runs : Step(s, x).runs[j] = a
  BY <1>1 DEF RunsOp
<1>3. PICK m : At(s, subsets, epoch, x, m)
  BY DEF Divided
<1> QED BY <1>2, <1>3 DEF OpAt

LEMMA PlaceTypes ==
  ASSUME NEW g \in Graphs, NEW s, Base(g, s), NEW claimed, NEW subsets, NEW epoch,
         Divided(g, s, claimed, subsets, epoch),
         NEW a, NEW e, NEW m, NEW j, OpAt(s, subsets, epoch, a, e, m, j)
  PROVE  e \in DOMAIN subsets /\ e \in Nat /\ m \in Nat /\ j \in Nat /\ a \in DOMAIN g.ops
<1>1. PICK x \in DOMAIN s.plan :
        /\ epoch[x] = e /\ At(s, subsets, epoch, x, m)
        /\ j \in DOMAIN Step(s, x).runs /\ Step(s, x).runs[j] = a
  BY DEF OpAt
<1>2. subsets \in Seq(SubsetOf(TensorsOf(g))) /\ e \in DOMAIN subsets
  BY <1>1 DEF Divided
<1>3. e \in Nat /\ subsets[e] \in SubsetOf(TensorsOf(g))
  BY <1>2
<1>4. subsets[e].nodes \in Seq(Nat)
  BY <1>3 DEF SubsetOf
<1>5. m \in Nat
  BY <1>1, <1>4 DEF At
<1>6. Step(s, x).runs \in Seq(DOMAIN g.ops)
  BY BaseFacts DEF Nodes
<1> QED BY <1>1, <1>2, <1>3, <1>5, <1>6

LEMMA OnePlace ==
  ASSUME NEW g \in Graphs, NEW s, Base(g, s), Scheduled(g, s), NEW claimed, NEW subsets, NEW epoch,
         Divided(g, s, claimed, subsets, epoch),
         NEW a, NEW e, NEW m, NEW j, OpAt(s, subsets, epoch, a, e, m, j),
         NEW f, NEW k, NEW l, OpAt(s, subsets, epoch, a, f, k, l)
  PROVE  e = f /\ m = k /\ j = l
<1>1. PICK x \in DOMAIN s.plan :
        /\ epoch[x] = e /\ At(s, subsets, epoch, x, m)
        /\ j \in DOMAIN Step(s, x).runs /\ Step(s, x).runs[j] = a
  BY DEF OpAt
<1>2. PICK y \in DOMAIN s.plan :
        /\ epoch[y] = f /\ At(s, subsets, epoch, y, k)
        /\ l \in DOMAIN Step(s, y).runs /\ Step(s, y).runs[l] = a
  BY DEF OpAt
<1>3. x = y /\ j = l
  BY <1>1, <1>2 DEF Scheduled
<1>4. e \in DOMAIN subsets
  BY <1>1 DEF Divided
<1>5. m = k
  BY <1>1, <1>2, <1>3, <1>4 DEF At, Divided
<1> QED BY <1>1, <1>2, <1>3, <1>5

\* A node has an effect when one of its ops uses a handle that the node does not make,
\* or that others need.
LEMMA HandleNamed ==
  ASSUME NEW g \in Graphs, NEW node \in Nodes(g), Names(g, node),
         NEW a \in DOMAIN g.ops, RunsOp(node, a), NEW t, UsesHandle(g, a, t),
         Makes(g, node, t) => Needed(g, node, t)
  PROVE  node.effect
<1>1. t \in node.in \/ t \in node.out
  <2>1. CASE Makes(g, node, t)
    BY <2>1, NamesTensor
  <2>2. CASE ~ Makes(g, node, t)
    <3>1. t \in g.ops[a].in
      BY <2>2 DEF UsesHandle, Makes
    <3>2. Reads(g, node, t)
      BY <3>1 DEF Reads
    <3> QED BY <2>2, <3>2, NamesTensor
  <2> QED BY <2>1, <2>2
<1>2. HasEffect(g, node.in, node.out)
  BY <1>1 DEF HasEffect, UsesHandle
<1> QED BY <1>2 DEF Names

\* It has one when an op uses a handle that no kernel makes.
LEMMA EffectShown ==
  ASSUME NEW g \in Graphs, NEW node \in Nodes(g), Names(g, node), Origin(g, node),
         NEW a \in DOMAIN g.ops, RunsOp(node, a), ShowsHandle(g, a)
  PROVE  node.effect
<1>1. PICK t : /\ UsesHandle(g, a, t)
               /\ \A d \in Delegates : \A b \in g.claims[d] : t \notin g.ops[b].out
  BY DEF ShowsHandle
<1>2. CASE node.by = NoDelegate
  <2>1. PICK b \in DOMAIN g.ops : node = OpNode(g, b)
    BY <1>2 DEF Origin
  <2>2. node.runs = <<b>> /\ node.effect = HasEffect(g, g.ops[b].in, g.ops[b].out)
    BY <2>1 DEF OpNode
  <2>3. a = b
    BY <2>2 DEF RunsOp
  <2> QED BY <1>1, <2>2, <2>3 DEF HasEffect, UsesHandle
<1>3. CASE node.by # NoDelegate
  <2>1. ~ Makes(g, node, t)
    BY <1>1, <1>3 DEF Origin, RunsOp, Makes
  <2> QED BY <1>1, <2>1, HandleNamed
<1> QED BY <1>2, <1>3

\* Two steps that use one handle have an effect: what one of them makes, the other needs.
LEMMA SharedHandle ==
  ASSUME NEW g \in Graphs, NEW s, Base(g, s), Scheduled(g, s),
         NEW x \in DOMAIN s.plan, NEW y \in DOMAIN s.plan, x # y,
         NEW a \in DOMAIN g.ops, NEW b \in DOMAIN g.ops,
         RunsOp(Step(s, x), a), RunsOp(Step(s, y), b), NEW t, UsesHandle(g, a, t), UsesHandle(g, b, t)
  PROVE  Step(s, x).effect
<1>1. Step(s, x) \in Nodes(g) /\ Names(g, Step(s, x))
  BY BaseFacts DEF Scheduled
<1>2. ~ RunsOp(Step(s, x), b)
  BY RunsApart
<1>3. ASSUME Makes(g, Step(s, x), t) PROVE Needed(g, Step(s, x), t)
  <2>1. PICK c \in DOMAIN g.ops : RunsOp(Step(s, x), c) /\ t \in g.ops[c].out
    BY <1>3 DEF Makes
  <2>2. t \notin g.ops[b].out
    BY <1>2, <2>1, GraphFacts
  <2>3. t \in g.ops[b].in
    BY <2>2 DEF UsesHandle
  <2> QED BY <1>2, <2>3 DEF Needed
<1> QED BY <1>1, <1>3, HandleNamed

\* The partition keeps the ops in order.
LEMMA PlacesInOrder ==
  ASSUME NEW g \in Graphs, NEW s, Base(g, s), Scheduled(g, s), NEW claimed, NEW subsets, NEW epoch,
         Divided(g, s, claimed, subsets, epoch), NEW a, NEW b, OpMustPrecede(g, a, b),
         NEW e, NEW m, NEW j, OpAt(s, subsets, epoch, a, e, m, j),
         NEW f, NEW k, NEW l, OpAt(s, subsets, epoch, b, f, k, l)
  PROVE  Before(e, m, j, f, k, l)
<1>1. PICK x \in DOMAIN s.plan :
        /\ epoch[x] = e /\ At(s, subsets, epoch, x, m)
        /\ j \in DOMAIN Step(s, x).runs /\ Step(s, x).runs[j] = a
  BY DEF OpAt
<1>2. PICK y \in DOMAIN s.plan :
        /\ epoch[y] = f /\ At(s, subsets, epoch, y, k)
        /\ l \in DOMAIN Step(s, y).runs /\ Step(s, y).runs[l] = b
  BY DEF OpAt
<1>3. Earlier(x, j, y, l)
  BY <1>1, <1>2 DEF Scheduled
<1>4. CASE x = y
  <2>1. j < l
    <3>1. x \in Nat
      BY BaseFacts
    <3> QED BY <3>1, <1>3, <1>4 DEF Earlier
  <2>2. e \in DOMAIN subsets
    BY <1>1 DEF Divided
  <2>3. m = k
    BY <2>2, <1>1, <1>2, <1>4 DEF At, Divided
  <2> QED BY <2>1, <2>3, <1>1, <1>2, <1>4 DEF Before
<1>5. CASE x # y
  <2>1. x < y
    BY <1>3, <1>5 DEF Earlier
  <2>2. a \in DOMAIN g.ops /\ b \in DOMAIN g.ops
    BY PlaceTypes
  <2>3. RunsOp(Step(s, x), a) /\ RunsOp(Step(s, y), b)
    BY <1>1, <1>2 DEF RunsOp
  <2>4. /\ Step(s, x) \in Nodes(g) /\ Step(s, y) \in Nodes(g)
        /\ Names(g, Step(s, x)) /\ Names(g, Step(s, y))
        /\ Origin(g, Step(s, x)) /\ Origin(g, Step(s, y))
    BY BaseFacts DEF Scheduled
  <2>5. \/ Step(s, x).out \intersect Step(s, y).in # {}
        \/ Step(s, x).effect /\ Step(s, y).effect
        \/ ~ g.greedily
    <3>1. CASE g.ops[a].out \intersect g.ops[b].in # {}
      <4>1. PICK t : t \in g.ops[a].out /\ t \in g.ops[b].in
        BY <3>1
      <4>2. t \in Step(s, x).out /\ t \in Step(s, y).in
        BY <4>1, <2>2, <2>3, <1>5, TensorPasses
      <4> QED BY <4>2
    <3>2. CASE \E t : UsesHandle(g, a, t) /\ UsesHandle(g, b, t)
      <4>1. PICK t : UsesHandle(g, a, t) /\ UsesHandle(g, b, t)
        BY <3>2
      <4>2. Step(s, x).effect /\ Step(s, y).effect
        BY <4>1, <2>2, <2>3, <1>5, SharedHandle
      <4> QED BY <4>2
    <3>3. CASE ShowsHandle(g, a) /\ ShowsHandle(g, b)
      <4>1. Step(s, x).effect /\ Step(s, y).effect
        BY <3>3, <2>2, <2>3, <2>4, EffectShown
      <4> QED BY <4>1
    <3>4. CASE ~ g.greedily
      BY <3>4
    <3> QED BY <3>1, <3>2, <3>3, <3>4 DEF OpMustPrecede
  <2>6. Earlier(epoch[x], m, epoch[y], k)
    BY <2>1, <2>5, <1>1, <1>2 DEF Divided
  <2> QED BY <2>6, <1>1, <1>2 DEF Before
<1> QED BY <1>4, <1>5

\* The plan of q, step by step: step p is what became of the subset row[p], the
\* kernel or the node col[p].
Laid(g, s, d, subsets, epoch, q, row, col) ==
  /\ \A p \in DOMAIN q.plan :
       /\ row[p] \in DOMAIN subsets
       /\ subsets[row[p]].type = "partition" =>
            col[p] = 1 /\ Step(q, p) = Kernel(g, s, d, subsets[row[p]])
       /\ subsets[row[p]].type # "partition" =>
            \E x \in DOMAIN s.plan :
              epoch[x] = row[p] /\ At(s, subsets, epoch, x, col[p]) /\ Step(q, p) = Step(s, x)
  /\ \A p, k \in DOMAIN q.plan : p < k => Earlier(row[p], col[p], row[k], col[k])
  /\ \A x \in DOMAIN s.plan : \A m :
       At(s, subsets, epoch, x, m) =>
         \E p \in DOMAIN q.plan :
           row[p] = epoch[x] /\ (subsets[epoch[x]].type # "partition" => col[p] = m)

LEMMA AssembledIsLaid ==
  ASSUME NEW g \in Graphs, NEW s, Base(g, s), Scheduled(g, s), NEW claimed, NEW subsets, NEW epoch,
         Divided(g, s, claimed, subsets, epoch), NEW d \in Delegates,
         NEW q, Replacing(g, s, q), Assembled(g, s, d, subsets, Len(subsets), q)
  PROVE  \E row, col : Laid(g, s, d, subsets, epoch, q, row, col)
<1> DEFINE n == Len(subsets)
<1>1. subsets \in Seq(SubsetOf(TensorsOf(g)))
  BY DEF Divided
<1>2. n \in Nat /\ DOMAIN subsets = 1..n
  BY <1>1
<1> HIDE DEF n
<1>3. PICK pieces \in Seq(Seq(Nat)) :
        /\ Len(pieces) = n
        /\ IsFlat(Nat, pieces, n, q.plan)
        /\ \A e \in 1..n : IsPiece(g, s, d, subsets[e], pieces[e], q.nodes)
  BY DEF Assembled, n
<1>4. PICK row, col : Flattens(pieces, n, q.plan, row, col)
  BY <1>3 DEF IsFlat
<1>5. ASSUME NEW p \in DOMAIN q.plan
      PROVE  /\ row[p] \in DOMAIN subsets
             /\ subsets[row[p]].type = "partition" =>
                  col[p] = 1 /\ Step(q, p) = Kernel(g, s, d, subsets[row[p]])
             /\ subsets[row[p]].type # "partition" =>
                  \E x \in DOMAIN s.plan : epoch[x] = row[p] /\ At(s, subsets, epoch, x, col[p])
                                           /\ Step(q, p) = Step(s, x)
  <2>1. /\ row[p] \in 1..n /\ col[p] \in DOMAIN pieces[row[p]]
        /\ q.plan[p] = pieces[row[p]][col[p]]
    BY <1>4 DEF Flattens
  <2>2. IsPiece(g, s, d, subsets[row[p]], pieces[row[p]], q.nodes)
    BY <2>1, <1>3
  <2>3. CASE subsets[row[p]].type = "partition"
    <3>1. PICK id \in DOMAIN q.nodes :
            pieces[row[p]] = <<id>> /\ q.nodes[id] = Kernel(g, s, d, subsets[row[p]])
      BY <2>2, <2>3 DEF IsPiece
    <3>2. col[p] = 1 /\ q.plan[p] = id
      <4>1. DOMAIN <<id>> = 1..1 /\ <<id>>[1] = id
        OBVIOUS
      <4>2. col[p] \in 1..1
        BY <4>1, <3>1, <2>1
      <4>3. col[p] = 1
        BY <4>2
      <4> QED BY <4>1, <4>3, <3>1, <2>1
    <3> QED BY <3>1, <3>2, <2>1, <2>3, <1>2 DEF Step
  <2>4. CASE subsets[row[p]].type # "partition"
    <3>1. pieces[row[p]] = subsets[row[p]].nodes
      BY <2>2, <2>4 DEF IsPiece
    <3>2. PICK x \in DOMAIN s.plan :
            epoch[x] = row[p] /\ subsets[row[p]].nodes[col[p]] = s.plan[x]
      BY <3>1, <2>1, <1>2 DEF Divided
    <3>3. At(s, subsets, epoch, x, col[p])
      BY <3>1, <3>2, <2>1 DEF At
    <3>4. s.plan[x] \in DOMAIN s.nodes /\ q.plan[p] = s.plan[x]
      BY <3>1, <3>2, <2>1, BaseFacts
    <3>5. Step(q, p) = Step(s, x)
      BY <3>4 DEF Replacing, Step
    <3> QED BY <3>2, <3>3, <3>5, <2>1, <2>4, <1>2
  <2> QED BY <2>3, <2>4
<1>6. \A p, k \in DOMAIN q.plan : p < k => Earlier(row[p], col[p], row[k], col[k])
  BY <1>4 DEF Flattens
<1>7. ASSUME NEW x \in DOMAIN s.plan, NEW m, At(s, subsets, epoch, x, m)
      PROVE  \E p \in DOMAIN q.plan :
               row[p] = epoch[x] /\ (subsets[epoch[x]].type # "partition" => col[p] = m)
  <2>1. epoch[x] \in 1..n
    BY <1>2 DEF Divided
  <2>2. IsPiece(g, s, d, subsets[epoch[x]], pieces[epoch[x]], q.nodes)
    BY <2>1, <1>3
  <2>3. CASE subsets[epoch[x]].type = "partition"
    <3>1. PICK id : pieces[epoch[x]] = <<id>>
      BY <2>2, <2>3 DEF IsPiece
    <3>2. 1 \in DOMAIN pieces[epoch[x]]
      BY <3>1
    <3> QED BY <3>2, <2>1, <2>3, <1>4 DEF Flattens
  <2>4. CASE subsets[epoch[x]].type # "partition"
    <3>1. m \in DOMAIN pieces[epoch[x]]
      BY <2>2, <2>4, <1>7 DEF IsPiece, At
    <3> QED BY <3>1, <2>1, <2>4, <1>4 DEF Flattens
  <2> QED BY <2>3, <2>4
<1>8. Laid(g, s, d, subsets, epoch, q, row, col)
  BY <1>5, <1>6, <1>7 DEF Laid
<1> QED BY <1>8

\* Where the ops of one step of q were.
LEMMA OpsOfStep ==
  ASSUME NEW g \in Graphs, NEW s, Base(g, s), Scheduled(g, s), NEW claimed, NEW subsets, NEW epoch,
         Divided(g, s, claimed, subsets, epoch), NEW d \in Delegates,
         NEW q, NEW row, NEW col, Laid(g, s, d, subsets, epoch, q, row, col),
         NEW p \in DOMAIN q.plan
  PROVE  \E m, j :
           /\ \A l \in DOMAIN Step(q, p).runs :
                /\ OpAt(s, subsets, epoch, Step(q, p).runs[l], row[p], m[l], j[l])
                /\ subsets[row[p]].type # "partition" => m[l] = col[p]
           /\ \A l, k \in DOMAIN Step(q, p).runs : l < k => Earlier(m[l], j[l], m[k], j[k])
<1>1. CASE subsets[row[p]].type # "partition"
  <2>1. PICK x \in DOMAIN s.plan :
          epoch[x] = row[p] /\ At(s, subsets, epoch, x, col[p]) /\ Step(q, p) = Step(s, x)
    BY <1>1 DEF Laid
  <2> DEFINE m == [l \in DOMAIN Step(q, p).runs |-> col[p]]
             j == [l \in DOMAIN Step(q, p).runs |-> l]
  <2>2. \A l \in DOMAIN Step(q, p).runs : m[l] = col[p] /\ j[l] = l
    OBVIOUS
  <2> HIDE DEF m, j
  <2>3. \A l \in DOMAIN Step(q, p).runs :
          OpAt(s, subsets, epoch, Step(q, p).runs[l], row[p], m[l], j[l])
    BY <2>1, <2>2 DEF OpAt
  <2>4. \A l, k \in DOMAIN Step(q, p).runs : l < k => Earlier(m[l], j[l], m[k], j[k])
    BY <2>2 DEF Earlier
  <2> QED BY <2>2, <2>3, <2>4
<1>2. CASE subsets[row[p]].type = "partition"
  <2> DEFINE e == row[p]
             subset == subsets[e]
             seqs == [i \in DOMAIN subset.nodes |-> s.nodes[subset.nodes[i]].runs]
             runs == SubsetRuns(s, subset)
  <2>1. e \in DOMAIN subsets /\ Step(q, p).runs = runs
    BY <1>2 DEF Laid, Kernel
  <2>2. IsSubset(g, s, subset)
    BY <2>1, KernelOps
  <2>3. \A i \in DOMAIN subset.nodes :
          \E x \in DOMAIN s.plan : epoch[x] = e /\ subset.nodes[i] = s.plan[x]
    BY <2>1 DEF Divided
  <2> HIDE DEF e
  <2>4. \A i \in DOMAIN subset.nodes : \A x \in DOMAIN s.plan :
          epoch[x] = e /\ subset.nodes[i] = s.plan[x] => At(s, subsets, epoch, x, i)
    BY DEF At
  <2> HIDE DEF subset
  <2>5. DOMAIN subset.nodes = 1..Len(subset.nodes)
    BY <2>2 DEF IsSubset, SubsetOf
  <2>6. IsFlat(DOMAIN g.ops, seqs, Len(subset.nodes), runs)
    BY <2>2, SubsetRunsOps
  <2>7. PICK m, j : Flattens(seqs, Len(subset.nodes), runs, m, j)
    BY <2>6 DEF IsFlat
  <2>8. \A i \in DOMAIN subset.nodes : seqs[i] = s.nodes[subset.nodes[i]].runs
    OBVIOUS
  <2> HIDE DEF seqs, runs
  <2>9. ASSUME NEW l \in DOMAIN runs
        PROVE  OpAt(s, subsets, epoch, runs[l], e, m[l], j[l])
    <3>1. m[l] \in DOMAIN subset.nodes /\ j[l] \in DOMAIN seqs[m[l]]
          /\ runs[l] = seqs[m[l]][j[l]]
      BY <2>5, <2>7 DEF Flattens
    <3>2. PICK x \in DOMAIN s.plan : epoch[x] = e /\ subset.nodes[m[l]] = s.plan[x]
      BY <3>1, <2>3
    <3>3. seqs[m[l]] = Step(s, x).runs
      BY <3>1, <3>2, <2>8 DEF Step
    <3>4. At(s, subsets, epoch, x, m[l])
      BY <3>1, <3>2, <2>4
    <3> QED BY <3>1, <3>2, <3>3, <3>4 DEF OpAt
  <2>10. \A l, k \in DOMAIN runs : l < k => Earlier(m[l], j[l], m[k], j[k])
    BY <2>7 DEF Flattens
  <2> QED BY <2>1, <2>9, <2>10, <1>2 DEF e
<1> QED BY <1>1, <1>2

\* The steps of q run the ops in the order of their places.
LEMMA SlotsInOrder ==
  ASSUME NEW g \in Graphs, NEW s, Base(g, s), Scheduled(g, s), NEW claimed, NEW subsets, NEW epoch,
         Divided(g, s, claimed, subsets, epoch), NEW d \in Delegates,
         NEW q, NEW row, NEW col, Laid(g, s, d, subsets, epoch, q, row, col),
         NEW p \in DOMAIN q.plan, NEW l \in DOMAIN Step(q, p).runs,
         NEW o \in DOMAIN q.plan, NEW h \in DOMAIN Step(q, o).runs, Earlier(p, l, o, h),
         NEW e, NEW m, NEW j, OpAt(s, subsets, epoch, Step(q, p).runs[l], e, m, j),
         NEW f, NEW u, NEW v, OpAt(s, subsets, epoch, Step(q, o).runs[h], f, u, v)
  PROVE  Before(e, m, j, f, u, v)
<1>1. PICK mp, jp :
         /\ \A i \in DOMAIN Step(q, p).runs :
                /\ OpAt(s, subsets, epoch, Step(q, p).runs[i], row[p], mp[i], jp[i])
                /\ subsets[row[p]].type # "partition" => mp[i] = col[p]
         /\ \A i, k \in DOMAIN Step(q, p).runs : i < k => Earlier(mp[i], jp[i], mp[k], jp[k])
  BY OpsOfStep
<1>2. PICK mo, jo :
         \A i \in DOMAIN Step(q, o).runs :
                /\ OpAt(s, subsets, epoch, Step(q, o).runs[i], row[o], mo[i], jo[i])
                /\ subsets[row[o]].type # "partition" => mo[i] = col[o]
  BY OpsOfStep
<1>3. e = row[p] /\ m = mp[l] /\ j = jp[l]
  BY <1>1, OnePlace
<1>4. f = row[o] /\ u = mo[h] /\ v = jo[h]
  BY <1>2, OnePlace
<1>5. CASE p < o
  <2>1. Earlier(row[p], col[p], row[o], col[o])
    BY <1>5 DEF Laid
  <2>2. CASE row[p] < row[o]
    BY <2>2, <1>3, <1>4 DEF Before, Earlier
  <2>3. CASE row[p] = row[o] /\ col[p] < col[o]
    <3>1. subsets[row[p]].type # "partition"
      BY <2>3 DEF Laid
    <3>2. m = col[p] /\ u = col[o]
      BY <3>1, <2>3, <1>1, <1>2, <1>3, <1>4
    <3> QED BY <3>2, <2>3, <1>3, <1>4 DEF Before, Earlier
  <2> QED BY <2>1, <2>2, <2>3 DEF Earlier
<1>6. CASE p = o /\ l < h
  <2>1. Earlier(mp[l], jp[l], mp[h], jp[h])
    BY <1>1, <1>6
  <2>2. f = row[p] /\ u = mp[h] /\ v = jp[h]
    BY <1>1, <1>6, OnePlace
  <2> QED BY <2>1, <2>2, <1>3 DEF Before, Earlier
<1> QED BY <1>5, <1>6 DEF Earlier

\* Replacing the claimed subsets by kernels keeps the plan a schedule.
LEMMA ReplacedIsScheduled ==
  ASSUME NEW g \in Graphs, NEW s, Base(g, s), Scheduled(g, s), NEW claimed, NEW subsets, NEW epoch,
         Divided(g, s, claimed, subsets, epoch), NEW d \in Delegates,
         NEW q, Replacing(g, s, q), Assembled(g, s, d, subsets, Len(subsets), q),
         \A x \in claimed : x \in DOMAIN s.plan => Step(s, x).by = NoDelegate /\ s.plan[x] \in g.claims[d]
  PROVE  Scheduled(g, q)
<1>1. PICK row, col : Laid(g, s, d, subsets, epoch, q, row, col)
  BY AssembledIsLaid
<1>2. /\ DOMAIN q.plan = 1..Len(q.plan) /\ Len(q.plan) \in Nat
      /\ \A p \in DOMAIN q.plan : Step(q, p) \in Nodes(g)
  BY BaseFacts DEF Replacing
<1>3. ASSUME NEW p \in DOMAIN q.plan
      PROVE  Names(g, Step(q, p))
  <2>1. row[p] \in DOMAIN subsets
    BY <1>1 DEF Laid
  <2>2. CASE subsets[row[p]].type = "partition"
    BY <2>1, <2>2, <1>1, KernelNames DEF Laid
  <2>3. CASE subsets[row[p]].type # "partition"
    <3>1. PICK x \in DOMAIN s.plan : Step(q, p) = Step(s, x)
      BY <2>3, <1>1 DEF Laid
    <3> QED BY <3>1 DEF Scheduled
  <2> QED BY <2>2, <2>3
<1>4. ASSUME NEW p \in DOMAIN q.plan, NEW l \in DOMAIN Step(q, p).runs
      PROVE  Step(q, p).runs[l] \in DOMAIN g.ops /\ l \in Nat /\ p \in Nat
  BY <1>2 DEF Nodes
<1>5. ASSUME NEW p \in DOMAIN q.plan, NEW l \in DOMAIN Step(q, p).runs,
             NEW o \in DOMAIN q.plan, NEW h \in DOMAIN Step(q, o).runs, Earlier(p, l, o, h)
      PROVE  /\ Step(q, p).runs[l] # Step(q, o).runs[h]
             /\ ~ OpMustPrecede(g, Step(q, o).runs[h], Step(q, p).runs[l])
  <2>1. PICK e, m, j : OpAt(s, subsets, epoch, Step(q, p).runs[l], e, m, j)
    BY <1>4, OpHasPlace
  <2>2. PICK f, u, v : OpAt(s, subsets, epoch, Step(q, o).runs[h], f, u, v)
    BY <1>4, OpHasPlace
  <2>3. Before(e, m, j, f, u, v)
    BY <2>1, <2>2, <1>1, <1>5, SlotsInOrder
  <2>4. e \in Nat /\ m \in Nat /\ j \in Nat /\ f \in Nat /\ u \in Nat /\ v \in Nat
    BY <2>1, <2>2, PlaceTypes
  <2>5. Step(q, p).runs[l] # Step(q, o).runs[h]
    <3>1. Step(q, p).runs[l] = Step(q, o).runs[h] => e = f /\ m = u /\ j = v
      BY <2>1, <2>2, OnePlace
    <3> QED BY <3>1, <2>3, <2>4 DEF Before, Earlier
  <2>6. ~ OpMustPrecede(g, Step(q, o).runs[h], Step(q, p).runs[l])
    <3>1. OpMustPrecede(g, Step(q, o).runs[h], Step(q, p).runs[l]) => Before(f, u, v, e, m, j)
      BY <2>1, <2>2, PlacesInOrder
    <3> QED BY <3>1, <2>3, <2>4 DEF Before, Earlier
  <2> QED BY <2>5, <2>6
<1>6. ASSUME NEW p \in DOMAIN q.plan, NEW o \in DOMAIN q.plan,
             NEW l \in DOMAIN Step(q, p).runs, NEW h \in DOMAIN Step(q, o).runs
      PROVE  /\ Step(q, p).runs[l] = Step(q, o).runs[h] => p = o /\ l = h
             /\ OpMustPrecede(g, Step(q, p).runs[l], Step(q, o).runs[h]) => Earlier(p, l, o, h)
  <2>1. p \in Nat /\ l \in Nat /\ o \in Nat /\ h \in Nat
    BY <1>4
  <2>2. Earlier(p, l, o, h) \/ Earlier(o, h, p, l) \/ (p = o /\ l = h)
    BY <2>1 DEF Earlier
  <2>3. CASE Earlier(p, l, o, h)
    BY <2>3, <1>5
  <2>4. CASE Earlier(o, h, p, l)
    <3>1. /\ Step(q, o).runs[h] # Step(q, p).runs[l]
          /\ ~ OpMustPrecede(g, Step(q, p).runs[l], Step(q, o).runs[h])
      BY <2>4, <1>5
    <3> QED BY <3>1
  <2>5. CASE p = o /\ l = h
    <3>1. Step(q, p).runs[l] \in Nat
      BY <1>4, GraphFacts
    <3>2. ~ OpMustPrecede(g, Step(q, p).runs[l], Step(q, o).runs[h])
      BY <3>1, <2>5 DEF OpMustPrecede
    <3> QED BY <3>2, <2>5
  <2> QED BY <2>2, <2>3, <2>4, <2>5
<1>7. ASSUME NEW a \in DOMAIN g.ops
      PROVE  \E p \in DOMAIN q.plan : RunsOp(Step(q, p), a)
  <2>1. PICK x \in DOMAIN s.plan : RunsOp(Step(s, x), a)
    BY DEF Scheduled
  <2>2. PICK m : At(s, subsets, epoch, x, m)
    BY DEF Divided
  <2>3. PICK p \in DOMAIN q.plan :
          row[p] = epoch[x] /\ (subsets[epoch[x]].type # "partition" => col[p] = m)
    BY <2>2, <1>1 DEF Laid
  <2>4. epoch[x] \in DOMAIN subsets
    BY DEF Divided
  <2>5. CASE subsets[epoch[x]].type = "partition"
    <3>1. Step(q, p) = Kernel(g, s, d, subsets[epoch[x]])
      BY <2>3, <2>5, <1>1 DEF Laid
    <3>2. RunsOp(Kernel(g, s, d, subsets[epoch[x]]), a)
      BY <2>1, <2>4, KernelOps
    <3> QED BY <3>1, <3>2
  <2>6. CASE subsets[epoch[x]].type # "partition"
    <3>1. PICK y \in DOMAIN s.plan :
            epoch[y] = row[p] /\ At(s, subsets, epoch, y, col[p]) /\ Step(q, p) = Step(s, y)
      BY <2>3, <2>6, <1>1 DEF Laid
    <3>2. s.plan[y] = s.plan[x]
      BY <2>2, <2>3, <2>6, <3>1 DEF At
    <3>3. Step(q, p) = Step(s, x)
      BY <3>1, <3>2 DEF Step
    <3> QED BY <2>1, <3>3
  <2> QED BY <2>5, <2>6
<1>8. ASSUME NEW p \in DOMAIN q.plan
      PROVE  Origin(g, Step(q, p))
  <2>1. row[p] \in DOMAIN subsets
    BY <1>1 DEF Laid
  <2>2. CASE subsets[row[p]].type = "partition"
    <3>1. Step(q, p) = Kernel(g, s, d, subsets[row[p]])
      BY <2>2, <1>1 DEF Laid
    <3>2. Step(q, p).by = d /\ d # NoDelegate
      BY <3>1, DelegatesAssumption DEF Kernel
    <3>3. ASSUME NEW j \in DOMAIN Step(q, p).runs
          PROVE  Step(q, p).runs[j] \in g.claims[d]
      <4>1. RunsOp(Kernel(g, s, d, subsets[row[p]]), Step(q, p).runs[j])
        BY <3>1 DEF RunsOp
      <4>2. PICK x \in DOMAIN s.plan : epoch[x] = row[p] /\ RunsOp(Step(s, x), Step(q, p).runs[j])
        BY <4>1, <2>1, KernelOps
      <4>3. x \in claimed
        BY <4>2, <2>2 DEF Divided
      <4>4. s.plan[x] \in g.claims[d] /\ s.plan[x] \in DOMAIN g.ops
        BY <4>3, GraphsAssumption
      <4>5. Step(s, x) = OpNode(g, s.plan[x])
        BY <4>4 DEF Step, Base
      <4>6. Step(s, x).runs = <<s.plan[x]>>
        BY <4>5 DEF OpNode
      <4>7. Step(q, p).runs[j] = s.plan[x]
        BY <4>2, <4>6 DEF RunsOp
      <4> QED BY <4>4, <4>7
    <3> QED BY <3>2, <3>3 DEF Origin
  <2>3. CASE subsets[row[p]].type # "partition"
    <3>1. PICK x \in DOMAIN s.plan : Step(q, p) = Step(s, x)
      BY <2>3, <1>1 DEF Laid
    <3> QED BY <3>1 DEF Scheduled
  <2> QED BY <2>2, <2>3
<1> QED BY <1>3, <1>6, <1>7, <1>8 DEF Scheduled

-----------------------------------------------------------------------------
(* What a schedule promises.                                               *)

\* There are no more steps than ops: every step runs an op of its own.
LEMMA ScheduledIsShort ==
  ASSUME NEW g \in Graphs, NEW s, Base(g, s), Scheduled(g, s)
  PROVE  Short(g, s)
<1> DEFINE n == Len(s.plan)
           m == Len(g.ops)
           f == [i \in 1..n |-> Step(s, i).runs[1]]
<1>1. n \in Nat /\ DOMAIN s.plan = 1..n /\ m \in Nat /\ DOMAIN g.ops = 1..m
  BY BaseFacts, GraphFacts
<1>2. ASSUME NEW i \in 1..n
      PROVE  1 \in DOMAIN Step(s, i).runs /\ Step(s, i).runs[1] \in 1..m
  <2>1. Step(s, i).runs \in Seq(1..m)
    BY <1>1, BaseFacts DEF Nodes
  <2>2. Step(s, i).runs # << >>
    BY <1>1 DEF Scheduled, Names
  <2> QED BY <2>1, <2>2
<1>3. f \in [1..n -> 1..m]
  BY <1>2
<1>4. \A i, k \in 1..n : f[i] = f[k] => i = k
  BY <1>1, <1>2 DEF Scheduled
<1> HIDE DEF f, n, m
<1>5. IsFiniteSet(1..n) /\ IsFiniteSet(1..m) /\ Cardinality(1..n) = n /\ Cardinality(1..m) = m
  BY <1>1, FS_Interval
<1>6. ASSUME m < n
      PROVE  FALSE
  <2>1. Cardinality(1..m) < Cardinality(1..n)
    BY <1>5, <1>6
  <2>2. \E i, k \in 1..n : i # k /\ f[i] = f[k]
    BY <1>3, <1>5, <2>1, FS_PigeonHole, Zenon
  <2> QED BY <1>4, <2>2
<1>7. n <= m
  BY <1>1, <1>6
<1> QED BY <1>7 DEF Short, n, m

\* What a step reads is an input of the model or an output of another step.
LEMMA ServedIsCovered ==
  ASSUME NEW g \in Graphs, NEW s, Base(g, s), Scheduled(g, s), Served(g, s)
  PROVE  Covered(s)
<1>1. SUFFICES ASSUME NEW i \in DOMAIN s.plan, NEW t \in Step(s, i).in
               PROVE  t \in s.allocated
  BY DEF Served, Covered
<1>2. Step(s, i) \in Nodes(g) /\ Names(g, Step(s, i))
  BY BaseFacts DEF Scheduled
<1>3. Reads(g, Step(s, i), t) /\ ~ Makes(g, Step(s, i), t)
  BY <1>1, <1>2, NamesTensor
<1>4. PICK b \in DOMAIN g.ops : RunsOp(Step(s, i), b) /\ t \in g.ops[b].in
  BY <1>3 DEF Reads
<1>5. CASE t \in g.inputs
  BY <1>5 DEF Served
<1>6. CASE t \notin g.inputs
  <2>1. PICK a \in DOMAIN g.ops : t \in g.ops[a].out
    BY <1>4, <1>6, GraphFacts
  <2>2. PICK x \in DOMAIN s.plan : RunsOp(Step(s, x), a)
    BY DEF Scheduled
  <2>3. x # i
    BY <1>3, <2>1, <2>2 DEF Makes
  <2>4. t \in Step(s, x).out
    BY <1>4, <2>1, <2>2, <2>3, TensorPasses
  <2> QED BY <2>4 DEF Served
<1> QED BY <1>5, <1>6

\* Kernels whose outputs have a size replace steps whose outputs have one.
LEMMA SizesStayKnown ==
  ASSUME NEW g \in Graphs, NEW s, Base(g, s), Scheduled(g, s), NEW claimed, NEW subsets, NEW epoch,
         Divided(g, s, claimed, subsets, epoch), NEW d \in Delegates, d \notin g.makesDynamic,
         NEW q, Replacing(g, s, q), Assembled(g, s, d, subsets, Len(subsets), q), AllSized(g, s)
  PROVE  AllSized(g, q)
<1>1. PICK row, col : Laid(g, s, d, subsets, epoch, q, row, col)
  BY AssembledIsLaid
<1>2. ASSUME NEW p \in DOMAIN q.plan
      PROVE  /\ Step(q, p).by \notin g.makesDynamic
             /\ \A j \in DOMAIN Step(q, p).runs : Step(q, p).runs[j] \notin g.unsized
  <2>1. row[p] \in DOMAIN subsets
    BY <1>1 DEF Laid
  <2>2. CASE subsets[row[p]].type = "partition"
    <3>1. Step(q, p) = Kernel(g, s, d, subsets[row[p]])
      BY <2>2, <1>1 DEF Laid
    <3>2. Step(q, p).by = d
      BY <3>1 DEF Kernel
    <3>3. ASSUME NEW j \in DOMAIN Step(q, p).runs
          PROVE  Step(q, p).runs[j] \notin g.unsized
      <4>1. RunsOp(Kernel(g, s, d, subsets[row[p]]), Step(q, p).runs[j])
        BY <3>1 DEF RunsOp
      <4>2. PICK x \in DOMAIN s.plan : RunsOp(Step(s, x), Step(q, p).runs[j])
        BY <4>1, <2>1, KernelOps
      <4> QED BY <4>2 DEF AllSized, RunsOp
    <3> QED BY <3>2, <3>3
  <2>3. CASE subsets[row[p]].type # "partition"
    <3>1. PICK x \in DOMAIN s.plan : Step(q, p) = Step(s, x)
      BY <2>3, <1>1 DEF Laid
    <3> QED BY <3>1 DEF AllSized
  <2> QED BY <2>2, <2>3
<1> QED BY <1>2 DEF AllSized

-----------------------------------------------------------------------------
(* The steps of ModifyGraphWithDelegate.                                   *)

\* The Prepare of a delegate leaves a schedule, or fails and leaves what can be
\* undone.
LEMMA DelegatePrepareKeeps ==
  ASSUME graph \in Graphs, NEW s, Base(graph, s), Scheduled(graph, s), NEW d \in Delegates,
         NEW faults, NEW r, r = DelegatePrepare(s, d, faults)
  PROVE  /\ r.ok \in BOOLEAN /\ Replacing(graph, s, r.s)
         /\ r.ok => Scheduled(graph, r.s)
         /\ r.ok /\ AllSized(graph, s) /\ d \notin graph.makesDynamic => AllSized(graph, r.s)
<1> DEFINE claimed == Claimed(s, d)
           nodes == PlanNodes(s)
           parts == Partition(nodes, claimed, graph.outputs, graph.greedily, graph.preserve)
<1>1. Replacing(graph, s, s)
  BY DEF Replacing
<1>2. /\ "refuse" \in faults => r = [ok |-> FALSE, s |-> s]
      /\ "refuse" \notin faults /\ claimed = {} => r = [ok |-> TRUE, s |-> s]
      /\ "refuse" \notin faults /\ claimed # {} => r = ReplaceSubsets(s, d, parts, faults)
  BY DEF DelegatePrepare, ReplaceNodeSubsetsWithDelegateKernels
<1>3. ~ parts.ok => ReplaceSubsets(s, d, parts, faults) = [ok |-> FALSE, s |-> s]
  BY DEF ReplaceSubsets
<1>4. GraphNodes(TensorsOf(graph), nodes)
  BY PlanIsGraph
<1>5. graph.greedily \in BOOLEAN /\ graph.preserve \in BOOLEAN
  BY GraphsAssumption
<1>6. parts = Partition(nodes, claimed, graph.outputs, graph.greedily, graph.preserve)
  OBVIOUS
<1> HIDE DEF claimed, parts
<1>7. CASE "refuse" \notin faults /\ claimed # {} /\ parts.ok
  <2>1. r = ReplaceSubsets(s, d, parts, faults)
    BY <1>2, <1>7
  <2>2. PICK epoch : IsPartition(TensorsOf(graph), nodes, claimed, graph.outputs, graph.greedily,
                                 parts.subsets, epoch)
    BY <1>4, <1>5, <1>6, <1>7, PartitionDivides
  <2>3. Divided(graph, s, claimed, parts.subsets, epoch)
    BY <2>2, PartitionIsDivided
  <2> DEFINE n == Len(parts.subsets)
  <2>4. n \in Nat /\ DOMAIN parts.subsets = 1..n
    BY <2>3 DEF Divided
  <2>5. \A e \in 1..n : IsSubset(graph, s, parts.subsets[e])
    BY <2>3, <2>4, KernelOps
  <2>6. /\ r.ok \in BOOLEAN /\ Replacing(graph, s, r.s)
        /\ r.ok => Assembled(graph, s, d, parts.subsets, n, r.s)
    <3> HIDE DEF n
    <3>1. Len(parts.subsets) = n
      BY DEF n
    <3> QED BY <2>1, <2>4, <2>5, <3>1, <1>7, ReplaceSubsetsAssembles
  <2>7. r.ok => Scheduled(graph, r.s)
    <3>1. \A x \in claimed : x \in DOMAIN s.plan =>
            Step(s, x).by = NoDelegate /\ s.plan[x] \in graph.claims[d]
      BY DEF claimed, Claimed, Step
    <3> QED BY <2>3, <2>6, <3>1, ReplacedIsScheduled
  <2>8. r.ok /\ AllSized(graph, s) /\ d \notin graph.makesDynamic => AllSized(graph, r.s)
    BY <2>3, <2>6, SizesStayKnown
  <2> QED BY <2>6, <2>7, <2>8
<1>8. CASE ~ ("refuse" \notin faults /\ claimed # {} /\ parts.ok)
  <2>1. r = [ok |-> FALSE, s |-> s] \/ r = [ok |-> TRUE, s |-> s]
    <3>1. CASE "refuse" \in faults
      BY <3>1, <1>2
    <3>2. CASE "refuse" \notin faults /\ claimed = {}
      BY <3>2, <1>2
    <3>3. CASE "refuse" \notin faults /\ claimed # {} /\ ~ parts.ok
      BY <3>3, <1>2, <1>3
    <3> QED BY <3>1, <3>2, <3>3, <1>8
  <2>2. r.s = s
    BY <2>1
  <2>3. r.ok = FALSE \/ r.ok = TRUE
    BY <2>1
  <2>4. r.ok \in BOOLEAN
    BY <2>3
  <2> QED BY <2>2, <2>4, <1>1
<1> QED BY <1>7, <1>8

\* A delegate d is about to be added to the applied ones.
Pending(g, s, d) ==
  /\ Base(g, s) /\ MemoryTypes(g, s) /\ Scheduled(g, s) /\ Kept(g, s)
  /\ IsInjective(s.applied) /\ d \in Delegates /\ d \notin Range(s.applied)

\* With d, some delegate needs known sizes.
NeedsSizes(g, s, d) ==
  d \notin g.allowDynamic \/ \E i \in DOMAIN s.applied : s.applied[i] \notin g.allowDynamic

\* What applying d to s comes to.
Outcome(g, s, d, c) ==
  /\ c.status \in Statuses /\ Stable(g, c.s)
  /\ c.status = "ok" => c.s.applied = Append(s.applied, d) /\ ~ c.s.undone

LEMMA PendingKept ==
  ASSUME NEW g \in Graphs, NEW s, NEW d, Pending(g, s, d), NEW q, SameSchedule(s, q),
         MemoryTypes(g, q)
  PROVE  Pending(g, q, d) /\ Sound(g, q)
<1>1. Base(g, q) /\ Scheduled(g, q) /\ Kept(g, q)
  BY SameScheduleKeeps DEF Pending
<1>2. Short(g, q)
  BY <1>1, ScheduledIsShort
<1>3. q.applied = s.applied
  BY DEF SameSchedule
<1> QED BY <1>1, <1>2, <1>3 DEF Pending, Sound

LEMMA StableKept ==
  ASSUME NEW g \in Graphs, NEW s, Stable(g, s), NEW q, SameSchedule(s, q), MemoryTypes(g, q),
         q.state # "immutable"
  PROVE  Stable(g, q) /\ Sound(g, q)
<1>1. Base(g, q) /\ Scheduled(g, q) /\ Controlled(g, q)
  BY SameScheduleKeeps DEF Stable
<1>2. Short(g, q)
  BY <1>1, ScheduledIsShort
<1> QED BY <1>1, <1>2 DEF Stable, Sound, Ready

\* An element that is not in an injective sequence can be appended to it.
LEMMA InjectiveGrows ==
  ASSUME NEW S, NEW x \in Seq(S), IsInjective(x), NEW v \in S, v \notin Range(x),
         NEW y, y = Append(x, v)
  PROVE  /\ IsInjective(y) /\ y \in Seq(S) /\ y # << >>
         /\ \E i \in DOMAIN y : y[i] = v
         /\ \A i \in DOMAIN x : i \in DOMAIN y /\ y[i] = x[i]
<1> DEFINE n == Len(x)
<1>1. /\ y \in Seq(S) /\ n \in Nat /\ DOMAIN x = 1..n /\ DOMAIN y = 1..(n + 1) /\ y[n + 1] = v
      /\ \A i \in 1..n : y[i] = x[i]
  BY AppendFacts
<1>2. \A i \in 1..n : x[i] # v
  BY <1>1 DEF Range
<1> HIDE DEF n
<1>3. ASSUME NEW i \in DOMAIN y, NEW j \in DOMAIN y, y[i] = y[j]
      PROVE  i = j
  <2>1. CASE i \in 1..n /\ j \in 1..n
    BY <2>1, <1>1, <1>3 DEF IsInjective
  <2>2. CASE i = n + 1 \/ j = n + 1
    BY <2>2, <1>1, <1>2, <1>3
  <2> QED BY <2>1, <2>2, <1>1
<1>4. IsInjective(y)
  BY <1>3 DEF IsInjective
<1>5. y # << >>
  BY <1>1
<1>6. n + 1 \in DOMAIN y
  BY <1>1
<1>7. \A i \in DOMAIN x : i \in DOMAIN y /\ y[i] = x[i]
  BY <1>1
<1> QED BY <1>1, <1>4, <1>5, <1>6, <1>7

\* The delegate is recorded, or everything is undone.
LEMMA AppliedOutcome ==
  ASSUME graph \in Graphs, NEW s, NEW d, Pending(graph, s, d),
         NEW r, r.ok \in BOOLEAN, SameSchedule(s, r.s), MemoryTypes(graph, r.s),
         NEW state \in {"uninvokable", "invokable", "immutable"}, NEW faults,
         r.ok /\ state = "immutable" =>
           r.s.hasPlanner /\ AllSized(graph, r.s) /\ Covered(r.s) /\ NeedsSizes(graph, s, d),
         NEW c, c = Applied(r, d, state, faults)
  PROVE  Outcome(graph, s, d, c)
<1>1. Pending(graph, r.s, d) /\ r.s.applied = s.applied
  BY PendingKept DEF SameSchedule
<1>2. CASE ~ r.ok
  <2>1. c = FailsWith("delegateError", RemoveAll(r.s, faults))
    BY <1>2 DEF Applied, ResetDelegation
  <2>2. "delegateError" \in Statuses \ {"ok"}
    BY DEF Statuses
  <2>3. Base(graph, r.s) /\ MemoryTypes(graph, r.s) /\ Removable(graph, r.s)
    BY <1>1 DEF Pending, Kept, Removable
  <2>4. c.status \in Statuses \ {"ok"} /\ Stable(graph, c.s)
    BY <2>1, <2>2, <2>3, ResetRestores
  <2> QED BY <2>4 DEF Outcome
<1>3. CASE r.ok
  <2> DEFINE t == r.s
             q == [t EXCEPT !.state = state, !.applied = Append(@, d)]
  <2>1. c = [status |-> "ok", s |-> q]
    BY <1>3 DEF Applied
  <2>2. /\ DOMAIN t = Fields /\ Base(graph, t) /\ MemoryTypes(graph, t) /\ Scheduled(graph, t)
        /\ Kept(graph, t)
    BY <1>1 DEF Pending, Base
  <2>3. t.applied = s.applied /\ s.applied \in Seq(Delegates) /\ IsInjective(s.applied)
        /\ d \in Delegates /\ d \notin Range(s.applied)
    BY <1>1 DEF Pending, Base
  <2>4. /\ r.ok /\ state = "immutable" =>
             t.hasPlanner /\ AllSized(graph, t) /\ Covered(t) /\ NeedsSizes(graph, s, d)
    OBVIOUS
  <2> HIDE DEF t
  <2>5. /\ DOMAIN q = Fields /\ q.state = state /\ q.applied = Append(t.applied, d)
        /\ q.nodes = t.nodes /\ q.plan = t.plan /\ q.pre = t.pre /\ q.undone = t.undone
        /\ q.marks = t.marks /\ q.hasPlanner = t.hasPlanner /\ q.lifetimes = t.lifetimes
        /\ q.allocated = t.allocated /\ q.prepared = t.prepared /\ q.nextPrepare = t.nextPrepare
    BY <2>2 DEF Fields
  <2> DEFINE more == Append(s.applied, d)
  <2>6. /\ IsInjective(more) /\ more \in Seq(Delegates) /\ more # << >>
        /\ \E i \in DOMAIN more : more[i] = d
        /\ \A i \in DOMAIN s.applied : i \in DOMAIN more /\ more[i] = s.applied[i]
    <3> HIDE DEF more
    <3>1. more = Append(s.applied, d)
      BY DEF more
    <3>2. s.applied \in Seq(Delegates) /\ IsInjective(s.applied) /\ d \in Delegates
          /\ d \notin Range(s.applied)
      BY <2>3
    <3>3. IsInjective(more)
      BY <3>1, <3>2, InjectiveGrows, ZenonT(40)
    <3>4. more \in Seq(Delegates) /\ more # << >>
      BY <3>1, <3>2
    <3>5. \E i \in DOMAIN more : more[i] = d
      BY <3>1, <3>2, InjectiveGrows
    <3>6. \A i \in DOMAIN s.applied : i \in DOMAIN more /\ more[i] = s.applied[i]
      BY <3>1, <3>2, InjectiveGrows
    <3> QED BY <3>3, <3>4, <3>5, <3>6
  <2>7. q.applied = more
    BY <2>3, <2>5
  <2> HIDE DEF q, more
  <2>8. \A i : Step(q, i) = Step(t, i)
    BY <2>5 DEF Step
  <2>9. Base(graph, q)
    BY <2>2, <2>5, <2>6, <2>7 DEF Base
  <2>10. MemoryTypes(graph, q)
    BY <2>2, <2>5 DEF MemoryTypes
  <2>11. Scheduled(graph, q)
    BY <2>2, <2>5, <2>8 DEF Scheduled
  <2>12. Kept(graph, q)
    BY <2>2, <2>5 DEF Kept
  <2>13. Controlled(graph, q)
    BY <2>6, <2>7, <2>12 DEF Controlled, Kept
  <2>14. Ready(graph, q)
    <3> SUFFICES ASSUME q.state = "immutable"
                 PROVE  /\ ~ q.undone /\ q.hasPlanner
                        /\ \E i \in DOMAIN q.applied : q.applied[i] \notin graph.allowDynamic
                        /\ AllSized(graph, q) /\ Covered(q)
      BY DEF Ready
    <3>1. t.hasPlanner /\ AllSized(graph, t) /\ Covered(t) /\ NeedsSizes(graph, s, d)
      BY <1>3, <2>4, <2>5
    <3>2. \E i \in DOMAIN more : more[i] \notin graph.allowDynamic
      BY <3>1, <2>6 DEF NeedsSizes
    <3>3. AllSized(graph, q)
      BY <3>1, <2>5, <2>8 DEF AllSized
    <3>4. Covered(q)
      BY <3>1, <2>5, <2>8 DEF Covered
    <3> QED BY <3>1, <3>2, <3>3, <3>4, <2>5, <2>7, <2>12 DEF Kept
  <2>15. Stable(graph, q) /\ ~ q.undone
    BY <2>9, <2>10, <2>11, <2>12, <2>13, <2>14 DEF Stable, Kept
  <2>16. c.status = "ok" /\ c.s = q
    BY <2>1
  <2> QED BY <2>7, <2>15, <2>16 DEF Outcome, Statuses, more
<1> QED BY <1>2, <1>3

LEMMA AllocateAgainOutcome ==
  ASSUME graph \in Graphs, NEW s, NEW d, Pending(graph, s, d),
         NEW state \in {"uninvokable", "invokable", "immutable"},
         state = "immutable" =>
           s.state = "uninvokable" /\ AllSized(graph, s) /\ NeedsSizes(graph, s, d),
         NEW faults, NEW c, c = AllocateAgain(s, d, state, faults)
  PROVE  Outcome(graph, s, d, c)
<1> DEFINE r == EnsureMemoryAllocations(s, faults)
<1>1. c = Applied(r, d, state, faults)
  BY DEF AllocateAgain
<1>2. SameSchedule(s, s)
  BY DEF SameSchedule
<1>3. Sound(graph, s)
  BY <1>2, PendingKept DEF Pending
<1>4. r = EnsureMemoryAllocations(s, faults)
  OBVIOUS
<1> HIDE DEF r
<1>5. /\ r.ok \in BOOLEAN /\ SameSchedule(s, r.s) /\ MemoryTypes(graph, r.s)
      /\ s.state = "uninvokable" /\ r.ok /\ AllSized(graph, s) => Served(graph, r.s)
  BY <1>3, <1>4, EnsureMemoryKeeps
<1>6. r.ok /\ state = "immutable" =>
        r.s.hasPlanner /\ AllSized(graph, r.s) /\ Covered(r.s) /\ NeedsSizes(graph, s, d)
  <2> SUFFICES ASSUME r.ok, state = "immutable"
               PROVE  r.s.hasPlanner /\ AllSized(graph, r.s) /\ Covered(r.s) /\ NeedsSizes(graph, s, d)
    OBVIOUS
  <2>1. Served(graph, r.s)
    BY <1>5
  <2>2. Pending(graph, r.s, d)
    BY <1>5, PendingKept
  <2>3. Covered(r.s)
    BY <2>1, <2>2, ServedIsCovered DEF Pending
  <2>4. AllSized(graph, r.s)
    BY <1>5, SameScheduleKeeps
  <2>5. r.s.hasPlanner
    BY <2>1 DEF Served
  <2> QED BY <2>3, <2>4, <2>5
<1> QED BY <1>1, <1>5, <1>6, AppliedOutcome

\* An outcome for what s became while it was prepared.
LEMMA OutcomeKept ==
  ASSUME NEW g, NEW s, NEW q, q.applied = s.applied, NEW d, NEW c, Outcome(g, q, d, c)
  PROVE  Outcome(g, s, d, c)
BY DEF Outcome

\* A failure after which the delegates are removed.
LEMMA RemovedOutcome ==
  ASSUME graph \in Graphs, NEW s, NEW d, Base(graph, s), MemoryTypes(graph, s), Kept(graph, s),
         NEW faults, NEW status \in Statuses \ {"ok"},
         NEW c, c = FailsWith(status, RemoveAll(s, faults))
  PROVE  Outcome(graph, s, d, c)
<1>1. Removable(graph, s)
  BY DEF Kept, Removable
<1>2. c.status \in Statuses \ {"ok"} /\ Stable(graph, c.s)
  BY <1>1, ResetRestores
<1> QED BY <1>2 DEF Outcome

LEMMA StayImmutableOutcome ==
  ASSUME graph \in Graphs, NEW s, NEW d, Pending(graph, s, d), s.state = "uninvokable",
         NeedsSizes(graph, s, d),
         NEW r, r.ok \in BOOLEAN, Prepared(graph, s, r.s),
         NEW faults, NEW c, c = StayImmutable(r, d, faults)
  PROVE  Outcome(graph, s, d, c)
<1>1. SameSchedule(s, r.s) /\ MemoryTypes(graph, r.s) /\ r.s.state = s.state
  BY DEF Prepared
<1>2. Pending(graph, r.s, d) /\ r.s.applied = s.applied
  BY <1>1, PendingKept DEF SameSchedule
<1>3. Base(graph, r.s) /\ Kept(graph, r.s)
  BY <1>2 DEF Pending
<1>4. "delegateError" \in Statuses \ {"ok"} /\ "applicationError" \in Statuses \ {"ok"}
  BY DEF Statuses
<1>5. CASE ~ r.ok
  <2>1. c = FailsWith("delegateError", RemoveAll(r.s, faults))
    BY <1>5 DEF StayImmutable, ResetDelegation
  <2>2. Outcome(graph, r.s, d, c)
    BY <2>1, <1>1, <1>3, <1>4, RemovedOutcome
  <2> QED BY <2>2, <1>2, OutcomeKept
<1>6. CASE r.ok /\ HasDynamicTensors(r.s)
  <2>1. c = FailsWith("applicationError", RemoveAll(r.s, faults))
    BY <1>6 DEF StayImmutable
  <2>2. Outcome(graph, r.s, d, c)
    BY <2>1, <1>1, <1>3, <1>4, RemovedOutcome
  <2> QED BY <2>2, <1>2, OutcomeKept
<1>7. CASE r.ok /\ ~ HasDynamicTensors(r.s)
  <2>1. c = AllocateAgain(r.s, d, "immutable", faults)
    BY <1>7 DEF StayImmutable
  <2>2. AllSized(graph, r.s)
    BY <1>3, <1>7, SizesKnown
  <2>3. NeedsSizes(graph, r.s, d)
    BY <1>2 DEF NeedsSizes
  <2>4. Outcome(graph, r.s, d, c)
    BY <2>1, <2>2, <2>3, <1>1, <1>2, AllocateAgainOutcome
  <2> QED BY <2>4, <1>2, OutcomeKept
<1> QED BY <1>5, <1>6, <1>7

LEMMA LeaveConsistentOutcome ==
  ASSUME graph \in Graphs, NEW s, NEW d, Pending(graph, s, d), s.state # "immutable",
         d \notin graph.allowDynamic => AllSized(graph, s),
         NEW before, before = "immutable" => s.state = "uninvokable" /\ NeedsSizes(graph, s, d),
         NEW faults, NEW c, c = LeaveConsistent(s, d, before, faults)
  PROVE  Outcome(graph, s, d, c)
<1>1. SameSchedule(s, s) /\ MemoryTypes(graph, s) /\ DOMAIN s = Fields
  BY DEF SameSchedule, Pending, Base
<1>2. Sound(graph, s)
  BY <1>1, PendingKept
<1>3. CASE d \notin graph.allowDynamic
  <2> DEFINE q == [s EXCEPT !.state = "uninvokable"]
  <2>1. c = AllocateAgain(q, d, "immutable", faults)
    BY <1>3 DEF LeaveConsistent
  <2>2. /\ SameSchedule(s, q) /\ q.state = "uninvokable" /\ q.hasPlanner = s.hasPlanner
        /\ q.lifetimes = s.lifetimes /\ q.allocated = s.allocated /\ q.prepared = s.prepared
        /\ q.nextPrepare = s.nextPrepare /\ q.nodes = s.nodes /\ q.applied = s.applied
    BY <1>1 DEF Fields, SameSchedule
  <2> HIDE DEF q
  <2>3. MemoryTypes(graph, q)
    BY <1>1, <2>2 DEF MemoryTypes
  <2>4. Pending(graph, q, d)
    BY <2>2, <2>3, PendingKept
  <2>5. AllSized(graph, q)
    BY <1>3, <2>2, SameScheduleKeeps
  <2>6. NeedsSizes(graph, q, d)
    BY <1>3 DEF NeedsSizes
  <2>7. Outcome(graph, q, d, c)
    BY <2>1, <2>2, <2>4, <2>5, <2>6, AllocateAgainOutcome
  <2> QED BY <2>2, <2>7, OutcomeKept
<1>4. CASE d \in graph.allowDynamic /\ before = "immutable"
  <2> DEFINE r == PrepareOpsStartingAt(s, 1, faults)
  <2>1. c = StayImmutable(r, d, faults)
    BY <1>4 DEF LeaveConsistent
  <2>2. r.ok \in BOOLEAN /\ Prepared(graph, s, r.s)
    BY <1>2, PrepareStartingKeeps
  <2> HIDE DEF r
  <2> QED BY <1>4, <2>1, <2>2, StayImmutableOutcome
<1>5. CASE d \in graph.allowDynamic /\ before = "invokable"
  <2>1. c = AllocateAgain(s, d, "invokable", faults)
    BY <1>5 DEF LeaveConsistent
  <2> QED BY <2>1, AllocateAgainOutcome
<1>6. CASE d \in graph.allowDynamic /\ before # "immutable" /\ before # "invokable"
  <2> DEFINE r == [ok |-> TRUE, s |-> s]
  <2>1. c = Applied(r, d, s.state, faults)
    BY <1>6 DEF LeaveConsistent
  <2>2. r.ok = TRUE /\ r.s = s
    OBVIOUS
  <2> HIDE DEF r
  <2>3. s.state \in {"uninvokable", "invokable", "immutable"}
    BY <1>1 DEF MemoryTypes
  <2>4. r.ok \in BOOLEAN /\ SameSchedule(s, r.s) /\ MemoryTypes(graph, r.s)
    BY <1>1, <2>2
  <2> DEFINE state == s.state
  <2>5. /\ state \in {"uninvokable", "invokable", "immutable"} /\ state # "immutable"
        /\ c = Applied(r, d, state, faults)
    BY <2>1, <2>3
  <2> HIDE DEF state
  <2> QED BY <2>4, <2>5, AppliedOutcome
<1> QED BY <1>3, <1>4, <1>5, <1>6

\* STEP 2 keeps the promise, whatever the Prepare of the delegate does.
LEMMA DelegateOutcome ==
  ASSUME graph \in Graphs, NEW s, Stable(graph, s), ~ s.undone,
         NEW d \in Delegates, d \notin Range(s.applied),
         d \notin graph.allowDynamic => AllSized(graph, s),
         NEW faults, NEW c, c = Delegate(s, d, s.state, faults)
  PROVE  Outcome(graph, s, d, c)
<1> DEFINE q == [s EXCEPT !.state = IF s.state = "immutable" THEN "uninvokable" ELSE @,
                          !.pre = IF s.applied = << >> THEN s.plan ELSE @]
           r == DelegatePrepare(q, d, faults)
<1>1. c = IF r.ok THEN LeaveConsistent(r.s, d, s.state, faults) ELSE ResetDelegation(r.s, faults)
  BY DEF Delegate
<1>2. /\ Base(graph, s) /\ MemoryTypes(graph, s) /\ Scheduled(graph, s) /\ Controlled(graph, s)
      /\ Ready(graph, s) /\ DOMAIN s = Fields
  BY DEF Stable, Base
<1>3. /\ DOMAIN q = Fields /\ q.nodes = s.nodes /\ q.plan = s.plan /\ q.applied = s.applied
      /\ q.undone = s.undone /\ q.marks = s.marks /\ q.hasPlanner = s.hasPlanner
      /\ q.lifetimes = s.lifetimes /\ q.allocated = s.allocated /\ q.prepared = s.prepared
      /\ q.nextPrepare = s.nextPrepare
      /\ q.state = IF s.state = "immutable" THEN "uninvokable" ELSE s.state
      /\ q.pre = IF s.applied = << >> THEN s.plan ELSE s.pre
  BY <1>2 DEF Fields
<1>4. r = DelegatePrepare(q, d, faults)
  OBVIOUS
<1> HIDE DEF q, r
<1>5. Base(graph, q)
  BY <1>2, <1>3 DEF Base
<1>6. MemoryTypes(graph, q) /\ q.state # "immutable"
      /\ (s.state = "immutable" => q.state = "uninvokable")
  BY <1>2, <1>3 DEF MemoryTypes
<1>7. \A i : Step(q, i) = Step(s, i)
  BY <1>3 DEF Step
<1>8. Scheduled(graph, q)
  BY <1>2, <1>3, <1>7 DEF Scheduled
<1>9. AllSized(graph, s) => AllSized(graph, q)
  BY <1>3, <1>7 DEF AllSized
<1>10. q.pre = Indices(Len(graph.ops))
  BY <1>2, <1>3 DEF Controlled, Original, Kept
<1>11. /\ r.ok \in BOOLEAN /\ Replacing(graph, q, r.s)
       /\ r.ok => Scheduled(graph, r.s)
       /\ r.ok /\ AllSized(graph, q) /\ d \notin graph.makesDynamic => AllSized(graph, r.s)
  BY <1>4, <1>5, <1>8, DelegatePrepareKeeps
<1>12. Base(graph, r.s) /\ MemoryTypes(graph, r.s)
  BY <1>5, <1>6, <1>11, ReplacingTypes
<1>13. /\ r.s.pre = Indices(Len(graph.ops)) /\ r.s.applied = s.applied /\ r.s.undone = s.undone
       /\ r.s.state # "immutable" /\ (s.state = "immutable" => r.s.state = "uninvokable")
  BY <1>3, <1>6, <1>10, <1>11 DEF Replacing
<1>14. Kept(graph, r.s)
  BY <1>13 DEF Kept
<1>15. CASE ~ r.ok
  <2>1. c = FailsWith("delegateError", RemoveAll(r.s, faults))
    BY <1>1, <1>15 DEF ResetDelegation
  <2>2. "delegateError" \in Statuses \ {"ok"}
    BY DEF Statuses
  <2>3. Outcome(graph, r.s, d, c)
    BY <2>1, <2>2, <1>12, <1>14, RemovedOutcome
  <2> QED BY <2>3, <1>13, OutcomeKept
<1>16. CASE r.ok
  <2> DEFINE z == r.s
             before == s.state
  <2>1. c = LeaveConsistent(z, d, before, faults)
    BY <1>1, <1>16
  <2>2. IsInjective(s.applied)
    BY <1>2 DEF Controlled
  <2>3. Pending(graph, z, d)
    BY <2>2, <1>11, <1>12, <1>13, <1>14, <1>16 DEF Pending
  <2>4. d \notin graph.allowDynamic => AllSized(graph, z)
    BY <1>9, <1>11, <1>16, DelegatesAssumption
  <2>5. before = "immutable" => z.state = "uninvokable" /\ NeedsSizes(graph, z, d)
    BY <1>2, <1>13 DEF Ready, NeedsSizes
  <2>6. z.state # "immutable" /\ z.applied = s.applied
    BY <1>13
  <2> HIDE DEF z, before
  <2>7. Outcome(graph, z, d, c)
    BY <2>1, <2>3, <2>4, <2>5, <2>6, LeaveConsistentOutcome
  <2> QED BY <2>6, <2>7, OutcomeKept
<1> QED BY <1>11, <1>15, <1>16

\* STEP 1: preparing leaves the graph as it was.
LEMMA CheckSizesOutcome ==
  ASSUME graph \in Graphs, NEW s, Stable(graph, s), ~ s.undone, s.state # "immutable",
         NEW d \in Delegates, d \notin Range(s.applied),
         NEW r, r.ok \in BOOLEAN, Prepared(graph, s, r.s),
         NEW faults, NEW c, c = CheckSizes(r, d, faults)
  PROVE  Outcome(graph, s, d, c)
<1> DEFINE z == r.s
<1>1. /\ SameSchedule(s, z) /\ MemoryTypes(graph, z) /\ z.state # "immutable"
      /\ z.applied = s.applied /\ z.undone = s.undone
  BY DEF Prepared, SameSchedule
<1>2. Stable(graph, z) /\ Sound(graph, z)
  BY <1>1, StableKept
<1>3. /\ ~ r.ok => c = [status |-> "error", s |-> z]
      /\ r.ok /\ HasDynamicTensors(z) =>
           c = FailsWith("applicationError", EnsureMemoryAllocations(z, faults))
      /\ r.ok /\ ~ HasDynamicTensors(z) => c = Delegate(z, d, z.state, faults)
  BY DEF CheckSizes
<1> HIDE DEF z
<1>4. CASE ~ r.ok
  <2>1. c.status = "error" /\ c.s = z
    BY <1>3, <1>4
  <2> QED BY <2>1, <1>2 DEF Outcome, Statuses
<1>5. CASE r.ok /\ HasDynamicTensors(z)
  <2> DEFINE e == EnsureMemoryAllocations(z, faults)
  <2>1. c = FailsWith("applicationError", e) /\ e = EnsureMemoryAllocations(z, faults)
    BY <1>3, <1>5
  <2> HIDE DEF e
  <2>2. /\ e.ok \in BOOLEAN /\ SameSchedule(z, e.s) /\ MemoryTypes(graph, e.s)
        /\ e.s.state # "immutable"
    BY <1>1, <1>2, <2>1, EnsureMemoryKeeps
  <2>3. Stable(graph, e.s)
    BY <1>2, <2>2, StableKept
  <2>4. c = [status |-> IF e.ok THEN "applicationError" ELSE "error", s |-> e.s]
    BY <2>1 DEF FailsWith
  <2>5. c.s = e.s /\ (c.status = "applicationError" \/ c.status = "error")
    BY <2>4
  <2> QED BY <2>3, <2>5 DEF Outcome, Statuses
<1>6. CASE r.ok /\ ~ HasDynamicTensors(z)
  <2>1. c = Delegate(z, d, z.state, faults)
    BY <1>3, <1>6
  <2>2. AllSized(graph, z)
    BY <1>2, <1>6, SizesKnown DEF Sound
  <2>3. Outcome(graph, z, d, c)
    BY <2>1, <2>2, <1>1, <1>2, DelegateOutcome
  <2> QED BY <2>3, <1>1, OutcomeKept
<1> QED BY <1>4, <1>5, <1>6

LEMMA ApplyDelegateOutcome ==
  ASSUME graph \in Graphs, NEW s, Stable(graph, s), ~ s.undone,
         NEW d \in Delegates, d \notin Range(s.applied),
         NEW faults, NEW c, c = ApplyDelegate(s, d, faults)
  PROVE  Outcome(graph, s, d, c)
<1>1. CASE s.state # "immutable" /\ d \notin graph.allowDynamic
  <2> DEFINE r == PrepareOpsStartingAt(s, 1, faults)
  <2>1. c = CheckSizes(r, d, faults)
    BY <1>1 DEF ApplyDelegate
  <2>2. SameSchedule(s, s) /\ MemoryTypes(graph, s)
    BY DEF SameSchedule, Stable
  <2>3. Sound(graph, s)
    BY <1>1, <2>2, StableKept
  <2>4. r.ok \in BOOLEAN /\ Prepared(graph, s, r.s)
    BY <2>3, PrepareStartingKeeps
  <2> HIDE DEF r
  <2> QED BY <1>1, <2>1, <2>4, CheckSizesOutcome
<1>2. CASE ~ (s.state # "immutable" /\ d \notin graph.allowDynamic)
  <2>1. c = Delegate(s, d, s.state, faults)
    BY <1>2 DEF ApplyDelegate
  <2>2. d \notin graph.allowDynamic => AllSized(graph, s)
    BY <1>2 DEF Stable, Ready
  <2> QED BY <2>1, <2>2, DelegateOutcome
<1> QED BY <1>1, <1>2

-----------------------------------------------------------------------------
(* Applying the delegates again.                                           *)

\* Argument: the delegates, the faults.
ApplyStep(a, c, d) == IF c.status # "ok" THEN c ELSE ApplyDelegate(c.s, d, a[2])

ApplyGood(a, c, k) ==
  /\ c.status \in Statuses /\ Stable(graph, c.s)
  /\ c.status = "ok" => ~ c.s.undone /\ c.s.applied = SubSeq(a[1], 1, k)

Applies == INSTANCE FoldInvariant WITH Step <- ApplyStep, Good <- ApplyGood

\* The first k elements of a sequence without repetition.
LEMMA FirstElements ==
  ASSUME NEW S, NEW x \in Seq(S), NEW k \in 1..Len(x)
  PROVE  /\ SubSeq(x, 1, k) = Append(SubSeq(x, 1, k - 1), x[k]) /\ x[k] \in S
         /\ IsInjective(x) => x[k] \notin Range(SubSeq(x, 1, k - 1))
<1> DEFINE n == Len(x)
           y == SubSeq(x, 1, k - 1)
<1>1. n \in Nat /\ DOMAIN x = 1..n /\ k \in 1..n /\ x[k] \in S
  OBVIOUS
<1>2. y = [i \in 1..(k - 1) |-> x[i]] /\ Len(y) = k - 1 /\ y \in Seq(S)
  BY <1>1
<1>3. SubSeq(x, 1, k) = [i \in 1..k |-> x[i]]
  BY <1>1
<1>4. Append(y, x[k]) = [i \in 1..k |-> IF i = k THEN x[k] ELSE y[i]]
  <2>1. Append(y, x[k]) = [i \in 1..(Len(y) + 1) |-> IF i = Len(y) + 1 THEN x[k] ELSE y[i]]
    BY <1>1, <1>2
  <2>2. Len(y) + 1 = k
    BY <1>1, <1>2
  <2> QED BY <2>1, <2>2
<1>5. \A i \in 1..(k - 1) : y[i] = x[i]
  BY <1>2
<1> HIDE DEF y
<1>6. SubSeq(x, 1, k) = Append(y, x[k])
  <2>1. \A i \in 1..k : x[i] = IF i = k THEN x[k] ELSE y[i]
    BY <1>1, <1>5
  <2> QED BY <2>1, <1>3, <1>4
<1>7. IsInjective(x) => x[k] \notin Range(y)
  <2> SUFFICES ASSUME IsInjective(x), NEW i \in DOMAIN y, y[i] = x[k]
               PROVE  FALSE
    BY DEF Range
  <2>1. DOMAIN y = 1..(k - 1)
    BY <1>2
  <2>2. i \in 1..n /\ x[i] = x[k] /\ i # k
    BY <2>1, <1>1, <1>5
  <2> QED BY <2>2, <1>1 DEF IsInjective
<1> QED BY <1>1, <1>6, <1>7 DEF y

LEMMA ApplyKeeps ==
  ASSUME graph \in Graphs, NEW delegates \in Seq(Delegates), IsInjective(delegates), NEW faults,
         NEW k \in 1..Len(delegates), NEW c, ApplyGood(<<delegates, faults>>, c, k - 1)
  PROVE  ApplyGood(<<delegates, faults>>, ApplyStep(<<delegates, faults>>, c, delegates[k]), k)
<1> DEFINE a == <<delegates, faults>>
           d == delegates[k]
           z == ApplyStep(a, c, d)
<1>1. a[1] = delegates /\ a[2] = faults
  OBVIOUS
<1> HIDE DEF a
<1>2. CASE c.status # "ok"
  <2>1. z = c
    BY <1>2 DEF ApplyStep
  <2> QED BY <2>1, <1>2 DEF ApplyGood, a
<1>3. CASE c.status = "ok"
  <2>1. z = ApplyDelegate(c.s, d, faults)
    BY <1>1, <1>3 DEF ApplyStep
  <2>2. Stable(graph, c.s) /\ ~ c.s.undone /\ c.s.applied = SubSeq(delegates, 1, k - 1)
    BY <1>1, <1>3 DEF ApplyGood, a
  <2>3. /\ SubSeq(delegates, 1, k) = Append(SubSeq(delegates, 1, k - 1), d) /\ d \in Delegates
        /\ d \notin Range(SubSeq(delegates, 1, k - 1))
    BY FirstElements
  <2> HIDE DEF z, d
  <2>4. Outcome(graph, c.s, d, z)
    BY <2>1, <2>2, <2>3, ApplyDelegateOutcome
  <2>5. ApplyGood(a, z, k)
    BY <2>2, <2>3, <2>4, <1>1 DEF Outcome, ApplyGood
  <2> QED BY <2>5 DEF z, d, a
<1> QED BY <1>2, <1>3

LEMMA ApplyAllOutcome ==
  ASSUME graph \in Graphs, NEW s, Stable(graph, s), ~ s.undone, s.applied = << >>,
         NEW delegates \in Seq(Delegates), IsInjective(delegates), NEW faults,
         NEW c, c = ApplyAll(s, delegates, faults)
  PROVE  /\ c.status \in Statuses /\ Stable(graph, c.s)
         /\ c.status = "ok" => ~ c.s.undone /\ c.s.applied = delegates
<1> DEFINE a == <<delegates, faults>>
           base == [status |-> "ok", s |-> s]
           n == Len(delegates)
<1>1. c = Applies!Fold(<<delegates, faults>>, [status |-> "ok", s |-> s], delegates)
  BY DEF ApplyAll, Applies!Fold, Applies!FoldLeft, Applies!MapThenFoldSet, Applies!Max,
         FoldLeft, MapThenFoldSet, Max, ApplyStep
<1>2. n \in Nat /\ DOMAIN delegates = 1..n
  OBVIOUS
<1>3. SubSeq(delegates, 1, 0) = << >> /\ SubSeq(delegates, 1, n) = delegates
  OBVIOUS
<1>4. a[1] = delegates /\ base.status = "ok" /\ base.s = s
  OBVIOUS
<1>5. c = Applies!Fold(a, base, delegates)
  BY <1>1
<1>6. \A k \in 1..n : \A b : ApplyGood(a, b, k - 1) => ApplyGood(a, ApplyStep(a, b, delegates[k]), k)
  BY ApplyKeeps
<1> HIDE DEF a, base, n
<1>7. ApplyGood(a, base, 0)
  BY <1>3, <1>4 DEF ApplyGood, Statuses
<1>8. ApplyGood(a, Applies!Fold(a, base, delegates), n)
  BY <1>2, <1>6, <1>7, Applies!FoldKeeps
<1> QED BY <1>3, <1>4, <1>5, <1>8 DEF ApplyGood

\* Redoing brings back the delegates that were undone.
LEMMA RedoOutcome ==
  ASSUME graph \in Graphs, NEW s, Stable(graph, s), NEW faults,
         NEW c, c = RedoAllDelegates(s, faults)
  PROVE  /\ c.status \in Statuses /\ Stable(graph, c.s)
         /\ c.status = "ok" => ~ c.s.undone /\ c.s.applied = s.applied
<1>1. CASE ~ s.undone
  <2>1. c = [status |-> "ok", s |-> s]
    BY <1>1 DEF RedoAllDelegates
  <2>2. c.status = "ok" /\ c.s = s
    BY <2>1
  <2> QED BY <2>2, <1>1 DEF Statuses
<1>2. CASE s.undone
  <2> DEFINE q == [s EXCEPT !.undone = FALSE, !.applied = << >>]
             delegates == s.applied
  <2>1. c = ApplyAll(q, delegates, faults)
    BY <1>2 DEF RedoAllDelegates
  <2>2. /\ DOMAIN s = Fields /\ Base(graph, s) /\ MemoryTypes(graph, s) /\ Original(graph, s)
        /\ s.state # "immutable" /\ IsInjective(delegates) /\ delegates \in Seq(Delegates)
    BY <1>2 DEF Stable, Base, Controlled, Ready
  <2>3. /\ DOMAIN q = Fields /\ q.undone = FALSE /\ q.applied = << >> /\ q.state = s.state
        /\ q.nodes = s.nodes /\ q.plan = s.plan /\ q.pre = s.pre /\ q.marks = s.marks
        /\ q.hasPlanner = s.hasPlanner /\ q.lifetimes = s.lifetimes
        /\ q.allocated = s.allocated /\ q.prepared = s.prepared /\ q.nextPrepare = s.nextPrepare
    BY <2>2 DEF Fields
  <2> HIDE DEF q
  <2>4. << >> \in Seq(Delegates)
    OBVIOUS
  <2>5. Base(graph, q)
    BY <2>2, <2>3, <2>4 DEF Base
  <2>6. MemoryTypes(graph, q) /\ Original(graph, q)
    BY <2>2, <2>3 DEF MemoryTypes, Original
  <2>7. Stable(graph, q)
    BY <2>2, <2>3, <2>5, <2>6, WithoutDelegates
  <2> HIDE DEF delegates
  <2>8. /\ c.status \in Statuses /\ Stable(graph, c.s)
        /\ c.status = "ok" => ~ c.s.undone /\ c.s.applied = delegates
    BY <2>1, <2>2, <2>3, <2>7, ApplyAllOutcome
  <2> QED BY <2>8 DEF delegates
<1>3. s.undone \in BOOLEAN
  BY DEF Stable, Base
<1> QED BY <1>1, <1>2, <1>3

-----------------------------------------------------------------------------
(* The calls of the client keep the invariant.                             *)

\* What RedoneInOrder says of a step from s to q.
RedonePrefix(s, q) ==
  s.undone /\ ~ q.undone /\ q.status = "ok" /\ q.applied # << >> => IsPrefix(s.applied, q.applied)

\* What a call hands over to Returns.
Call(g, s, c) ==
  /\ c.status \in Statuses /\ Stable(g, c.s)
  /\ s.undone /\ ~ c.s.undone /\ c.status = "ok" /\ c.s.applied # << >> =>
       IsPrefix(s.applied, c.s.applied)

LEMMA PrefixFacts ==
  ASSUME NEW S, NEW x \in Seq(S), NEW v \in S
  PROVE  IsPrefix(x, x) /\ IsPrefix(x, Append(x, v))
<1>1. Len(x) \in Nat /\ DOMAIN x = 1..Len(x) /\ Len(x) <= Len(x)
  OBVIOUS
<1>2. IsPrefix(x, x)
  BY <1>1 DEF IsPrefix
<1> DEFINE y == Append(x, v)
           n == Len(x)
<1>3. y \in Seq(S) /\ Len(y) = n + 1 /\ \A i \in 1..n : y[i] = x[i]
  BY AppendFacts
<1> HIDE DEF y
<1>4. SubSeq(y, 1, n) = [i \in 1..n |-> y[i]]
  BY <1>1, <1>3
<1>5. SubSeq(x, 1, n) = [i \in 1..n |-> x[i]]
  BY <1>1
<1>6. SubSeq(x, 1, n) = SubSeq(y, 1, n)
  BY <1>3, <1>4, <1>5
<1>7. n <= Len(y)
  BY <1>1, <1>3
<1>8. IsPrefix(x, y)
  BY <1>6, <1>7 DEF IsPrefix
<1> QED BY <1>2, <1>8 DEF y

LEMMA ReturnsKeeps ==
  ASSUME Inv, NEW c, Call(graph, sub, c), Returns(c)
  PROVE  Inv' /\ RedonePrefix(sub, sub')
<1> DEFINE q == [c.s EXCEPT !.status = c.status]
<1>1. sub' = q /\ graph' = graph
  BY DEF Returns
<1>2. /\ Base(graph, c.s) /\ MemoryTypes(graph, c.s) /\ Scheduled(graph, c.s)
      /\ Controlled(graph, c.s) /\ Ready(graph, c.s) /\ DOMAIN c.s = Fields
  BY DEF Call, Stable, Base
<1>3. /\ q.nodes = c.s.nodes /\ q.plan = c.s.plan /\ q.pre = c.s.pre /\ q.marks = c.s.marks
      /\ q.applied = c.s.applied /\ q.undone = c.s.undone /\ DOMAIN q = Fields
      /\ q.hasPlanner = c.s.hasPlanner /\ q.lifetimes = c.s.lifetimes /\ q.state = c.s.state
      /\ q.allocated = c.s.allocated /\ q.prepared = c.s.prepared
      /\ q.nextPrepare = c.s.nextPrepare /\ q.status = c.status
  BY <1>2 DEF Fields
<1> HIDE DEF q
<1>4. SameSchedule(c.s, q)
  BY <1>2, <1>3 DEF SameSchedule
<1>5. /\ Base(graph, q) /\ Scheduled(graph, q) /\ Controlled(graph, q)
      /\ AllSized(graph, c.s) => AllSized(graph, q)
      /\ \A i : Step(q, i) = Step(c.s, i)
  BY <1>2, <1>4, SameScheduleKeeps
<1>6. MemoryTypes(graph, q)
  BY <1>2, <1>3 DEF MemoryTypes
<1>7. Covered(c.s) => Covered(q)
  BY <1>3, <1>5 DEF Covered
<1>8. Ready(graph, q)
  BY <1>2, <1>3, <1>5, <1>7 DEF Ready
<1>9. Stable(graph, q)
  BY <1>5, <1>6, <1>8 DEF Stable
<1>10. q.status \in Statuses
  BY <1>3 DEF Call
<1>11. Inv'
  BY <1>1, <1>9, <1>10 DEF Inv
<1>12. RedonePrefix(sub, q)
  BY <1>3 DEF Call, RedonePrefix
<1> QED BY <1>1, <1>11, <1>12

\* The result of memory that was planned or allocated again.
LEMMA StatusCall ==
  ASSUME NEW g, NEW s, NEW r, r.ok \in BOOLEAN, Stable(g, r.s),
         s.undone /\ ~ r.s.undone /\ r.ok /\ r.s.applied # << >> => IsPrefix(s.applied, r.s.applied)
  PROVE  Call(g, s, Status(r))
<1> DEFINE c == Status(r)
<1>1. c.s = r.s /\ c.status = IF r.ok THEN "ok" ELSE "error"
  BY DEF Status
<1> HIDE DEF c
<1>2. c.status \in Statuses /\ (c.status = "ok" => r.ok)
  BY <1>1 DEF Statuses
<1>3. Call(g, s, c)
  BY <1>1, <1>2 DEF Call
<1> QED BY <1>3 DEF c

LEMMA ModifyGraphKeeps ==
  ASSUME Inv, NEW d \in Delegates, NEW faults, ModifyGraphWithDelegate(d, faults)
  PROVE  Inv' /\ RedonePrefix(sub, sub')
<1> DEFINE redo == RedoAllDelegates(sub, faults)
           c == IF redo.status = "ok" THEN ApplyDelegate(redo.s, d, faults) ELSE redo
<1>1. d \notin Range(sub.applied) /\ Returns(c)
  BY DEF ModifyGraphWithDelegate
<1>2. graph \in Graphs /\ Stable(graph, sub) /\ redo = RedoAllDelegates(sub, faults)
  BY DEF Inv
<1>3. c = IF redo.status = "ok" THEN ApplyDelegate(redo.s, d, faults) ELSE redo
  OBVIOUS
<1> HIDE DEF redo, c
<1>4. /\ redo.status \in Statuses /\ Stable(graph, redo.s)
      /\ redo.status = "ok" => ~ redo.s.undone /\ redo.s.applied = sub.applied
  BY <1>2, RedoOutcome
<1>5. sub.applied \in Seq(Delegates)
  BY <1>2 DEF Stable, Base
<1>6. Call(graph, sub, c)
  <2>1. CASE redo.status # "ok"
    <3>1. c = redo
      BY <2>1, <1>3
    <3> QED BY <2>1, <3>1, <1>4 DEF Call
  <2>2. CASE redo.status = "ok"
    <3>1. c = ApplyDelegate(redo.s, d, faults)
      BY <2>2, <1>3
    <3>2. Outcome(graph, redo.s, d, c)
      BY <2>2, <3>1, <1>1, <1>2, <1>4, ApplyDelegateOutcome
    <3>3. c.status = "ok" => c.s.applied = Append(sub.applied, d)
      BY <2>2, <3>2, <1>4 DEF Outcome
    <3>4. IsPrefix(sub.applied, Append(sub.applied, d))
      BY <1>5, PrefixFacts
    <3> QED BY <3>2, <3>3, <3>4 DEF Outcome, Call
  <2> QED BY <2>1, <2>2
<1> QED BY <1>1, <1>6, ReturnsKeeps

LEMMA AllocateTensorsKeeps ==
  ASSUME Inv, NEW faults, AllocateTensors(faults)
  PROVE  Inv' /\ RedonePrefix(sub, sub')
<1> DEFINE redo == RedoAllDelegates(sub, faults)
           z == redo.s
           r == AllocateRedone(z, faults)
           c == IF redo.status = "ok" THEN Status(r) ELSE redo
<1>1. Returns(c)
  BY DEF AllocateTensors
<1>2. /\ graph \in Graphs /\ Stable(graph, sub) /\ redo = RedoAllDelegates(sub, faults)
      /\ r = AllocateRedone(z, faults) /\ c = IF redo.status = "ok" THEN Status(r) ELSE redo
  BY DEF Inv
<1> HIDE DEF redo, c, r
<1>3. /\ redo.status \in Statuses /\ Stable(graph, z)
      /\ redo.status = "ok" => ~ z.undone /\ z.applied = sub.applied
  BY <1>2, RedoOutcome
<1>4. Sound(graph, z)
  BY <1>2, <1>3, ScheduledIsShort DEF Stable, Sound
<1>5. /\ r.ok \in BOOLEAN /\ SameSchedule(z, r.s) /\ MemoryTypes(graph, r.s)
      /\ z.state # "uninvokable" => r.s = z
      /\ z.state = "uninvokable" => r.s.state # "immutable"
  BY <1>2, <1>4, AllocateRedoneKeeps
<1>6. Stable(graph, r.s)
  BY <1>2, <1>3, <1>5, StableKept
<1>7. r.s.applied = z.applied
  BY <1>5 DEF SameSchedule
<1>8. IsPrefix(sub.applied, sub.applied)
  <2>1. sub.applied \in Seq(Delegates)
    BY <1>2 DEF Stable, Base
  <2> QED BY <2>1 DEF IsPrefix
<1>9. Call(graph, sub, c)
  <2>1. CASE redo.status # "ok"
    <3>1. c = redo
      BY <2>1, <1>2
    <3> QED BY <2>1, <3>1, <1>3 DEF Call
  <2>2. CASE redo.status = "ok"
    <3>1. c = Status(r)
      BY <2>2, <1>2
    <3>2. r.s.applied = sub.applied
      BY <2>2, <1>3, <1>7
    <3> QED BY <3>1, <3>2, <1>5, <1>6, <1>8, StatusCall
  <2> QED BY <2>1, <2>2
<1> QED BY <1>1, <1>9, ReturnsKeeps

LEMMA RemoveAllDelegatesKeeps ==
  ASSUME Inv, NEW faults, RemoveAllDelegates(faults)
  PROVE  Inv' /\ RedonePrefix(sub, sub')
<1> DEFINE r == RemoveAll(sub, faults)
<1>1. Returns(Status(r)) /\ r = RemoveAll(sub, faults)
  BY DEF RemoveAllDelegates
<1>2. graph \in Graphs /\ Stable(graph, sub)
  BY DEF Inv
<1> HIDE DEF r
<1>3. Removable(graph, sub)
  <2>1. CASE sub.applied = << >> \/ sub.undone
    <3>1. Original(graph, sub)
      BY <2>1, <1>2 DEF Stable, Controlled
    <3>2. sub.state # "immutable"
      BY <2>1, <1>2 DEF Stable, Ready
    <3> QED BY <3>1, <3>2 DEF Removable
  <2>2. CASE sub.applied # << >> /\ ~ sub.undone
    BY <2>2, <1>2 DEF Stable, Controlled, Kept, Removable
  <2> QED BY <2>1, <2>2
<1>4. r.ok \in BOOLEAN /\ Stable(graph, r.s) /\ r.s.applied = << >>
  BY <1>1, <1>2, <1>3, RemoveAllRestores DEF Stable
<1>5. Call(graph, sub, Status(r))
  BY <1>4, StatusCall
<1> QED BY <1>1, <1>5, ReturnsKeeps

\* A subgraph of which only state and allocated changed.
LEMMA ReleasedKept ==
  ASSUME NEW g \in Graphs, NEW s, Stable(g, s), NEW q,
         q = [s EXCEPT !.state = "uninvokable"]
           \/ q = [s EXCEPT !.state = "uninvokable", !.allocated = {}]
  PROVE  Stable(g, q) /\ q.undone = s.undone /\ q.applied = s.applied
<1>1. DOMAIN s = Fields /\ MemoryTypes(g, s)
  BY DEF Stable, Base
<1>2. /\ SameSchedule(s, q) /\ q.state = "uninvokable" /\ q.hasPlanner = s.hasPlanner
      /\ q.lifetimes = s.lifetimes /\ q.prepared = s.prepared /\ q.nextPrepare = s.nextPrepare
      /\ q.nodes = s.nodes /\ (q.allocated = s.allocated \/ q.allocated = {})
      /\ q.undone = s.undone /\ q.applied = s.applied
  <2>1. CASE q = [s EXCEPT !.state = "uninvokable"]
    BY <2>1, <1>1 DEF Fields, SameSchedule
  <2>2. CASE q = [s EXCEPT !.state = "uninvokable", !.allocated = {}]
    BY <2>2, <1>1 DEF Fields, SameSchedule
  <2> QED BY <2>1, <2>2
<1>3. MemoryTypes(g, q)
  BY <1>1, <1>2 DEF MemoryTypes
<1> QED BY <1>2, <1>3, StableKept

LEMMA ReleaseKeeps ==
  ASSUME Inv, ReleaseNonPersistentMemory
  PROVE  Inv' /\ RedonePrefix(sub, sub')
<1> DEFINE q == [sub EXCEPT !.state = "uninvokable", !.allocated = {}]
           c == [status |-> "ok", s |-> q]
<1>1. Returns(c) /\ c.status = "ok" /\ c.s = q
  BY DEF ReleaseNonPersistentMemory
<1>2. graph \in Graphs /\ Stable(graph, sub) /\ q = [sub EXCEPT !.state = "uninvokable", !.allocated = {}]
  BY DEF Inv
<1> HIDE DEF q, c
<1>3. Stable(graph, q) /\ q.undone = sub.undone
  BY <1>2, ReleasedKept
<1>4. Call(graph, sub, c)
  BY <1>1, <1>3 DEF Call, Statuses
<1> QED BY <1>1, <1>4, ReturnsKeeps

LEMMA ResizeKeeps ==
  ASSUME Inv, ResizeInputTensor
  PROVE  Inv' /\ RedonePrefix(sub, sub')
<1> DEFINE s == IF sub.state = "immutable" THEN UndoAllDelegates(sub) ELSE sub
           q == [s EXCEPT !.state = "uninvokable"]
           c == [status |-> "ok", s |-> q]
<1>1. Returns(c) /\ c.status = "ok" /\ c.s = q /\ (sub.state = "immutable" => sub.applied # << >>)
  BY DEF ResizeInputTensor
<1>2. /\ graph \in Graphs /\ Stable(graph, sub) /\ q = [s EXCEPT !.state = "uninvokable"]
      /\ s = IF sub.state = "immutable" THEN UndoAllDelegates(sub) ELSE sub
  BY DEF Inv
<1> HIDE DEF q, c, s
<1>3. Stable(graph, s) /\ (sub.undone => s.undone)
  <2>1. CASE sub.state # "immutable"
    BY <2>1, <1>2
  <2>2. CASE sub.state = "immutable"
    <3>1. /\ Base(graph, sub) /\ MemoryTypes(graph, sub) /\ ~ sub.undone
          /\ sub.pre = Indices(Len(graph.ops)) /\ IsInjective(sub.applied) /\ sub.applied # << >>
      BY <2>2, <1>1, <1>2 DEF Stable, Ready, Controlled, Kept
    <3>2. s = UndoAllDelegates(sub)
      BY <2>2, <1>2
    <3>3. /\ Base(graph, s) /\ MemoryTypes(graph, s) /\ Original(graph, s)
          /\ s.undone /\ s.applied = sub.applied /\ s.state = "uninvokable"
      BY <3>1, <3>2, <1>2, UndoRestores
    <3>4. Scheduled(graph, s)
      BY <3>3, <1>2, OriginalScheduled DEF Original
    <3>5. Controlled(graph, s) /\ Ready(graph, s)
      BY <3>1, <3>3 DEF Controlled, Ready
    <3> QED BY <3>3, <3>4, <3>5 DEF Stable
  <2> QED BY <2>1, <2>2
<1>4. Stable(graph, q) /\ q.undone = s.undone
  BY <1>2, <1>3, ReleasedKept, ZenonT(40)
<1>5. Call(graph, sub, c)
  BY <1>1, <1>3, <1>4 DEF Call, Statuses
<1> QED BY <1>1, <1>5, ReturnsKeeps

\* Nodes that are prepared late, and memory that is given late, keep the
\* promise of an immutable graph.
LEMMA PreparedStable ==
  ASSUME NEW g \in Graphs, NEW s, Stable(g, s), NEW q, Prepared(g, s, q)
  PROVE  Stable(g, q) /\ Sound(g, q) /\ q.undone = s.undone
<1>1. /\ SameSchedule(s, q) /\ MemoryTypes(g, q) /\ q.state = s.state
      /\ s.prepared \subseteq q.prepared
      /\ s.hasPlanner => q.hasPlanner /\ s.allocated \subseteq q.allocated
      /\ q.plan = s.plan /\ q.applied = s.applied /\ q.undone = s.undone
  BY DEF Prepared, SameSchedule
<1>2. /\ Base(g, q) /\ Scheduled(g, q) /\ Controlled(g, q)
      /\ AllSized(g, s) => AllSized(g, q)
      /\ \A i : Step(q, i) = Step(s, i)
  BY <1>1, SameScheduleKeeps DEF Stable
<1>3. Short(g, q)
  BY <1>2, ScheduledIsShort
<1>4. ASSUME q.state = "immutable"
      PROVE  /\ ~ q.undone /\ q.hasPlanner
             /\ \E i \in DOMAIN q.applied : q.applied[i] \notin g.allowDynamic
             /\ AllSized(g, q) /\ Covered(q)
  <2>1. /\ ~ s.undone /\ s.hasPlanner
        /\ \E i \in DOMAIN s.applied : s.applied[i] \notin g.allowDynamic
        /\ AllSized(g, s) /\ Covered(s)
    BY <1>1, <1>4 DEF Stable, Ready
  <2>2. Covered(q)
    BY <2>1, <1>1, <1>2 DEF Covered
  <2> QED BY <2>1, <2>2, <1>1, <1>2
<1>5. Ready(g, q)
  BY <1>4 DEF Ready
<1> QED BY <1>1, <1>2, <1>3, <1>5 DEF Stable, Sound

\* Argument: the subgraph, the faults.
NextStep(a, c, k) ==
  IF c.ok /\ c.s.nextPrepare = k THEN PrepareOpsAndTensors(c.s, a[2]) ELSE c

NextGood(a, c, k) == c.ok \in BOOLEAN /\ Prepared(graph, a[1], c.s)

Nexts == INSTANCE FoldInvariant WITH Step <- NextStep, Good <- NextGood

LEMMA InvokeKeeps ==
  ASSUME Inv, NEW faults, Invoke(faults)
  PROVE  Inv' /\ RedonePrefix(sub, sub')
<1> DEFINE a == <<sub, faults>>
           base == [ok |-> TRUE, s |-> sub]
           n == Len(sub.plan)
           PrepareNext(c, k) == IF c.ok /\ c.s.nextPrepare = k THEN PrepareOpsAndTensors(c.s, faults)
                                ELSE c
           r == FoldLeft(PrepareNext, [ok |-> TRUE, s |-> sub], Indices(Len(sub.plan)))
<1>1. Returns(Status(r))
  BY DEF Invoke
<1>2. graph \in Graphs /\ Stable(graph, sub) /\ Base(graph, sub) /\ MemoryTypes(graph, sub)
  BY DEF Inv, Stable
<1>3. n \in Nat /\ DOMAIN Indices(n) = 1..n
  BY <1>2, BaseFacts, IndicesFacts
<1>4. r = Nexts!Fold(<<sub, faults>>, [ok |-> TRUE, s |-> sub], Indices(Len(sub.plan)))
  BY DEF Nexts!Fold, Nexts!FoldLeft, Nexts!MapThenFoldSet, Nexts!Max,
         FoldLeft, MapThenFoldSet, Max, NextStep
<1>5. r = Nexts!Fold(a, base, Indices(n))
  BY <1>4
<1>6. a[1] = sub /\ a[2] = faults /\ base.ok = TRUE /\ base.s = sub
  OBVIOUS
<1> HIDE DEF a, base, n, r
<1>7. NextGood(a, base, 0)
  <2>1. Prepared(graph, sub, sub)
    BY <1>2 DEF Prepared, SameSchedule
  <2>2. base.ok \in BOOLEAN
    BY <1>6
  <2> QED BY <2>1, <2>2, <1>6 DEF NextGood
<1>8. ASSUME NEW k \in 1..n, NEW c, NextGood(a, c, k - 1)
      PROVE  NextGood(a, NextStep(a, c, Indices(n)[k]), k)
  <2> DEFINE z == NextStep(a, c, Indices(n)[k])
  <2>1. c.ok \in BOOLEAN /\ Prepared(graph, sub, c.s)
    BY <1>6, <1>8 DEF NextGood
  <2>2. Sound(graph, c.s)
    BY <2>1, <1>2, PreparedStable
  <2>3. z = PrepareOpsAndTensors(c.s, faults) \/ z = c
    BY <1>6 DEF NextStep
  <2> SUFFICES NextGood(a, z, k)
    OBVIOUS
  <2> HIDE DEF z
  <2>4. CASE z = c
    BY <2>4, <2>1, <1>6 DEF NextGood
  <2>5. CASE z = PrepareOpsAndTensors(c.s, faults)
    <3>1. z.ok \in BOOLEAN /\ Prepared(graph, c.s, z.s)
      BY <2>2, <2>5, <1>2, PrepareTensorsKeeps
    <3>2. Prepared(graph, sub, z.s)
      BY <2>1, <3>1, PreparedTwice
    <3> QED BY <3>1, <3>2, <1>6 DEF NextGood
  <2> QED BY <2>3, <2>4, <2>5
<1>9. NextGood(a, Nexts!Fold(a, base, Indices(n)), n)
  BY <1>3, <1>7, <1>8, Nexts!FoldKeeps
<1>10. r.ok \in BOOLEAN /\ Prepared(graph, sub, r.s)
  BY <1>5, <1>6, <1>9 DEF NextGood
<1>11. Stable(graph, r.s) /\ r.s.undone = sub.undone
  BY <1>2, <1>10, PreparedStable
<1>12. Call(graph, sub, Status(r))
  BY <1>10, <1>11, StatusCall
<1> QED BY <1>1, <1>12, ReturnsKeeps

LEMMA InitInv ==
  ASSUME Init
  PROVE  Inv
<1> DEFINE n == Len(graph.ops)
<1>1. graph \in Graphs /\ DOMAIN graph.ops = 1..n /\ n \in Nat /\ n >= 1
  BY GraphFacts DEF Init
<1>2. /\ DOMAIN sub = Fields
      /\ sub.nodes = [i \in DOMAIN graph.ops |->
                         NewNode(graph.ops[i].in, graph.ops[i].out, NoDelegate, <<i>>)]
      /\ sub.plan = Indices(n) /\ sub.pre = << >> /\ sub.applied = << >> /\ sub.undone = FALSE
      /\ sub.state = "uninvokable" /\ sub.marks = [t \in Tensors |-> NoDelegate]
      /\ sub.hasPlanner = FALSE /\ sub.lifetimes = << >> /\ sub.allocated = {}
      /\ sub.prepared = {} /\ sub.nextPrepare = 1 /\ sub.status = "ok"
  BY DEF Init, Fields
<1> HIDE DEF n
<1>3. ASSUME NEW i \in 1..n
      PROVE  sub.nodes[i] = OpNode(graph, i)
  <2>1. sub.nodes[i] = NewNode(graph.ops[i].in, graph.ops[i].out, NoDelegate, <<i>>)
    BY <1>1, <1>2
  <2> QED BY <2>1 DEF NewNode, OpNode, OpMightHaveSideEffect, HasEffect
<1>4. sub.nodes \in Seq(Nodes(graph)) /\ Len(sub.nodes) = n /\ DOMAIN sub.nodes = 1..n
  <2>1. \A i \in 1..n : sub.nodes[i] \in Nodes(graph)
    BY <1>1, <1>3, OpNodeNames
  <2>2. sub.nodes = [i \in 1..n |-> sub.nodes[i]]
    BY <1>1, <1>2
  <2> QED BY <2>1, <2>2, <1>1
<1>5. sub.plan \in Seq(DOMAIN sub.nodes)
  <2>1. Len(sub.plan) = n /\ DOMAIN sub.plan = 1..n /\ \A i \in 1..n : sub.plan[i] = i
    BY <1>1, <1>2, IndicesFacts
  <2>2. sub.plan \in Seq(Nat)
    BY <1>1, <1>2, IndicesFacts
  <2>3. sub.plan = [i \in 1..n |-> sub.plan[i]]
    BY <2>1, <2>2
  <2> QED BY <2>1, <2>3, <1>1, <1>4
<1>6. sub.marks \in [TensorsOf(graph) -> Delegates \union {NoDelegate}]
  BY <1>2 DEF Tensors, TensorsOf
<1>7. << >> \in Seq(Delegates) /\ << >> \in Seq(SUBSET TensorsOf(graph))
  OBVIOUS
<1>8. Base(graph, sub)
  <2>1. Len(graph.ops) <= Len(sub.nodes)
    BY <1>1, <1>4 DEF n
  <2>2. \A i \in DOMAIN graph.ops : sub.nodes[i] = OpNode(graph, i)
    BY <1>1, <1>3
  <2>3. sub.applied \in Seq(Delegates) /\ sub.undone \in BOOLEAN /\ DOMAIN sub = Fields
    BY <1>2, <1>7
  <2>4. sub.nodes \in Seq(Nodes(graph))
    BY <1>4
  <2> QED BY <2>1, <2>2, <2>3, <2>4, <1>5, <1>6 DEF Base
<1>9. MemoryTypes(graph, sub)
  <2>1. 1 \in 1..(Len(graph.ops) + 1)
    BY <1>1 DEF n
  <2> QED BY <2>1, <1>2, <1>7 DEF MemoryTypes
<1>10. Stable(graph, sub)
  BY <1>1, <1>2, <1>8, <1>9, WithoutDelegates DEF Original, n
<1> QED BY <1>1, <1>2, <1>10 DEF Inv, Statuses

LEMMA NextInv ==
  ASSUME Inv, [Next]_vars
  PROVE  Inv' /\ (RedonePrefix(sub, sub') \/ UNCHANGED vars)
<1>1. CASE UNCHANGED vars
  BY <1>1 DEF vars, Inv
<1>2. CASE Next
  <2>1. ASSUME NEW faults \in Faults, NEW d \in Delegates, ModifyGraphWithDelegate(d, faults)
        PROVE  Inv' /\ RedonePrefix(sub, sub')
    BY <2>1, ModifyGraphKeeps
  <2>2. ASSUME NEW faults \in Faults, AllocateTensors(faults)
        PROVE  Inv' /\ RedonePrefix(sub, sub')
    BY <2>2, AllocateTensorsKeeps
  <2>3. ASSUME NEW faults \in Faults, RemoveAllDelegates(faults)
        PROVE  Inv' /\ RedonePrefix(sub, sub')
    BY <2>3, RemoveAllDelegatesKeeps
  <2>4. ASSUME NEW faults \in Faults, Invoke(faults)
        PROVE  Inv' /\ RedonePrefix(sub, sub')
    BY <2>4, InvokeKeeps
  <2>5. CASE ResizeInputTensor
    BY <2>5, ResizeKeeps
  <2>6. CASE ReleaseNonPersistentMemory
    BY <2>6, ReleaseKeeps
  <2> QED BY <1>2, <2>1, <2>2, <2>3, <2>4, <2>5, <2>6 DEF Next
<1> QED BY <1>1, <1>2

\* Whatever the client calls and whatever fails, Inv holds.
LEMMA InvHolds == Spec => []Inv
<1>1. Init => Inv
  BY InitInv
<1>2. Inv /\ [Next]_vars => Inv'
  BY NextInv
<1> QED BY <1>1, <1>2, PTL DEF Spec

-----------------------------------------------------------------------------
(* The properties.                                                         *)

\* Without delegates, or while they are undone, the plan is that of the model,
\* for every graph and whatever fails (UndoAllDelegates, RemoveAllDelegates).
THEOREM PlanRestoredAlways == Spec => []PlanRestored
<1>1. Inv => PlanRestored
  BY DEF Inv, Stable, Controlled, Original, PlanRestored
<1> QED BY <1>1, InvHolds, PTL

\* A call that brings delegates back has brought back all that were undone, in
\* their order (RedoAllDelegates).
THEOREM RedoneAlways == Spec => RedoneInOrder
<1>1. Init => Inv
  BY InitInv
<1>2. Inv /\ [Next]_vars => Inv'
  BY NextInv
<1>3. Inv /\ [Next]_vars =>
        [sub.undone /\ ~sub'.undone /\ sub'.status = "ok" /\ sub'.applied # << >> =>
           IsPrefix(sub.applied, sub'.applied)]_vars
  BY NextInv DEF RedonePrefix
<1> QED BY <1>1, <1>2, <1>3, PTL DEF Spec, RedoneInOrder

\* A graph is immutable only with a delegate that needs known sizes, with all
\* sizes known, and with every node prepared and given its memory, at any number
\* of calls (kStateInvokableAndImmutable).
THEOREM ImmutableAlwaysReady == Spec => []ImmutableIsReady
<1>1. ASSUME Inv
      PROVE  ImmutableIsReady
  <2>1. Base(graph, sub) /\ Ready(graph, sub)
    BY <1>1 DEF Inv, Stable
  <2>2. HasDynamicTensors(sub) <=> ~ AllSized(graph, sub)
    BY <2>1, SizesKnown
  <2> QED BY <2>1, <2>2 DEF Ready, Covered, Step, ImmutableIsReady
<1> QED BY <1>1, InvHolds, PTL

\* The fields keep their types; no delegate is applied twice
\* (delegates_applied_).
THEOREM DelegatesTypeOK == Spec => []TypeOK
<1>1. ASSUME Inv
      PROVE  TypeOK
  <2>1. /\ graph \in Graphs /\ Base(graph, sub) /\ MemoryTypes(graph, sub)
        /\ IsInjective(sub.applied) /\ sub.status \in Statuses
    BY <1>1 DEF Inv, Stable, Controlled
  <2>2. Range(sub.applied) \subseteq Delegates
    BY <2>1 DEF Base, Range
  <2>3. Tensors = TensorsOf(graph)
    BY DEF Tensors, TensorsOf
  <2> QED BY <2>1, <2>2, <2>3 DEF Base, MemoryTypes, Statuses, TypeOK
<1> QED BY <1>1, InvHolds, PTL

\* A kernel names the tensors its ops exchange with other nodes and the model,
\* and no others, for every partition of every plan (UpdateNode).
THEOREM KernelTensorsAlways == Spec => []KernelTensors
<1>1. ASSUME Inv, NEW i \in DOMAIN sub.plan
      PROVE  LET node == sub.nodes[sub.plan[i]]
                 inside == Range(node.runs)
                 made == UNION {graph.ops[o].out : o \in inside}
                 readElsewhere == UNION {graph.ops[o].in : o \in DOMAIN graph.ops \ inside}
             IN  /\ node.in = (UNION {graph.ops[o].in : o \in inside}) \ made
                 /\ node.by # NoDelegate =>
                      node.out = made \intersect (readElsewhere \union graph.outputs)
  <2> DEFINE node == Step(sub, i)
             inside == Range(node.runs)
             made == UNION {graph.ops[o].out : o \in inside}
             readElsewhere == UNION {graph.ops[o].in : o \in DOMAIN graph.ops \ inside}
  <2>1. graph \in Graphs /\ Base(graph, sub) /\ Scheduled(graph, sub)
    BY <1>1 DEF Inv, Stable
  <2>2. node \in Nodes(graph) /\ Names(graph, node)
    BY <1>1, <2>1, BaseFacts DEF Scheduled
  <2>3. node.runs \in Seq(DOMAIN graph.ops)
    BY <2>2 DEF Nodes
  <2> HIDE DEF node
  <2>4. \A a : a \in inside <=> RunsOp(node, a)
    BY DEF Range, RunsOp
  <2>5. inside \subseteq DOMAIN graph.ops
    BY <2>3 DEF Range
  <2> HIDE DEF inside
  <2>6. \A t : t \in made <=> Makes(graph, node, t)
    BY <2>4, <2>5 DEF Makes
  <2>7. \A t : t \in UNION {graph.ops[o].in : o \in inside} <=> Reads(graph, node, t)
    BY <2>4, <2>5 DEF Reads
  <2>8. \A t : t \in readElsewhere \union graph.outputs <=> Needed(graph, node, t)
    BY <2>4 DEF Needed
  <2> HIDE DEF made, readElsewhere
  <2>9. node.in = (UNION {graph.ops[o].in : o \in inside}) \ made
    BY <2>1, <2>2, <2>6, <2>7, NamesTensor
  <2>10. node.by # NoDelegate => node.out = made \intersect (readElsewhere \union graph.outputs)
    BY <2>1, <2>2, <2>6, <2>8, NamesTensor
  <2> QED BY <2>9, <2>10 DEF node, inside, made, readElsewhere, Step
<1>2. Inv => KernelTensors
  BY <1>1 DEF KernelTensors
<1> QED BY <1>2, InvHolds, PTL

\* The ops that the plan of s runs.
PlanOps(s) == FlattenSeq([i \in DOMAIN s.plan |-> s.nodes[s.plan[i]].runs])

\* A schedule runs every op once, the one that has to come first first.
LEMMA ScheduleRuns ==
  ASSUME NEW g \in Graphs, NEW s, Base(g, s), Scheduled(g, s), NEW ops, ops = PlanOps(s)
  PROVE  /\ ops \in Seq(DOMAIN g.ops) /\ IsInjective(ops) /\ Range(ops) = DOMAIN g.ops
         /\ \A i, j \in DOMAIN ops : OpMustPrecede(g, ops[i], ops[j]) => i < j
<1> DEFINE n == Len(s.plan)
           seqs == [i \in DOMAIN s.plan |-> s.nodes[s.plan[i]].runs]
<1>1. n \in Nat /\ DOMAIN s.plan = 1..n
  BY BaseFacts
<1>2. \A i \in 1..n : seqs[i] = Step(s, i).runs /\ Step(s, i).runs \in Seq(DOMAIN g.ops)
  BY <1>1, BaseFacts DEF Nodes, Step
<1>3. seqs = [i \in 1..n |-> seqs[i]]
  BY <1>1
<1>4. ops = FlattenSeq(seqs)
  BY DEF PlanOps
<1> HIDE DEF n, seqs
<1>5. seqs \in Seq(Seq(DOMAIN g.ops)) /\ Len(seqs) = n
  BY <1>1, <1>2, <1>3, SMTT(40)
<1>6. IsFlat(DOMAIN g.ops, seqs, n, ops)
  BY <1>4, <1>5, FlattenSeqIsFlat
<1>7. ops \in Seq(DOMAIN g.ops)
  BY <1>6 DEF IsFlat
<1>8. PICK row, col : Flattens(seqs, n, ops, row, col)
  BY <1>6 DEF IsFlat
<1>9. \A p \in DOMAIN ops :
        /\ row[p] \in DOMAIN s.plan /\ row[p] \in Nat /\ col[p] \in Nat
        /\ col[p] \in DOMAIN Step(s, row[p]).runs /\ ops[p] = Step(s, row[p]).runs[col[p]]
  <2>1. ASSUME NEW p \in DOMAIN ops
        PROVE  /\ row[p] \in 1..n /\ col[p] \in DOMAIN seqs[row[p]] /\ col[p] \in Nat
               /\ ops[p] = seqs[row[p]][col[p]]
    BY <1>8 DEF Flattens
  <2>2. \A p \in DOMAIN ops : row[p] \in Nat /\ row[p] \in DOMAIN s.plan
    BY <1>1, <2>1
  <2> QED BY <1>2, <2>1, <2>2
<1>10. \A p, q \in DOMAIN ops : p < q => Earlier(row[p], col[p], row[q], col[q])
  BY <1>8 DEF Flattens
<1>11. \A p, q \in DOMAIN ops : p < q \/ q < p \/ p = q
  BY <1>7
<1>12. ASSUME NEW p \in DOMAIN ops, NEW q \in DOMAIN ops, ops[p] = ops[q]
       PROVE  p = q
  <2>1. row[p] = row[q] /\ col[p] = col[q]
    BY <1>9, <1>12 DEF Scheduled
  <2> QED BY <2>1, <1>9, <1>10, <1>11 DEF Earlier
<1>13. ASSUME NEW p \in DOMAIN ops, NEW q \in DOMAIN ops, OpMustPrecede(g, ops[p], ops[q])
       PROVE  p < q
  <2>1. Earlier(row[p], col[p], row[q], col[q])
    BY <1>9, <1>13 DEF Scheduled
  <2>2. ~ (q < p) /\ p # q
    BY <2>1, <1>9, <1>10 DEF Earlier
  <2> QED BY <2>2, <1>11
<1>14. ASSUME NEW a \in DOMAIN g.ops
       PROVE  \E p \in DOMAIN ops : ops[p] = a
  <2>1. PICK i \in 1..n : RunsOp(Step(s, i), a)
    BY <1>1 DEF Scheduled
  <2>2. PICK j \in DOMAIN Step(s, i).runs : Step(s, i).runs[j] = a
    BY <2>1 DEF RunsOp
  <2>3. PICK p \in DOMAIN ops : row[p] = i /\ col[p] = j
    BY <1>2, <1>8, <2>2 DEF Flattens
  <2> QED BY <2>2, <2>3, <1>9
<1>15. Range(ops) = DOMAIN g.ops
  <2>1. \A p \in DOMAIN ops : ops[p] \in DOMAIN g.ops
    BY <1>7
  <2> QED BY <2>1, <1>14 DEF Range
<1>16. IsInjective(ops)
  BY <1>12 DEF IsInjective
<1> QED BY <1>7, <1>13, <1>15, <1>16

\* A plan that PlanRunsGraph allows, with the nodes of s.
RunsGraph(g, s) ==
  /\ \A i \in DOMAIN s.plan : s.plan[i] \in DOMAIN s.nodes /\ s.nodes[s.plan[i]].live
  /\ LET ops == PlanOps(s)
     IN  /\ IsInjective(ops) /\ Range(ops) = DOMAIN g.ops
         /\ \A i \in DOMAIN ops :
              g.ops[ops[i]].in \subseteq
                g.inputs \union UNION {g.ops[ops[j]].out : j \in 1..(i - 1)}

LEMMA ScheduleRunsGraph ==
  ASSUME NEW g \in Graphs, NEW s, Base(g, s), Scheduled(g, s)
  PROVE  RunsGraph(g, s)
<1> DEFINE ops == PlanOps(s)
<1>1. ops = PlanOps(s)
  OBVIOUS
<1> HIDE DEF ops
<1>2. /\ ops \in Seq(DOMAIN g.ops) /\ IsInjective(ops) /\ Range(ops) = DOMAIN g.ops
      /\ \A i, j \in DOMAIN ops : OpMustPrecede(g, ops[i], ops[j]) => i < j
  BY <1>1, ScheduleRuns
<1>3. Len(ops) \in Nat /\ DOMAIN ops = 1..Len(ops) /\ \A i \in DOMAIN ops : ops[i] \in DOMAIN g.ops
  BY <1>2
<1>4. ASSUME NEW i \in DOMAIN ops, NEW t, t \in g.ops[ops[i]].in, t \notin g.inputs
      PROVE  \E j \in 1..(i - 1) : t \in g.ops[ops[j]].out
  <2>1. PICK a \in DOMAIN g.ops : a < ops[i] /\ t \in g.ops[a].out
    BY <1>3, <1>4, GraphFacts
  <2>2. PICK j \in DOMAIN ops : ops[j] = a
    BY <1>2 DEF Range
  <2>3. OpMustPrecede(g, ops[j], ops[i])
    BY <2>1, <2>2, <1>4 DEF OpMustPrecede
  <2>4. j < i
    BY <2>3, <1>2
  <2>5. j \in 1..(i - 1)
    BY <2>4, <1>3
  <2> QED BY <2>1, <2>2, <2>5
<1>5. \A i \in DOMAIN ops : g.ops[ops[i]].in \subseteq
                              g.inputs \union UNION {g.ops[ops[j]].out : j \in 1..(i - 1)}
  BY <1>4
<1>6. \A i \in DOMAIN s.plan : s.plan[i] \in DOMAIN s.nodes /\ s.nodes[s.plan[i]].live
  BY BaseFacts DEF Scheduled, Names, Step
<1> QED BY <1>1, <1>2, <1>5, <1>6 DEF RunsGraph

\* The current plan, and the one kept for later, run every op of the model once,
\* after the ops that make its inputs, from nodes that are not freed; after any
\* calls and failures (PartitionGraphIntoIndependentNodeSubsets,
\* UndoAllDelegates).
THEOREM PlanAlwaysRunsGraph == Spec => []PlanRunsGraph
<1>1. ASSUME Inv, NEW plan \in {sub.plan} \union ({sub.pre} \ {<< >>})
      PROVE  /\ \A i \in DOMAIN plan : plan[i] \in DOMAIN sub.nodes /\ sub.nodes[plan[i]].live
             /\ LET ops == OpsOf(plan)
                IN  /\ IsInjective(ops) /\ Range(ops) = DOMAIN graph.ops
                    /\ \A i \in DOMAIN ops :
                         graph.ops[ops[i]].in \subseteq
                           graph.inputs \union UNION {graph.ops[ops[j]].out : j \in 1..(i - 1)}
  <2> DEFINE q == [sub EXCEPT !.plan = plan]
  <2>1. graph \in Graphs /\ Base(graph, sub) /\ Scheduled(graph, sub) /\ Controlled(graph, sub)
    BY <1>1 DEF Inv, Stable
  <2>2. DOMAIN sub = Fields
    BY <2>1 DEF Base
  <2>3. /\ DOMAIN q = Fields /\ q.plan = plan /\ q.nodes = sub.nodes /\ q.applied = sub.applied
        /\ q.undone = sub.undone /\ q.marks = sub.marks
    BY <2>2 DEF Fields
  <2> HIDE DEF q
  <2>4. Base(graph, q) /\ Scheduled(graph, q)
    <3>1. CASE plan = sub.plan
      <4>1. \A i : Step(q, i) = Step(sub, i)
        BY <3>1, <2>3 DEF Step
      <4>2. Base(graph, q)
        BY <3>1, <2>1, <2>3 DEF Base
      <4>3. Scheduled(graph, q)
        BY <3>1, <4>1, <2>1, <2>3 DEF Scheduled
      <4> QED BY <4>2, <4>3
    <3>2. CASE plan # sub.plan
      <4>1. plan = sub.pre /\ sub.pre # << >>
        BY <3>2, <1>1
      <4>2. plan = Indices(Len(graph.ops))
        BY <4>1, <2>1 DEF Controlled, Original, Kept
      <4> DEFINE n == Len(graph.ops)
      <4>3. n \in Nat /\ DOMAIN graph.ops = 1..n /\ n <= Len(sub.nodes)
        BY <2>1, GraphFacts DEF Base
      <4>4. Len(sub.nodes) \in Nat /\ DOMAIN sub.nodes = 1..Len(sub.nodes)
        BY <2>1, BaseFacts
      <4>5. plan \in Seq(Nat) /\ Len(plan) = n /\ DOMAIN plan = 1..n /\ \A i \in 1..n : plan[i] = i
        BY <4>2, <4>3, IndicesFacts
      <4> HIDE DEF n
      <4>6. \A i \in 1..n : plan[i] \in DOMAIN sub.nodes
        BY <4>3, <4>4, <4>5
      <4>7. plan = [i \in 1..n |-> plan[i]]
        BY <4>5
      <4>8. plan \in Seq(DOMAIN q.nodes)
        BY <4>3, <4>6, <4>7, <2>3
      <4>9. Base(graph, q)
        BY <4>8, <2>1, <2>3 DEF Base
      <4> QED BY <4>2, <4>9, <2>1, <2>3, OriginalScheduled
    <3> QED BY <3>1, <3>2
  <2>5. RunsGraph(graph, q)
    BY <2>1, <2>4, ScheduleRunsGraph
  <2>6. PlanOps(q) = OpsOf(plan)
    BY <2>3 DEF PlanOps, OpsOf
  <2> QED BY <2>3, <2>5, <2>6 DEF RunsGraph
<1>2. Inv => PlanRunsGraph
  BY <1>1 DEF PlanRunsGraph
<1> QED BY <1>2, InvHolds, PTL

\* Ops run in the order of the model when they use one resource handle, or handles
\* that no delegate can make in a kernel, and without greedy partitioning always;
\* a kernel that makes a handle for its own ops only hides their side effects
\* (OpMightHaveSideEffect, PrepareControlEdges).
THEOREM OrderAlwaysKept == Spec => []OrderKept
<1>1. ASSUME Inv
      PROVE  OrderKept
  <2> DEFINE ops == OpsOf(sub.plan)
  <2>1. graph \in Graphs /\ Base(graph, sub) /\ Scheduled(graph, sub)
    BY <1>1 DEF Inv, Stable
  <2>2. ops = PlanOps(sub)
    BY DEF OpsOf, PlanOps
  <2> HIDE DEF ops
  <2>3. /\ ops \in Seq(DOMAIN graph.ops) /\ IsInjective(ops)
        /\ \A i, j \in DOMAIN ops : OpMustPrecede(graph, ops[i], ops[j]) => i < j
    BY <2>1, <2>2, ScheduleRuns
  <2>4. /\ DOMAIN ops \subseteq Nat /\ DOMAIN graph.ops \subseteq Nat
        /\ \A i \in DOMAIN ops : ops[i] \in DOMAIN graph.ops
    BY <2>1, <2>3, GraphFacts
  <2>5. ASSUME NEW a \in DOMAIN graph.ops, Handles(a) \ MadeInKernels # {}
        PROVE  ShowsHandle(graph, a)
    <3>1. PICK t \in Handles(a) : t \notin MadeInKernels
      BY <2>5
    <3>2. graph.claims \in [Delegates -> SUBSET DOMAIN graph.ops]
      BY <2>1, GraphsAssumption
    <3> QED BY <3>1, <3>2 DEF ShowsHandle, UsesHandle, Handles, MadeInKernels
  <2>6. ASSUME NEW a \in DOMAIN graph.ops, NEW b \in DOMAIN graph.ops,
               MustKeepOrder(b, a), a < b
        PROVE  OpMustPrecede(graph, a, b)
    <3>1. CASE Handles(b) \intersect Handles(a) # {}
      BY <2>6, <3>1 DEF OpMustPrecede, UsesHandle, Handles
    <3>2. CASE Handles(b) \ MadeInKernels # {} /\ Handles(a) \ MadeInKernels # {}
      BY <2>5, <2>6, <3>2 DEF OpMustPrecede
    <3>3. CASE ~ graph.greedily
      BY <2>6, <3>3 DEF OpMustPrecede
    <3> QED BY <2>6, <3>1, <3>2, <3>3 DEF MustKeepOrder
  <2>7. ASSUME NEW i \in DOMAIN ops, NEW j \in DOMAIN ops, i < j, MustKeepOrder(ops[i], ops[j])
        PROVE  ops[i] < ops[j]
    <3>1. ops[i] # ops[j]
      BY <2>3, <2>4, <2>7 DEF IsInjective
    <3>2. ~ (ops[j] < ops[i])
      BY <2>3, <2>4, <2>6, <2>7
    <3> QED BY <3>1, <3>2, <2>4
  <2> QED BY <2>7 DEF OrderKept, ops
<1> QED BY <1>1, InvHolds, PTL

=============================================================================
