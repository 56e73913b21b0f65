--------------------------- MODULE ArenaContract ---------------------------
(***************************************************************************)
(* What the memory arena promises to the planner, with nothing of how it   *)
(* finds a place for a block: the blocks that are handed out are disjoint  *)
(* whenever their tensors are needed at the same time, and once the arena  *)
(* is ready every block lies inside the buffer.                            *)
(***************************************************************************)
EXTENDS Integers

CONSTANTS Tensors,  \* the tensors that ask for a block
          Block,    \* the blocks: [tensor, offset, size, first, last]
          NoBlock   \* a tensor without a block

VARIABLES blocks,    \* the block of each tensor, or NoBlock
          capacity,  \* bytes of the buffer
          ready      \* the blocks may be resolved to addresses

vars == <<blocks, capacity, ready>>

NeededTogether(a, b) == a.first <= b.last /\ b.first <= a.last

Apart(a, b) == a.offset + a.size <= b.offset \/ b.offset + b.size <= a.offset

Init ==
  /\ blocks = [t \in Tensors |-> NoBlock]
  /\ capacity = 0
  /\ ready = FALSE

\* A tensor gets a block apart from every block it may meet; the addresses
\* have to be resolved again. An empty block meets nothing.
Place(t) ==
  /\ blocks' \in [Tensors -> Block \union {NoBlock}]
  /\ \A u \in Tensors \ {t} :
       /\ blocks'[u] = blocks[u]
       /\ blocks'[t].size > 0 /\ blocks[u].size > 0
          /\ NeededTogether(blocks'[t], blocks[u])
          => Apart(blocks'[t], blocks[u])
  /\ ready' = FALSE
  /\ UNCHANGED capacity

\* The planner takes blocks back; the others stay where they are.
Drop ==
  /\ blocks' \in [Tensors -> Block \union {NoBlock}]
  /\ \A t \in Tensors : blocks'[t] \in {blocks[t], NoBlock}
  /\ ready' => ready
  /\ ready' \in BOOLEAN
  /\ UNCHANGED capacity

\* The buffer is brought to a size that holds every block.
MakeReady ==
  /\ capacity' \in Nat
  /\ capacity' >= capacity
  /\ \A t \in Tensors : blocks[t].offset + blocks[t].size <= capacity'
  /\ ready' = TRUE
  /\ UNCHANGED blocks

\* The planner is about to change the plan, or the buffer could not grow.
NotReady ==
  /\ ready' = FALSE
  /\ UNCHANGED <<blocks, capacity>>

Release ==
  /\ capacity' = 0
  /\ ready' = FALSE
  /\ UNCHANGED blocks

Next == (\E t \in Tensors : Place(t)) \/ Drop \/ MakeReady \/ NotReady \/ Release

Spec == Init /\ [][Next]_vars
=============================================================================
