-------------------------- MODULE MCArenaSegments --------------------------
(***************************************************************************)
(* ArenaSegments for TLC: three tensors over two nodes, sizes that leave *)
(* gaps with an alignment of two, and a size_t so small that additions     *)
(* overflow when the arena is full.                                        *)
(***************************************************************************)
EXTENDS ArenaSegments

\* Bound: blocks that were replaced stay active until the node they end at,
\* so the active allocs are not bounded by the number of tensors.
CONSTANT MaxActive

FewActive == Cardinality(arena.active) <= MaxActive

\* Tensors are only compared.
TensorSymmetry == Permutations(Tensors)
=============================================================================
