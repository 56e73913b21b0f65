---------------------------- MODULE MCWeightCache ----------------------------
(* Three weights, shorter and longer than the list they overwrite.         *)
EXTENDS WeightCache

CONSTANTS a, b, c

MCKeys == {a, b, c}
MCSize == (a :> 1) @@ (b :> 2) @@ (c :> 4)

=============================================================================
