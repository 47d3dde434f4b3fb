--------------------------- MODULE MCMemoryCache ----------------------------
(***************************************************************************)
(* Instances of MemoryCache for TLC: values of length 0 to 4, and small    *)
(* batches and slack so that the loops' limits are met.                    *)
(***************************************************************************)
EXTENDS MemoryCache, TLC

CONSTANTS k1, k2, k3, v0, v1, v2, v4, r1

MCSize == [v \in Values |-> CASE v = v0 -> 0 [] v = v1 -> 1 [] v = v2 -> 2 [] v = v4 -> 4]

KeySymmetry == Permutations(Keys)
=============================================================================
