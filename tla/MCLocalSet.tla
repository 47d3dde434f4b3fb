----------------------------- MODULE MCLocalSet -----------------------------
(***************************************************************************)
(* Instances of LocalSet for TLC.                                          *)
(***************************************************************************)
EXTENDS LocalSet, TLC

CONSTANTS a, b, d, c1, c2

Symmetric == Permutations(Keys) \cup Permutations(Callers)
=============================================================================
