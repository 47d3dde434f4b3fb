----------------------------- MODULE MCTxidSet ------------------------------
(***************************************************************************)
(* Instances of TxidSet for TLC.                                           *)
(***************************************************************************)
EXTENDS TxidSet, TLC

CONSTANTS t1, t2, s1, s2, p1, p2, p3, w1, w2

(* s1 has the callers p1 and p2 and the worker w1, s2 has p3 and w2.       *)
MCOwner == [p \in Callers \cup Workers |-> IF p \in {p3, w2} THEN s2 ELSE s1]

(* p1 and p3 claim and p2 marks; all only claim.                           *)
OneMarker == [p \in Callers |-> IF p = p2 THEN {"mark"} ELSE {"claim"}]
OnlyClaims == [p \in Callers |-> {"claim"}]

KeySymmetry == Permutations(Keys)
=============================================================================
